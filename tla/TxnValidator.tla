---------------------------- MODULE TxnValidator ----------------------------
(***************************************************************************)
(* The asynchronous transaction validator: the queues of CTxnValidator,    *)
(* the batches that its thread hands to parallel tasks, the double-spend   *)
(* detector and the mempool the tasks share, and the orphan pool.          *)
(*                                                                         *)
(* A queue entry (CTxInputData) is a record: its transaction and the       *)
(* address of the object that holds it, its validation priority, whether   *)
(* it is an orphan, and whether it holds the transaction's id in the       *)
(* TxIdTracker.  Every transaction is final and comes from the peer        *)
(* PeerOf[t]; fees are left out and the outcome of the checks that read no *)
(* shared state is world.kind[t].  The validator thread holds cs_main from *)
(* the moment it takes a batch until the batch is done, so blocks and      *)
(* synchronous validations fall between batches.                           *)
(***************************************************************************)
EXTENDS Integers, Sequences, FiniteSetsExt, Functions

CONSTANTS Tx, Genesis,        \* loose transactions; the confirmed one they spend
          Ins, NOuts,         \* Ins[t]: the outpoints t spends, in order of vin
          Addrs,              \* addresses: how often a transaction is held at once
          Peers, PeerOf,
          StdBatch, NonStdBatch,             \* batch sizes
          MaxCollected,                      \* mMaxCollectedOutpoints, 0: no limit
          Worlds              \* what the surroundings are like, each a record of
                              \*   txs: the transactions that arrive
                              \*   kind: "ok", "nonstd" inputs, "slow", "policy" or "invalid"
                              \*   faulty: transactions whose validation may throw
                              \*   queue, orphans, pool: limits (-maxmemorytxqueues, ...)
                              \*   upsets: blocks, local transactions, lost peers, expiry

(* A transaction that gets past the first checks has inputs, and no two of *)
(* them are the same (CheckTransactionCommon, CheckRegularTransaction).    *)
ASSUME InsAssumption ==
  \A t \in Tx : /\ Ins[t] \in Seq((Tx \cup {Genesis}) \X Nat)
                /\ Ins[t] # <<>> /\ IsInjective(Ins[t])

ASSUME BatchAssumption == StdBatch \in Nat /\ NonStdBatch \in Nat

ASSUME WorldsAssumption == \A w \in Worlds : w.txs \subseteq Tx /\ w.queue \in Nat

VARIABLES mStdTxns, mNonStdTxns, mProcessingQueue,
          running, late,      \* a batch runs; its time has elapsed
          pc, res,            \* per entry of the batch: next step and outcome
          pool, coins,        \* the mempool; unspent confirmed outpoints
          mKnownSpends, mKnownSpendsTx,
          mOrphanTxns, mCollectedOutpoints,
          rejects, tipMoved,  \* recent rejects; the tip moved since their reset
          peers,              \* connected peers
          world               \* one of Worlds

queues == <<mStdTxns, mNonStdTxns, mProcessingQueue>>
batch == <<running, late, pc, res>>
detector == <<mKnownSpends, mKnownSpendsTx>>
orphanage == <<mOrphanTxns, mCollectedOutpoints>>
rest == <<coins, rejects, tipMoved, peers, world>>
vars == <<queues, batch, pool, detector, orphanage, rest>>

Outs(t) == {<<t, i>> : i \in 0..NOuts[t] - 1}
Spent(t) == Range(Ins[t])
Parents(t) == {op[1] : op \in Spent(t)}

(* What CCoinsViewMemPool offers: confirmed coins and outputs of the       *)
(* mempool, whether or not the mempool spends them.                        *)
Available(P) == coins \cup UNION {Outs(t) : t \in P}

(* Sets of mempool transactions that hold every child of their members,    *)
(* and the least of them around S: S and everything that descends from it. *)
Closed(P) == {D \in SUBSET P : \A t \in P : Parents(t) \cap D # {} => t \in D}
Descendants(P, S) == {t \in P : \A D \in Closed(P) : P \cap S \subseteq D => t \in D}

Items == [tx : Tx, addr : Addrs, prio : {"high", "low"}, orphan : BOOLEAN, stored : BOOLEAN]
Queued == Range(mStdTxns) \cup Range(mNonStdTxns) \cup Range(mProcessingQueue)

(* CTxIdTracker holds an id while an entry that inserted it is alive: in a *)
(* queue, in the batch or in the orphan pool.                              *)
Tracked == {it.tx : it \in {i \in Queued \cup mOrphanTxns : i.stored}}

Take(q, n) == SubSeq(q, 1, IF n > Len(q) THEN Len(q) ELSE n)
Drop(q, n) == SubSeq(q, n + 1, Len(q))

(* enqueueTxnsNL with isSpaceForTxnNL, a queue's memory being counted in   *)
(* transactions: what comes when the queue is full is dropped.             *)
EnqueueTxns(q, txns) == q \o Take(txns, world.queue - Len(q))

(* Some positions in increasing order; a set of entries in any order.      *)
InOrder(S) == {p \in [1..Cardinality(S) -> S] : \A i, j \in DOMAIN p : i < j => p[i] < p[j]}
AnyOrder(S) == Injection(1..Cardinality(S), S)

-----------------------------------------------------------------------------
(* CConnman::ParallelTxnValidation cuts the batch into tasks.  mChains     *)
(* gives a transaction the chain of its first known parent, or the next    *)
(* number; an entry stays in the current task when its parent's chain is   *)
(* the newest one and the priority is unchanged.                           *)
ChainOf(q, m, i) ==
  LET known == SelectSeq(Ins[q[i].tx], LAMBDA op : op[1] \in DOMAIN m)
  IN  IF known = <<>> THEN 0 ELSE m[Head(known)[1]]

Chains(q) ==
  LET f[i \in 0..Len(q)] ==
        IF i = 0 THEN [m |-> <<>>, last |-> 0, cut |-> {}]
        ELSE LET p == f[i - 1]
                 c == ChainOf(q, p.m, i)
                 n == IF c = 0 THEN p.last + 1 ELSE p.last
                 t == q[i].tx
             IN  [m    |-> IF t \in DOMAIN p.m THEN p.m
                           ELSE [u \in DOMAIN p.m \cup {t} |->
                                   IF u # t THEN p.m[u] ELSE IF c = 0 THEN n ELSE c],
                  last |-> n,
                  cut  |-> IF i > 1 /\ c # 0 /\ c = p.last /\ q[i].prio = q[i - 1].prio
                           THEN p.cut ELSE p.cut \cup {i}]
  IN  f[Len(q)]

(* The positions at which a task begins.                                   *)
TaskStarts(q) == Chains(q).cut

-----------------------------------------------------------------------------
\* Mutant: only the first input is looked up.
IsFirstInputKnown(t) == \E i \in 1..Len(mKnownSpends) : mKnownSpends[i] = Ins[t][1]

(* The double-spend detector: insertTxnInputs and removeTxnInputs, each    *)
(* under mMainMtx.  A transaction is known by its address, which an orphan *)
(* shares with the entries made to retry it.                               *)
IsAnyOfInputsKnown(t) == \E i \in 1..Len(mKnownSpends) : mKnownSpends[i] \in Spent(t)

Address(it) == <<it.tx, it.addr>>

insertTxnInputs(it) ==
  /\ mKnownSpendsTx' = mKnownSpendsTx \cup {Address(it)}
  /\ mKnownSpends' = mKnownSpends \o Ins[it.tx]

removeTxnInputs(it) ==
  IF Address(it) \notin mKnownSpendsTx THEN UNCHANGED detector
  ELSE LET t == it.tx
           first == CHOOSE i \in 1..Len(mKnownSpends) :
                      /\ mKnownSpends[i] = Ins[t][1]
                      /\ \A j \in 1..i - 1 : mKnownSpends[j] # Ins[t][1]
       IN  /\ mKnownSpendsTx' = mKnownSpendsTx \ {Address(it)}
           /\ mKnownSpends' = SubSeq(mKnownSpends, 1, first - 1)
                \o SubSeq(mKnownSpends, first + Len(Ins[t]), Len(mKnownSpends))

CheckTxConflicts(t) == \E u \in pool : Spent(u) \cap Spent(t) # {}

-----------------------------------------------------------------------------
(* The orphan pool.  mOrphanTxnsByPrev is the relation between an orphan   *)
(* and the outpoints it spends, so it is not kept apart.                   *)
IsOrphan(t) == \E o \in mOrphanTxns : o.tx = t
EraseTxn(O, t) == {o \in O : o.tx # t}

(* limitTxnsSize sweeps out expired entries and evicts random ones until   *)
(* the pool is within its limit.                                           *)
Limited(O) == {K \in SUBSET O :
                 IF world.upsets THEN Cardinality(K) <= world.orphans
                 ELSE \/ K = O /\ Cardinality(O) <= world.orphans
                      \/ Cardinality(K) = world.orphans}

\* Mutant: nothing is remembered while no orphan waits.
CollectForOrphans(c, t) ==
  IF mOrphanTxns = {} THEN c ELSE c \o [i \in 1..NOuts[t] |-> <<t, i - 1>>]

(* collectTxnOutpoints: remember what an accepted transaction creates,     *)
(* dropping as many of the oldest entries when the buffer is full.  When   *)
(* it holds fewer than that, the iterators of std::rotate leave the vector *)
(* and nothing is promised.                                                *)
CollectTxnOutpoints(c, t) ==
  LET n == NOuts[t]
      kept == IF MaxCollected = 0 \/ Len(c) + n <= MaxCollected THEN c
              ELSE IF n < MaxCollected THEN SubSeq(c, n + 1, Len(c)) ELSE <<>>
  IN  kept \o [i \in 1..n |-> <<t, i - 1>>]

(* eraseCollectedOutpointsFromTxns drops the first run of t's outpoints.   *)
EraseCollected(c, t) ==
  IF \A i \in 1..Len(c) : c[i][1] # t THEN c
  ELSE LET first == CHOOSE i \in 1..Len(c) : c[i][1] = t /\ \A j \in 1..i - 1 : c[j][1] # t
           end == CHOOSE e \in first + 1..Len(c) + 1 :
                    /\ e = Len(c) + 1 \/ c[e][1] # t
                    /\ \A j \in first..e - 1 : c[j][1] = t
       IN  SubSeq(c, 1, first - 1) \o SubSeq(c, end, Len(c))

(* collectDependentTxnsForRetry: of each run of outpoints of one parent    *)
(* that some orphan spends, the orphans of the first are retried and the   *)
(* other outpoints are kept, shuffled, for the next call.                  *)
Dependent(O, c) == SelectSeq(c, LAMBDA op : \E o \in O : op \in Spent(o.tx))
RunStarts(d) == {i \in 1..Len(d) : i = 1 \/ d[i - 1][1] # d[i][1]}

RetryTxns(O, c) ==
  LET d == Dependent(O, c)
      now == {d[i] : i \in RunStarts(d)}
  IN  {[o EXCEPT !.orphan = TRUE, !.stored = FALSE] :
         o \in {x \in O : Spent(x.tx) \cap now # {}}}

KeptOutpoints(O, c) ==
  LET d == Dependent(O, c)
      later == CHOOSE p \in InOrder((1..Len(d)) \ RunStarts(d)) : TRUE
      same(i, j) == Cardinality({k \in RunStarts(d) : k <= later[i]})
                      = Cardinality({k \in RunStarts(d) : k <= later[j]})
      n == Len(later)
  IN  {[i \in 1..n |-> d[later[p[i]]]] :
         p \in {q \in Injection(1..n, 1..n) : \A i \in 1..n : same(i, q[i])}}

-----------------------------------------------------------------------------
Init ==
  /\ mStdTxns = <<>> /\ mNonStdTxns = <<>> /\ mProcessingQueue = <<>>
  /\ running = FALSE /\ late = FALSE /\ pc = <<>> /\ res = <<>>
  /\ pool = {} /\ coins = Outs(Genesis)
  /\ mKnownSpends = <<>> /\ mKnownSpendsTx = {}
  /\ mOrphanTxns = {} /\ mCollectedOutpoints = <<>>
  /\ rejects = {} /\ tipMoved = FALSE /\ peers = Peers /\ world \in Worlds

(* ProcessTxMessage: IsTxnKnown resets the rejects when the tip has moved; *)
(* an unknown transaction joins the standard queue with high priority.     *)
Arrive(t) ==
  LET known == IF tipMoved THEN {} ELSE rejects
      free == {a \in Addrs : \A it \in Queued \cup mOrphanTxns : Address(it) # <<t, a>>}
  IN  /\ free # {}
      /\ PeerOf[t] \in peers
      /\ t \notin known \cup pool \cup Tracked
      /\ \A i \in {0, 1} : <<t, i>> \notin coins
      /\ rejects' = known /\ tipMoved' = FALSE
      /\ mStdTxns' = EnqueueTxns(mStdTxns,
                        <<[tx |-> t, addr |-> CHOOSE a \in free : TRUE,
                           prio |-> "high", orphan |-> FALSE, stored |-> TRUE]>>)
      /\ UNCHANGED <<mNonStdTxns, mProcessingQueue, batch, pool, detector, orphanage,
                     coins, peers, world>>

(* One turn of threadNewTxnHandler begins: queued transactions are taken   *)
(* while the batch, which may hold cancelled entries, is small enough.  An *)
(* idle turn, with nothing queued or collected, is left out.               *)
StartBatch ==
  LET max == StdBatch + NonStdBatch
      ns == IF Len(mProcessingQueue) < max THEN Len(Take(mStdTxns, StdBatch)) ELSE 0
      q1 == mProcessingQueue \o Take(mStdTxns, ns)
      nn == IF Len(q1) < max THEN Len(Take(mNonStdTxns, NonStdBatch)) ELSE 0
      q2 == q1 \o Take(mNonStdTxns, nn)
  IN  /\ ~running
      /\ q2 # <<>> \/ mCollectedOutpoints # <<>>
      /\ running' = TRUE /\ late' = FALSE
      /\ mStdTxns' = Drop(mStdTxns, ns) /\ mNonStdTxns' = Drop(mNonStdTxns, nn)
      /\ mProcessingQueue' = q2
      /\ pc' = [i \in 1..Len(q2) |-> "queued"] /\ res' = [i \in 1..Len(q2) |-> "none"]
      /\ UNCHANGED <<pool, detector, orphanage, rest>>

\* Mutant: no entry needs to have begun.
ElapseAtOnce ==
  /\ running /\ ~late
  /\ late' = TRUE
  /\ UNCHANGED <<queues, running, pc, res, pool, detector, orphanage, rest>>

(* The time for asynchronous tasks runs out, after some entry has begun.   *)
Elapse ==
  /\ running /\ ~late
  /\ \E i \in DOMAIN pc : pc[i] = "queued"
  /\ \E i \in DOMAIN pc : pc[i] # "queued"
  /\ late' = TRUE
  /\ UNCHANGED <<queues, running, pc, res, pool, detector, orphanage, rest>>

Goto(i, label) == pc' = [pc EXCEPT ![i] = label]
Fail(i, why) == Goto(i, "failed") /\ res' = [res EXCEPT ![i] = why]
TxOf(i) == mProcessingQueue[i].tx

(* TxnValidationProcessingTask handles the entries of a task in order; an  *)
(* entry that is late is cancelled, the first checks of TxnValidation read *)
(* the mempool once.                                                       *)
PoolCheck(i) ==
  LET t == TxOf(i)
  IN  /\ running /\ pc[i] = "queued"
      /\ i \notin TaskStarts(mProcessingQueue) => pc[i - 1] = "done"
      /\ IF late THEN Goto(i, "done") /\ res' = [res EXCEPT ![i] = "cancelled"]
         ELSE IF world.kind[t] = "invalid" THEN Fail(i, "invalid")
         ELSE IF t \in pool THEN Fail(i, "known")
         ELSE IF CheckTxConflicts(t) THEN Fail(i, "conflict")
         ELSE Goto(i, "inputs") /\ UNCHANGED res
      /\ UNCHANGED <<queues, running, late, pool, detector, orphanage, rest>>

(* The checks under the mempool's shared lock, then those that depend on   *)
(* the transaction alone.  Inputs that are not standard, and validation    *)
(* that takes too long, both count as a timeout of a high-priority entry.  *)
InputCheck(i) ==
  LET t == TxOf(i)
      high == mProcessingQueue[i].prio = "high"
  IN  /\ pc[i] = "inputs"
      /\ \/ Outs(t) \cap Available(pool) # {} /\ Fail(i, "known")
         \/ /\ Outs(t) \cap Available(pool) = {}
            /\ ~ Spent(t) \subseteq Available(pool)
            /\ Fail(i, "missing")
         \/ /\ Outs(t) \cap Available(pool) = {}
            /\ Spent(t) \subseteq Available(pool)
            /\ \/ world.kind[t] = "nonstd" /\ high /\ Fail(i, "timeout")
               \/ world.kind[t] = "slow" /\ Fail(i, "timeout")
               \/ world.kind[t] = "policy" /\ Fail(i, "policy")
               \/ /\ world.kind[t] \in (IF high THEN {"ok", "slow"} ELSE {"ok", "slow", "nonstd"})
                  /\ Goto(i, "insert") /\ UNCHANGED res
      /\ UNCHANGED <<queues, running, late, pool, detector, orphanage, rest>>

(* insertTxnInputs, the last check of TxnValidation.                       *)
Insert(i) ==
  LET t == TxOf(i)
  IN  /\ pc[i] = "insert"
      /\ IF CheckTxConflicts(t) THEN Fail(i, "conflict") /\ UNCHANGED detector
         ELSE IF IsAnyOfInputsKnown(t) THEN Fail(i, "doublespend") /\ UNCHANGED detector
         ELSE Goto(i, "commit") /\ insertTxnInputs(mProcessingQueue[i]) /\ UNCHANGED res
      /\ UNCHANGED <<queues, running, late, pool, orphanage, rest>>

(* CommitTxToMempool; the mempool is limited when the batch is done.       *)
Commit(i) ==
  /\ pc[i] = "commit"
  /\ pool' = pool \cup {TxOf(i)}
  /\ Goto(i, "collect") /\ res' = [res EXCEPT ![i] = "ok"]
  /\ UNCHANGED <<queues, running, late, detector, orphanage, rest>>

(* ProcessValidatedTxn after a commit: remember the outputs for orphans,   *)
(* and the transaction is no orphan any more.                              *)
Collect(i) ==
  /\ pc[i] = "collect"
  /\ mCollectedOutpoints' = CollectTxnOutpoints(mCollectedOutpoints, TxOf(i))
  /\ mOrphanTxns' = EraseTxn(mOrphanTxns, TxOf(i))
  /\ Goto(i, "remove")
  /\ UNCHANGED <<queues, running, late, res, pool, detector, rest>>

(* HandleInvalidP2POrphanTxn.                                              *)
HandleInvalidOrphan(t, why, completed) ==
  IF why = "missing" THEN UNCHANGED <<orphanage, rejects>>
  ELSE /\ mOrphanTxns' = IF why = "invalid"
                         THEN {o \in mOrphanTxns : PeerOf[o.tx] # PeerOf[t]}
                         ELSE IF completed THEN EraseTxn(mOrphanTxns, t) ELSE mOrphanTxns
       /\ rejects' = IF completed THEN rejects \cup {t} ELSE rejects
       /\ UNCHANGED mCollectedOutpoints

(* HandleInvalidP2PNonOrphanTxn and HandleOrphanAndRejectedP2PTxns.        *)
HandleInvalidNonOrphan(it, why, completed) ==
  \/ /\ why = "missing" /\ Parents(it.tx) \cap rejects = {}
     /\ mOrphanTxns' \in Limited(IF IsOrphan(it.tx) THEN mOrphanTxns
                                 ELSE mOrphanTxns \cup {[it EXCEPT !.orphan = TRUE]})
     /\ UNCHANGED <<mCollectedOutpoints, rejects>>
  \/ /\ why # "missing" \/ Parents(it.tx) \cap rejects # {}
     /\ rejects' = IF completed THEN rejects \cup {it.tx} ELSE rejects
     /\ UNCHANGED orphanage

(* ProcessValidatedTxn after a failed validation.  Nothing is done for a   *)
(* peer that is gone.                                                      *)
HandleInvalid(i) ==
  LET it == mProcessingQueue[i]
      completed == it.prio = "low" \/ res[i] # "timeout"
  IN  /\ pc[i] = "failed"
      /\ IF PeerOf[it.tx] \notin peers THEN UNCHANGED <<orphanage, rejects>>
         ELSE IF it.orphan THEN HandleInvalidOrphan(it.tx, res[i], completed)
         ELSE HandleInvalidNonOrphan(it, res[i], completed)
      /\ Goto(i, "remove")
      /\ UNCHANGED <<queues, running, late, res, pool, detector, coins, tipMoved, peers, world>>

(* The last step of ProcessValidatedTxn, in all cases.                     *)
Release(i) ==
  /\ pc[i] = "remove"
  /\ removeTxnInputs(mProcessingQueue[i])
  /\ Goto(i, "done")
  /\ UNCHANGED <<queues, running, late, res, pool, orphanage, rest>>

\* Mutant: the detector is left alone.
ExceptionKeepsInputs(i) ==
  /\ pc[i] \in {"inputs", "insert", "commit"} /\ TxOf(i) \in world.faulty
  /\ Goto(i, "done") /\ res' = [res EXCEPT ![i] = "fault"]
  /\ UNCHANGED <<queues, running, late, pool, detector, orphanage, rest>>

(* An exception in TxnValidation or in the commit: the entry is Faulted.   *)
HandleTxnProcessingException(i) ==
  /\ pc[i] \in {"inputs", "insert", "commit"} /\ TxOf(i) \in world.faulty
  /\ removeTxnInputs(mProcessingQueue[i])
  /\ Goto(i, "done") /\ res' = [res EXCEPT ![i] = "fault"]
  /\ UNCHANGED <<queues, running, late, pool, orphanage, rest>>

Step(i) ==
  \/ PoolCheck(i) \/ InputCheck(i) \/ Insert(i) \/ Commit(i) \/ Collect(i)
  \/ HandleInvalid(i) \/ Release(i) \/ HandleTxnProcessingException(i)

(* LimitMempoolSize: Expire drops old transactions with their descendants; *)
(* TrimToSize drops packages until the mempool is within its limit.        *)
Expired == IF world.upsets /\ pc # <<>> THEN Closed(pool) ELSE {{}}
Trimmed(P) ==
  IF Cardinality(P) <= world.pool THEN {{}}
  ELSE {S \in Closed(P) :
          /\ Cardinality(P \ S) <= world.pool
          /\ \E r \in S : Cardinality((P \ S) \cup Descendants(P, {r})) > world.pool}

(* The entries whose time ran out: those that were never looked at, and    *)
(* those that need more of it.                                             *)
Cancelled == {i \in DOMAIN res : res[i] = "cancelled"}
Demoted == {i \in DOMAIN res : res[i] = "timeout" /\ mProcessingQueue[i].prio = "high"}

\* Mutant: an orphan is retried beside a cancelled entry of its own.
RetriedAnyway(c) == RetryTxns(mOrphanTxns, c)

(* The orphans scheduleOrphanP2PTxnsForReprocessing adds to the next       *)
(* batch.  It does not look at the non-standard queue.                     *)
Retried(c) == {it \in RetryTxns(mOrphanTxns, c) : \A i \in Cancelled : TxOf(i) # it.tx}

(* The batch is done: the mempool is limited, entries that timed out with  *)
(* high priority go to the non-standard queue, and orphans whose parents   *)
(* were accepted, then cancelled entries, open the next batch.             *)
EndBatch ==
  /\ running
  /\ \A i \in DOMAIN pc : pc[i] = "done"
  /\ \E old \in Expired : \E cut \in Trimmed(pool \ old) :
       LET c == FoldSet(LAMBDA t, acc : EraseCollected(acc, t), mCollectedOutpoints, cut)
       IN  /\ pool' = (pool \ old) \ cut
           /\ mCollectedOutpoints' \in KeptOutpoints(mOrphanTxns, c)
           /\ \E s \in AnyOrder(Retried(c)), p \in InOrder(Cancelled) :
                mProcessingQueue' = s \o [k \in DOMAIN p |-> mProcessingQueue[p[k]]]
  /\ \E p \in InOrder(Demoted) :
       mNonStdTxns' = EnqueueTxns(mNonStdTxns,
         [k \in DOMAIN p |-> [mProcessingQueue[p[k]] EXCEPT !.prio = "low"]])
  /\ running' = FALSE /\ late' = FALSE /\ pc' = <<>> /\ res' = <<>>
  /\ UNCHANGED <<mStdTxns, detector, mOrphanTxns, rest>>

-----------------------------------------------------------------------------
(* CTxnValidator::processValidation for one transaction that did not come  *)
(* from a peer: cs_main and mMainMtx keep everything else out, no limit of *)
(* time applies and no orphan pool is passed on.                           *)
ProcessValidation(t) ==
  /\ ~running
  /\ world.kind[t] \in {"ok", "nonstd", "slow"}
  /\ t \notin pool /\ ~CheckTxConflicts(t) /\ ~IsAnyOfInputsKnown(t)
  /\ Outs(t) \cap Available(pool) = {} /\ Spent(t) \subseteq Available(pool)
  /\ \E cut \in Trimmed(pool \cup {t}) : pool' = (pool \cup {t}) \ cut
  /\ UNCHANGED <<queues, batch, detector, orphanage, rest>>

(* A block with transaction t is connected: removeForBlock drops it and    *)
(* what conflicts with it from the mempool, PeerLogicValidation drops the  *)
(* orphans that spend what it spends.                                      *)
BlockConnected(t) ==
  /\ ~running
  /\ Spent(t) \subseteq coins
  /\ coins' = (coins \ Spent(t)) \cup Outs(t)
  /\ LET P == pool \ {t}
     IN  pool' = P \ Descendants(P, {u \in P : Spent(u) \cap Spent(t) # {}})
  /\ mOrphanTxns' = {o \in mOrphanTxns : Spent(o.tx) \cap Spent(t) = {}}
  /\ tipMoved' = TRUE
  /\ UNCHANGED <<queues, batch, detector, mCollectedOutpoints, rejects, peers, world>>

(* FinalizeNode: the peer is gone, and its orphans with it.                *)
Disconnect(p) ==
  /\ p \in peers
  /\ peers' = peers \ {p}
  /\ mOrphanTxns' = {o \in mOrphanTxns : PeerOf[o.tx] # p}
  /\ UNCHANGED <<queues, batch, pool, detector, mCollectedOutpoints, coins, rejects, tipMoved, world>>

Validator == StartBatch \/ Elapse \/ (\E i \in DOMAIN pc : Step(i)) \/ EndBatch
Upset == \/ \E t \in world.txs : ProcessValidation(t) \/ BlockConnected(t)
         \/ \E p \in Peers : Disconnect(p)
Next == (\E t \in world.txs : Arrive(t)) \/ (world.upsets /\ Upset) \/ Validator

Workers == \E i \in DOMAIN pc : Step(i)

(* The validator thread and the workers are scheduled while they have      *)
(* something to do (weak fairness, with the guards spelled out).           *)
CanStart == ~running /\ (Queued # {} \/ mCollectedOutpoints # <<>>)
Unfinished == running /\ \E i \in DOMAIN pc : pc[i] # "done"
CanEnd == running /\ \A i \in DOMAIN pc : pc[i] = "done"
Spec ==
  /\ Init /\ [][Next]_vars
  /\ []<>~CanStart \/ []<><<StartBatch>>_vars
  /\ []<>~Unfinished \/ []<><<Workers>>_vars
  /\ []<>~CanEnd \/ []<><<EndBatch>>_vars

-----------------------------------------------------------------------------
TypeOK ==
  /\ \A q \in {mStdTxns, mNonStdTxns, mProcessingQueue} : Range(q) \subseteq Items
  /\ running \in BOOLEAN /\ late \in BOOLEAN /\ tipMoved \in BOOLEAN
  /\ DOMAIN pc = DOMAIN res
  /\ pool \subseteq Tx /\ mKnownSpendsTx \subseteq Tx \X Addrs /\ rejects \subseteq Tx
  /\ mOrphanTxns \subseteq Items /\ peers \subseteq Peers
  /\ Len(mStdTxns) <= world.queue /\ Len(mNonStdTxns) <= world.queue

(* No two transactions of the mempool spend the same output, although      *)
(* conflicting ones are validated at the same time: insertTxnInputs lets   *)
(* one pass and keeps its inputs until it is committed.  Every input is a  *)
(* confirmed coin or the output of another mempool transaction, whatever   *)
(* blocks and evictions removed meanwhile.                                 *)
NoDoubleSpend ==
  /\ \A t, u \in pool : t # u => Spent(t) \cap Spent(u) = {}
  /\ \A t \in pool : Spent(t) \subseteq Available(pool \ {t})

(* The detector holds the inputs of exactly the entries that have passed   *)
(* it and are not finished: none is leaked by an error or an exception,    *)
(* which would reject its outputs' spenders for good, and none is dropped  *)
(* early (removeTxnInputs).  The queues stay within their limit.           *)
DetectorExact ==
  LET passed(i) == \/ pc[i] \in {"commit", "collect"}
                   \/ pc[i] = "remove" /\ res[i] = "ok"
      inside == {mProcessingQueue[i] : i \in {j \in DOMAIN pc : passed(j)}}
  IN  /\ TypeOK
      /\ mKnownSpendsTx = {Address(it) : it \in inside}
      /\ Range(mKnownSpends) = UNION {Spent(it.tx) : it \in inside}

(* A batch holds a transaction object only once, although an orphan and    *)
(* the entries made to retry it share one (collectDependentTxnsForRetry,   *)
(* scheduleOrphanP2PTxnsForReprocessing).  The detector relies on it: it   *)
(* tells transactions apart by their addresses.                            *)
OncePerBatch ==
  \A i, j \in DOMAIN pc :
    Address(mProcessingQueue[i]) = Address(mProcessingQueue[j]) => i = j

(* No entry made to retry an orphan is in the non-standard queue.          *)
NoOrphanDemoted == \A k \in 1..Len(mNonStdTxns) : ~ mNonStdTxns[k].orphan

(* Unless blocks, evictions or exceptions interfere, an orphan whose       *)
(* inputs have all become available is retried and leaves the orphan pool, *)
(* also when a parent was accepted while the orphan was being looked at    *)
(* (collectTxnOutpoints, collectDependentTxnsForRetry).                    *)
OrphanRetried ==
  []<>(world.upsets \/ \A o \in mOrphanTxns : ~ Spent(o.tx) \subseteq Available(pool))

(* Unless blocks, evictions or exceptions interfere, everything that was   *)
(* queued is settled time and again: taken, rejected or kept as an orphan, *)
(* even when batches run out of time (mCancelledTxns).                     *)
QueueSettles == []<>(world.upsets \/ Queued = {})

=============================================================================
