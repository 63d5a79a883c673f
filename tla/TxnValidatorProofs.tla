------------------------- MODULE TxnValidatorProofs -------------------------
(***************************************************************************)
(* Proofs about the transaction validator, for any transactions, any batch *)
(* sizes and any limits, in two parts.                                     *)
(*                                                                         *)
(* First: every variable stays well typed and within its limit; and as     *)
(* long as no batch holds an object twice, the mempool never holds two     *)
(* transactions that spend the same output, and the double-spend detector  *)
(* holds exactly the inputs of the entries between insertTxnInputs and     *)
(* removeTxnInputs.                                                        *)
(*                                                                         *)
(* Second: a transaction object is in one place: in one queue, in the      *)
(* batch or in the orphan pool.  Hence a batch never holds an object       *)
(* twice, as long as no entry made to retry an orphan reaches the          *)
(* non-standard queue.                                                     *)
(***************************************************************************)
EXTENDS TxnValidator, FiniteSetTheorems, TLAPS

Labels == {"queued", "inputs", "insert", "commit", "collect", "failed", "remove", "done"}
Outcomes == {"none", "ok", "cancelled", "invalid", "known", "conflict", "missing", "timeout",
             "policy", "doublespend", "fault"}

TypeInv ==
  /\ world \in Worlds
  /\ mStdTxns \in Seq(Items) /\ Len(mStdTxns) <= world.queue
  /\ mNonStdTxns \in Seq(Items) /\ Len(mNonStdTxns) <= world.queue
  /\ mProcessingQueue \in Seq(Items)
  /\ running \in BOOLEAN /\ late \in BOOLEAN /\ tipMoved \in BOOLEAN
  /\ DOMAIN pc = 1..(IF running THEN Len(mProcessingQueue) ELSE 0)
  /\ pc \in [DOMAIN pc -> Labels] /\ res \in [DOMAIN pc -> Outcomes]
  /\ pool \subseteq Tx /\ rejects \subseteq Tx /\ peers \subseteq Peers
  /\ mOrphanTxns \subseteq Items /\ IsFiniteSet(mOrphanTxns)
  /\ mKnownSpendsTx \subseteq Tx \X Addrs

-----------------------------------------------------------------------------
\* Concatenation.
LEMMA ConcatIs ==
  ASSUME NEW S, NEW a \in Seq(S), NEW b \in Seq(S)
  PROVE  /\ a \o b \in Seq(S) /\ Len(a \o b) = Len(a) + Len(b)
         /\ \A k \in 1..Len(a) + Len(b) : (a \o b)[k] = IF k <= Len(a) THEN a[k] ELSE b[k - Len(a)]
OBVIOUS

\* The entries of the batch.
LEMMA EntryFacts ==
  ASSUME TypeInv, NEW i \in DOMAIN pc
  PROVE  /\ running /\ i \in 1..Len(mProcessingQueue)
         /\ mProcessingQueue[i] \in Items /\ TxOf(i) \in Tx
         /\ Address(mProcessingQueue[i]) \in Tx \X Addrs
<1>1. running /\ i \in 1..Len(mProcessingQueue)
  BY DEF TypeInv
<1>2. mProcessingQueue[i] \in Items
  BY <1>1 DEF TypeInv
<1>. QED BY <1>1, <1>2 DEF TxOf, Items, Address

\* The beginning and the rest of a queue.
LEMMA TakeDrop ==
  ASSUME NEW S, NEW q \in Seq(S), NEW n \in Nat
  PROVE  /\ Take(q, n) \in Seq(S) /\ Len(Take(q, n)) <= n /\ Len(Take(q, n)) <= Len(q)
         /\ \A k \in 1..Len(Take(q, n)) : k \in 1..Len(q) /\ Take(q, n)[k] = q[k]
         /\ Len(Take(q, n)) \in 0..Len(q)
         /\ n <= Len(q) => /\ Drop(q, n) \in Seq(S) /\ Len(Drop(q, n)) = Len(q) - n
                           /\ Len(Take(q, n)) = n
                           /\ \A k \in 1..Len(Drop(q, n)) :
                                n + k \in 1..Len(q) /\ Drop(q, n)[k] = q[n + k]
<1>. DEFINE m == IF n > Len(q) THEN Len(q) ELSE n
<1>1. m \in 0..Len(q) /\ m <= n /\ (n <= Len(q) => m = n)
  OBVIOUS
<1>. HIDE DEF m
<1>2. /\ SubSeq(q, 1, m) \in Seq(S) /\ Len(SubSeq(q, 1, m)) = m
      /\ \A k \in 1..m : SubSeq(q, 1, m)[k] = q[k]
  BY <1>1
<1>3. Take(q, n) = SubSeq(q, 1, m)
  BY DEF Take, m
<1>4. ASSUME n <= Len(q)
      PROVE  /\ Drop(q, n) \in Seq(S) /\ Len(Drop(q, n)) = Len(q) - n
             /\ \A k \in 1..Len(Drop(q, n)) : n + k \in 1..Len(q) /\ Drop(q, n)[k] = q[n + k]
  BY <1>4 DEF Drop
<1>. QED BY <1>1, <1>2, <1>3, <1>4

\* Some positions of the batch, put in order.
LEMMA InOrderFacts ==
  ASSUME NEW n \in Nat, NEW S \in SUBSET (1..n), NEW p \in InOrder(S)
  PROVE  /\ Cardinality(S) \in Nat /\ DOMAIN p = 1..Cardinality(S)
         /\ \A k \in DOMAIN p : p[k] \in S
         /\ \A k, l \in DOMAIN p : p[k] = p[l] => k = l
<1>1. IsFiniteSet(1..n)
  BY FS_Interval
<1>2. IsFiniteSet(S)
  BY <1>1, FS_Subset, Zenon
<1>5. Cardinality(S) \in Nat
  BY <1>2, FS_CardinalityType, Zenon
<1>3. p \in [1..Cardinality(S) -> S] /\ \A i, j \in DOMAIN p : i < j => p[i] < p[j]
  BY DEF InOrder
<1>4. DOMAIN p = 1..Cardinality(S) /\ \A k \in 1..Cardinality(S) : p[k] \in S
  BY <1>3
<1>6. ASSUME NEW k \in 1..Cardinality(S), NEW l \in 1..Cardinality(S), p[k] = p[l]
      PROVE  k = l
  <2>1. k < l \/ l < k \/ k = l
    BY <1>5
  <2>2. p[k] \in 1..n /\ p[l] \in 1..n
    BY <1>4, Zenon
  <2>. QED BY <2>1, <2>2, <1>3, <1>4, <1>6
<1>. QED BY <1>5, <1>4, <1>6

\* What enqueueTxnsNL keeps fits the queue.
LEMMA EnqueueFacts ==
  ASSUME NEW S, NEW q \in Seq(S), NEW txns \in Seq(S), world.queue \in Nat, Len(q) <= world.queue
  PROVE  EnqueueTxns(q, txns) \in Seq(S) /\ Len(EnqueueTxns(q, txns)) <= world.queue
<1>. DEFINE t == Take(txns, world.queue - Len(q))
<1>1. world.queue - Len(q) \in Nat
  OBVIOUS
<1>2. t \in Seq(S) /\ Len(t) <= world.queue - Len(q)
  BY <1>1, TakeDrop, Zenon
<1>. HIDE DEF t
<1>3. q \o t \in Seq(S) /\ Len(q \o t) = Len(q) + Len(t)
  BY <1>2, ConcatIs
<1>4. EnqueueTxns(q, txns) = q \o t
  BY DEF EnqueueTxns, t
<1>5. Len(q \o t) <= world.queue
  BY <1>2, <1>3
<1>. QED BY <1>3, <1>4, <1>5, Zenon
-----------------------------------------------------------------------------
(* The end of a batch.                                                     *)

(* s lists entries made to retry orphans: one for an orphan, with its      *)
(* transaction and its address, and none of a cancelled transaction.       *)
Retries(s) ==
  /\ s \in Seq(Items)
  /\ \A k, l \in 1..Len(s) : s[k] = s[l] => k = l
  /\ \A k \in 1..Len(s) :
       /\ s[k].orphan /\ \A i \in Cancelled : TxOf(i) # s[k].tx
       /\ \E o \in mOrphanTxns :
            Address(o) = Address(s[k]) /\ s[k] = [o EXCEPT !.orphan = TRUE, !.stored = FALSE]

(* q lists entries of the batch at some of the positions D, each once, as  *)
(* far as address and origin go.                                           *)
Chosen(q, D) ==
  /\ q \in Seq(Items)
  /\ \E f \in [1..Len(q) -> D] :
       /\ \A k, l \in 1..Len(q) : f[k] = f[l] => k = l
       /\ \A k \in 1..Len(q) : /\ Address(q[k]) = Address(mProcessingQueue[f[k]])
                               /\ q[k].orphan = mProcessingQueue[f[k]].orphan

\* collectDependentTxnsForRetry and scheduleOrphanP2PTxnsForReprocessing make
\* a list of retries.
LEMMA RetryFacts ==
  ASSUME mOrphanTxns \subseteq Items, IsFiniteSet(mOrphanTxns), NEW c, NEW s \in AnyOrder(Retried(c))
  PROVE  Retries(s)
<1>. DEFINE again(o) == [o EXCEPT !.orphan = TRUE, !.stored = FALSE]
            T == Retried(c)
            O == {o \in mOrphanTxns : again(o) \in T}
            f == [o \in O |-> again(o)]
<1>1. \A r \in T : (\E o \in mOrphanTxns : r = again(o)) /\ \A i \in Cancelled : TxOf(i) # r.tx
  BY Zenon DEF Retried, RetryTxns
<1>2. \A o \in mOrphanTxns : again(o) \in Items /\ again(o).orphan /\ Address(again(o)) = Address(o)
  BY Zenon DEF Items, Address
<1>. HIDE DEF again, T
<1>3. f \in Surjection(O, T)
  BY <1>1 DEF Surjection
<1>4. IsFiniteSet(O)
  BY FS_Subset
<1>5. IsFiniteSet(T)
  BY <1>3, <1>4, FS_Surjection, Zenon
<1>6. Cardinality(T) \in Nat
  BY <1>5, FS_CardinalityType, Zenon
<1>7. s \in [1..Cardinality(T) -> T] /\ \A i, j \in 1..Cardinality(T) : i # j => s[i] # s[j]
  BY DEF AnyOrder, Injection, IsInjective, T
<1>8. s \in Seq(T) /\ Len(s) = Cardinality(T)
  BY <1>6, <1>7
<1>9. T \subseteq Items
  BY <1>1, <1>2
<1>10. s \in Seq(Items)
  BY <1>8, <1>9
<1>11. \A k \in 1..Len(s) : s[k] \in T
  BY <1>7, <1>8
<1>12. \A k \in 1..Len(s) :
         /\ s[k].orphan /\ \A i \in Cancelled : TxOf(i) # s[k].tx
         /\ \E o \in mOrphanTxns : Address(o) = Address(s[k]) /\ s[k] = again(o)
  BY <1>1, <1>2, <1>11
<1>13. \A k, l \in 1..Len(s) : s[k] = s[l] => k = l
  BY <1>7, <1>8
<1>. QED BY <1>10, <1>12, <1>13, Zenon DEF again, Retries

\* Some entries of the batch in order, or copies of them, are chosen entries.
LEMMA ChosenFacts ==
  ASSUME TypeInv, NEW D \in SUBSET (1..Len(mProcessingQueue)), NEW p \in InOrder(D),
         NEW q, q = [k \in DOMAIN p |-> q[k]],
         \A k \in DOMAIN p : \/ q[k] = mProcessingQueue[p[k]]
                             \/ q[k] = [mProcessingQueue[p[k]] EXCEPT !.prio = "low"]
  PROVE  Chosen(q, D)
<1>1. Len(mProcessingQueue) \in Nat /\ \A i \in 1..Len(mProcessingQueue) : mProcessingQueue[i] \in Items
  BY DEF TypeInv
<1>2. /\ Cardinality(D) \in Nat /\ DOMAIN p = 1..Cardinality(D)
      /\ \A k \in DOMAIN p : p[k] \in D
      /\ \A k, l \in DOMAIN p : p[k] = p[l] => k = l
  BY <1>1, InOrderFacts, Zenon
<1>3. ASSUME NEW k \in DOMAIN p
      PROVE  /\ q[k] \in Items /\ Address(q[k]) = Address(mProcessingQueue[p[k]])
             /\ q[k].orphan = mProcessingQueue[p[k]].orphan
  <2>1. mProcessingQueue[p[k]] \in Items
    BY <1>1, <1>2
  <2>. QED BY <2>1 DEF Items, Address
<1>4. q \in Seq(Items) /\ Len(q) = Cardinality(D)
  BY <1>2, <1>3
<1>5. p \in [1..Len(q) -> D]
  BY <1>2, <1>4 DEF InOrder
<1>. QED BY <1>2, <1>3, <1>4, <1>5, ZenonT(60) DEF Chosen

\* The batch that is prepared holds retries and cancelled entries, and what is
\* moved to the non-standard queue are demoted ones.
LEMMA EndBatchFacts ==
  ASSUME TypeInv, EndBatch
  PROVE  /\ Cancelled \in SUBSET (1..Len(mProcessingQueue))
         /\ Demoted \in SUBSET (1..Len(mProcessingQueue))
         /\ \E s : \E can : /\ Retries(s) /\ Chosen(can, Cancelled)
                            /\ mProcessingQueue' = s \o can
         /\ \E dem : Chosen(dem, Demoted) /\ mNonStdTxns' = EnqueueTxns(mNonStdTxns, dem)
<1>1. running /\ DOMAIN res = 1..Len(mProcessingQueue)
  BY Zenon DEF EndBatch, TypeInv
<1>2. Cancelled \in SUBSET (1..Len(mProcessingQueue)) /\ Demoted \in SUBSET (1..Len(mProcessingQueue))
  BY <1>1 DEF Cancelled, Demoted
<1>3. \E c : \E s \in AnyOrder(Retried(c)), p \in InOrder(Cancelled) :
        mProcessingQueue' = s \o [k \in DOMAIN p |-> mProcessingQueue[p[k]]]
  BY Zenon DEF EndBatch
<1>4. PICK c : \E s \in AnyOrder(Retried(c)), p \in InOrder(Cancelled) :
        mProcessingQueue' = s \o [k \in DOMAIN p |-> mProcessingQueue[p[k]]]
  BY <1>3, Zenon
<1>5. PICK s \in AnyOrder(Retried(c)), p \in InOrder(Cancelled) :
        mProcessingQueue' = s \o [k \in DOMAIN p |-> mProcessingQueue[p[k]]]
  BY <1>4, Zenon
<1>6. PICK p2 \in InOrder(Demoted) :
        mNonStdTxns' = EnqueueTxns(mNonStdTxns,
          [k \in DOMAIN p2 |-> [mProcessingQueue[p2[k]] EXCEPT !.prio = "low"]])
  BY Zenon DEF EndBatch
<1>. DEFINE can == [k \in DOMAIN p |-> mProcessingQueue[p[k]]]
            dem == [k \in DOMAIN p2 |-> [mProcessingQueue[p2[k]] EXCEPT !.prio = "low"]]
<1>7. Retries(s)
  BY RetryFacts, Zenon DEF TypeInv
<1>8. can = [k \in DOMAIN p |-> can[k]] /\ \A k \in DOMAIN p : can[k] = mProcessingQueue[p[k]]
  OBVIOUS
<1>9. /\ dem = [k \in DOMAIN p2 |-> dem[k]]
      /\ \A k \in DOMAIN p2 : dem[k] = [mProcessingQueue[p2[k]] EXCEPT !.prio = "low"]
  BY Zenon
<1>. HIDE DEF can, dem
<1>10. Chosen(can, Cancelled)
  BY <1>2, <1>8, ChosenFacts, Zenon
<1>11. Chosen(dem, Demoted)
  BY <1>2, <1>9, ChosenFacts, Zenon
<1>12. mProcessingQueue' = s \o can /\ mNonStdTxns' = EnqueueTxns(mNonStdTxns, dem)
  BY <1>5, <1>6, Zenon DEF can, dem
<1>. QED BY <1>2, <1>7, <1>10, <1>11, <1>12, Zenon
-----------------------------------------------------------------------------
\* Every step keeps the variables well typed: a queue never outgrows its limit,
\* pc and res cover exactly the running batch.
LEMMA TypeStep ==
  ASSUME TypeInv, [Next]_vars
  PROVE  TypeInv'
<1>. USE DEF queues, batch, detector, orphanage, rest
<1>w. world.txs \subseteq Tx /\ world.queue \in Nat
  BY WorldsAssumption DEF TypeInv
<1>1. ASSUME NEW t \in world.txs, Arrive(t)
      PROVE  TypeInv'
  <2>. DEFINE free == {a \in Addrs : \A it \in Queued \cup mOrphanTxns : Address(it) # <<t, a>>}
              it == [tx |-> t, addr |-> CHOOSE a \in free : TRUE,
                     prio |-> "high", orphan |-> FALSE, stored |-> TRUE]
  <2>1. (CHOOSE a \in free : TRUE) \in Addrs
    BY <1>1 DEF Arrive
  <2>2. it \in Items
    BY <2>1, <1>w DEF Items
  <2>3. mStdTxns' = EnqueueTxns(mStdTxns, <<it>>)
    BY <1>1 DEF Arrive
  <2>. HIDE DEF it
  <2>4. <<it>> \in Seq(Items) /\ mStdTxns \in Seq(Items) /\ Len(mStdTxns) <= world.queue
    <3>1. <<it>> \in Seq(Items)
      BY <2>2
    <3>. QED BY <3>1, Zenon DEF TypeInv
  <2>5. mStdTxns' \in Seq(Items) /\ Len(mStdTxns') <= world.queue
    BY <2>3, <2>4, <1>w, EnqueueFacts, Zenon
  <2>6. rejects' \subseteq Tx /\ tipMoved' \in BOOLEAN
    BY <1>1, Zenon DEF Arrive, TypeInv
  <2>7. UNCHANGED <<mNonStdTxns, mProcessingQueue, batch, pool, detector, orphanage, peers, world>>
    BY <1>1 DEF Arrive
  <2>. QED BY <2>5, <2>6, <2>7 DEF TypeInv
<1>2. ASSUME StartBatch
      PROVE  TypeInv'
  <2>. DEFINE max == StdBatch + NonStdBatch
              ns == IF Len(mProcessingQueue) < max THEN Len(Take(mStdTxns, StdBatch)) ELSE 0
              q1 == mProcessingQueue \o Take(mStdTxns, ns)
              nn == IF Len(q1) < max THEN Len(Take(mNonStdTxns, NonStdBatch)) ELSE 0
              q2 == q1 \o Take(mNonStdTxns, nn)
  <2>1. /\ running' = TRUE /\ late' = FALSE
        /\ mStdTxns' = Drop(mStdTxns, ns) /\ mNonStdTxns' = Drop(mNonStdTxns, nn)
        /\ mProcessingQueue' = q2
        /\ pc' = [i \in 1..Len(q2) |-> "queued"] /\ res' = [i \in 1..Len(q2) |-> "none"]
        /\ UNCHANGED <<pool, detector, orphanage, rest>>
    BY <1>2 DEF StartBatch
  <2>2. /\ mProcessingQueue \in Seq(Items) /\ mStdTxns \in Seq(Items) /\ mNonStdTxns \in Seq(Items)
        /\ Len(mStdTxns) <= world.queue /\ Len(mNonStdTxns) <= world.queue
    BY DEF TypeInv
  <2>3. ns \in 0..Len(mStdTxns)
    <3>1. Len(Take(mStdTxns, StdBatch)) \in 0..Len(mStdTxns)
      BY <2>2, BatchAssumption, TakeDrop, Zenon
    <3>. QED BY <3>1, <2>2
  <2>4. nn \in 0..Len(mNonStdTxns)
    <3>1. Len(Take(mNonStdTxns, NonStdBatch)) \in 0..Len(mNonStdTxns)
      BY <2>2, BatchAssumption, TakeDrop, Zenon
    <3>. QED BY <3>1, <2>2
  <2>. HIDE DEF ns, nn
  <2>5. /\ Drop(mStdTxns, ns) \in Seq(Items) /\ Len(Drop(mStdTxns, ns)) = Len(mStdTxns) - ns
        /\ Take(mStdTxns, ns) \in Seq(Items)
    BY <2>2, <2>3, TakeDrop
  <2>6. /\ Drop(mNonStdTxns, nn) \in Seq(Items) /\ Len(Drop(mNonStdTxns, nn)) = Len(mNonStdTxns) - nn
        /\ Take(mNonStdTxns, nn) \in Seq(Items)
    BY <2>2, <2>4, TakeDrop
  <2>7. q1 \in Seq(Items)
    BY <2>2, <2>5
  <2>8. q2 \in Seq(Items)
    BY <2>6, <2>7
  <2>. HIDE DEF q2
  <2>9. Len(mStdTxns') <= world.queue /\ Len(mNonStdTxns') <= world.queue
    BY <2>1, <2>2, <2>3, <2>4, <2>5, <2>6, <1>w, SMTT(60), Z3T(60)
  <2>10. /\ DOMAIN pc' = 1..Len(q2) /\ pc' \in [1..Len(q2) -> Labels]
         /\ res' \in [1..Len(q2) -> Outcomes]
    BY <2>1 DEF Labels, Outcomes
  <2>. QED BY <2>1, <2>5, <2>6, <2>8, <2>9, <2>10, Zenon DEF TypeInv
<1>3. ASSUME Elapse
      PROVE  TypeInv'
  BY <1>3 DEF Elapse, TypeInv
<1>4. ASSUME NEW i \in DOMAIN pc, Step(i)
      PROVE  TypeInv'
  <2>. DEFINE Same == UNCHANGED <<queues, running, late, tipMoved, peers, world>>
              Moves == /\ DOMAIN pc' = DOMAIN pc /\ pc' \in [DOMAIN pc -> Labels]
                       /\ res' \in [DOMAIN pc -> Outcomes]
              Orphans == mOrphanTxns' \subseteq Items /\ IsFiniteSet(mOrphanTxns')
  <2>1. /\ mProcessingQueue[i] \in Items /\ TxOf(i) \in Tx
        /\ Address(mProcessingQueue[i]) \in Tx \X Addrs
    BY <1>4, EntryFacts, Zenon
  <2>2. /\ pc \in [DOMAIN pc -> Labels] /\ res \in [DOMAIN pc -> Outcomes]
        /\ mOrphanTxns \subseteq Items /\ IsFiniteSet(mOrphanTxns)
        /\ pool \subseteq Tx /\ rejects \subseteq Tx /\ mKnownSpendsTx \subseteq Tx \X Addrs
    BY DEF TypeInv
  <2>3. ASSUME NEW l \in Labels, Goto(i, l),
               res' = res \/ \E o \in Outcomes : res' = [res EXCEPT ![i] = o]
        PROVE  Moves
    BY <2>2, <2>3 DEF Goto
  <2>4. removeTxnInputs(mProcessingQueue[i]) => mKnownSpendsTx' \subseteq Tx \X Addrs
    BY <2>2, Zenon DEF removeTxnInputs
  <2>5. /\ Same /\ Moves /\ Orphans
        /\ pool' \subseteq Tx /\ rejects' \subseteq Tx /\ mKnownSpendsTx' \subseteq Tx \X Addrs
    <3>1. CASE PoolCheck(i)
      <4>1. Moves
        BY <3>1, <2>3 DEF PoolCheck, Fail, Labels, Outcomes
      <4>. QED BY <3>1, <4>1, <2>2 DEF PoolCheck
    <3>2. CASE InputCheck(i)
      <4>1. Moves
        BY <3>2, <2>3 DEF InputCheck, Fail, Labels, Outcomes
      <4>. QED BY <3>2, <4>1, <2>2 DEF InputCheck
    <3>3. CASE Insert(i)
      <4>1. Moves
        BY <3>3, <2>3 DEF Insert, Fail, Labels, Outcomes
      <4>. QED BY <3>3, <4>1, <2>1, <2>2 DEF Insert, insertTxnInputs
    <3>4. CASE Commit(i)
      <4>1. Moves
        BY <3>4, <2>3 DEF Commit, Labels, Outcomes
      <4>. QED BY <3>4, <4>1, <2>1, <2>2 DEF Commit
    <3>5. CASE Collect(i)
      <4>1. Moves
        BY <3>5, <2>3 DEF Collect, Labels
      <4>2. mOrphanTxns' \subseteq mOrphanTxns
        BY <3>5 DEF Collect, EraseTxn
      <4>3. Orphans
        BY <4>2, <2>2, FS_Subset, Zenon
      <4>. QED BY <3>5, <4>1, <4>3, <2>2 DEF Collect
    <3>6. CASE HandleInvalid(i)
      <4>1. Moves
        BY <3>6, <2>3 DEF HandleInvalid, Labels
      <4>2. mOrphanTxns' \subseteq mOrphanTxns \cup {[mProcessingQueue[i] EXCEPT !.orphan = TRUE]}
        BY <3>6 DEF HandleInvalid, HandleInvalidOrphan, HandleInvalidNonOrphan, Limited, EraseTxn
      <4>3. [mProcessingQueue[i] EXCEPT !.orphan = TRUE] \in Items
        BY Zenon, <2>1 DEF Items
      <4>4. IsFiniteSet(mOrphanTxns \cup {[mProcessingQueue[i] EXCEPT !.orphan = TRUE]})
        BY <2>2, FS_AddElement, Zenon
      <4>5. Orphans
        BY <4>2, <4>3, <4>4, <2>2, FS_Subset, Zenon
      <4>6. rejects' \subseteq Tx
        BY <3>6, <2>1, <2>2 DEF HandleInvalid, HandleInvalidOrphan, HandleInvalidNonOrphan, TxOf
      <4>. QED BY <3>6, <4>1, <4>5, <4>6, <2>2 DEF HandleInvalid
    <3>7. CASE Release(i)
      <4>1. Moves
        BY <3>7, <2>3 DEF Release, Labels
      <4>. QED BY <3>7, <4>1, <2>2, <2>4 DEF Release
    <3>8. CASE HandleTxnProcessingException(i)
      <4>1. Moves
        BY <3>8, <2>3 DEF HandleTxnProcessingException, Labels, Outcomes
      <4>. QED BY <3>8, <4>1, <2>2, <2>4 DEF HandleTxnProcessingException
    <3>. HIDE DEF Same, Moves, Orphans
    <3>. QED BY <1>4, <3>1, <3>2, <3>3, <3>4, <3>5, <3>6, <3>7, <3>8 DEF Step
  <2>. QED BY <2>5 DEF TypeInv
<1>5. ASSUME EndBatch
      PROVE  TypeInv'
  <2>1. PICK s : \E can : Retries(s) /\ Chosen(can, Cancelled) /\ mProcessingQueue' = s \o can
    BY <1>5, EndBatchFacts, Zenon
  <2>2. PICK can : Retries(s) /\ Chosen(can, Cancelled) /\ mProcessingQueue' = s \o can
    BY <2>1, Zenon
  <2>3. PICK dem : Chosen(dem, Demoted) /\ mNonStdTxns' = EnqueueTxns(mNonStdTxns, dem)
    BY <1>5, EndBatchFacts, Zenon
  <2>4. s \in Seq(Items) /\ can \in Seq(Items) /\ dem \in Seq(Items)
    BY <2>2, <2>3, Zenon DEF Retries, Chosen
  <2>5. /\ running' = FALSE /\ late' = FALSE /\ pc' = <<>> /\ res' = <<>>
        /\ UNCHANGED <<mStdTxns, detector, mOrphanTxns, rest>>
        /\ \E old \in Expired : \E cut \in Trimmed(pool \ old) : pool' = (pool \ old) \ cut
    BY Zenon, <1>5 DEF EndBatch
  <2>6. mNonStdTxns' \in Seq(Items) /\ Len(mNonStdTxns') <= world.queue
    <3>1. mNonStdTxns \in Seq(Items) /\ Len(mNonStdTxns) <= world.queue
      BY DEF TypeInv
    <3>. QED BY <2>3, <2>4, <3>1, <1>w, EnqueueFacts, Zenon
  <2>8. mProcessingQueue' \in Seq(Items)
    BY <2>2, <2>4
  <2>9. DOMAIN pc' = 1..0 /\ pc' \in [1..0 -> Labels] /\ res' \in [1..0 -> Outcomes]
    BY <2>5
  <2>10. pool' \subseteq Tx
    BY <2>5 DEF TypeInv
  <2>. QED BY Zenon, <2>5, <2>6, <2>8, <2>9, <2>10 DEF TypeInv
<1>6. ASSUME NEW t \in world.txs, ProcessValidation(t)
      PROVE  TypeInv'
  BY <1>6, <1>w DEF ProcessValidation, TypeInv
<1>7. ASSUME NEW t \in world.txs, BlockConnected(t)
      PROVE  TypeInv'
  <2>1. mOrphanTxns' \subseteq mOrphanTxns
    BY <1>7 DEF BlockConnected
  <2>2. IsFiniteSet(mOrphanTxns') /\ mOrphanTxns' \subseteq Items
    BY <2>1, FS_Subset, Zenon DEF TypeInv
  <2>. QED BY <2>2, <1>7 DEF BlockConnected, TypeInv
<1>8. ASSUME NEW p \in Peers, Disconnect(p)
      PROVE  TypeInv'
  <2>1. mOrphanTxns' \subseteq mOrphanTxns
    BY <1>8 DEF Disconnect
  <2>2. IsFiniteSet(mOrphanTxns') /\ mOrphanTxns' \subseteq Items
    BY <2>1, FS_Subset, Zenon DEF TypeInv
  <2>. QED BY <2>2, <1>8 DEF Disconnect, TypeInv
<1>9. ASSUME UNCHANGED vars
      PROVE  TypeInv'
  BY <1>9 DEF vars, TypeInv
<1>. QED BY <1>1, <1>2, <1>3, <1>4, <1>5, <1>6, <1>7, <1>8, <1>9 DEF Next, Upset, Validator

\* Init is well typed.
LEMMA TypeInit == Init => TypeInv
<1>. SUFFICES ASSUME Init
              PROVE  TypeInv
  OBVIOUS
<1>1. IsFiniteSet({})
  BY FS_EmptySet
<1>2. world \in Worlds /\ world.queue \in Nat
  BY WorldsAssumption DEF Init
<1>3. /\ mStdTxns \in Seq(Items) /\ mNonStdTxns \in Seq(Items) /\ mProcessingQueue \in Seq(Items)
      /\ Len(mStdTxns) <= world.queue /\ Len(mNonStdTxns) <= world.queue
  BY <1>2 DEF Init
<1>4. /\ DOMAIN pc = 1..0 /\ pc \in [DOMAIN pc -> Labels] /\ res \in [DOMAIN pc -> Outcomes]
      /\ running = FALSE
  BY DEF Init
<1>5. DOMAIN pc = 1..(IF running THEN Len(mProcessingQueue) ELSE 0)
  BY <1>4
<1>6. /\ running \in BOOLEAN /\ late \in BOOLEAN /\ tipMoved \in BOOLEAN
      /\ pool \subseteq Tx /\ rejects \subseteq Tx /\ peers \subseteq Peers
      /\ mOrphanTxns \subseteq Items /\ mOrphanTxns = {} /\ mKnownSpendsTx \subseteq Tx \X Addrs
  BY Zenon DEF Init
<1>. QED BY <1>1, <1>2, <1>3, <1>4, <1>5, <1>6, Zenon DEF TypeInv

(* The types and limits of the queues, of the batch and of the orphan pool *)
(* hold in every state: no queue outgrows -maxmemorytxqueues.              *)
THEOREM TypesCorrect == Spec => []TypeInv
<1>1. Init => TypeInv
  BY TypeInit
<1>2. TypeInv /\ [Next]_vars => TypeInv'
  BY TypeStep
<1>. QED BY <1>1, <1>2, PTL DEF Spec
-----------------------------------------------------------------------------
(* The vector of the double-spend detector.                                *)

Outpoints == (Tx \cup {Genesis}) \X Nat

(* Ins[t] stands in q from position s on.                                  *)
StandsAt(q, t, s) ==
  /\ s \in 1..Len(q) /\ s + Len(Ins[t]) - 1 <= Len(q)
  /\ \A k \in 1..Len(Ins[t]) : q[s + k - 1] = Ins[t][k]

\* A transaction has inputs, all different, and Spent is the set of them.
LEMMA InsFacts ==
  ASSUME NEW t \in Tx
  PROVE  /\ Ins[t] \in Seq(Outpoints) /\ Len(Ins[t]) >= 1
         /\ \A a, b \in 1..Len(Ins[t]) : Ins[t][a] = Ins[t][b] => a = b
         /\ \A o : o \in Spent(t) <=> \E k \in 1..Len(Ins[t]) : o = Ins[t][k]
         /\ Ins[t][1] \in Spent(t)
<1>1. Ins[t] \in Seq(Outpoints) /\ Ins[t] # <<>> /\ IsInjective(Ins[t])
  BY InsAssumption DEF Outpoints
<1>2. DOMAIN Ins[t] = 1..Len(Ins[t]) /\ Len(Ins[t]) \in Nat /\ Len(Ins[t]) # 0
  BY <1>1
<1>. QED BY <1>1, <1>2 DEF IsInjective, Spent, Range

\* Cutting n elements at position s out of a sequence (vector::erase).
Erased(q, s, n) == SubSeq(q, 1, s - 1) \o SubSeq(q, s + n, Len(q))

LEMMA ErasedFacts ==
  ASSUME NEW S, NEW q \in Seq(S), NEW s \in 1..Len(q), NEW n \in Nat, s + n - 1 <= Len(q)
  PROVE  /\ Erased(q, s, n) \in Seq(S) /\ Len(Erased(q, s, n)) = Len(q) - n
         /\ \A k \in 1..(Len(q) - n) : Erased(q, s, n)[k] = IF k < s THEN q[k] ELSE q[k + n]
<1>. DEFINE a == SubSeq(q, 1, s - 1)
            b == SubSeq(q, s + n, Len(q))
<1>1. a \in Seq(S) /\ Len(a) = s - 1 /\ \A k \in 1..(s - 1) : a[k] = q[k]
  OBVIOUS
<1>2. b \in Seq(S) /\ Len(b) = Len(q) - (s + n) + 1 /\ \A k \in 1..Len(b) : b[k] = q[s + n + k - 1]
  OBVIOUS
<1>3. Erased(q, s, n) = a \o b
  BY DEF Erased
<1>. HIDE DEF a, b
<1>4. /\ a \o b \in Seq(S) /\ Len(a \o b) = Len(a) + Len(b)
      /\ \A k \in 1..Len(a) + Len(b) : (a \o b)[k] = IF k <= Len(a) THEN a[k] ELSE b[k - Len(a)]
  BY <1>1, <1>2, ConcatIs, Zenon
<1>5. Len(a) + Len(b) = Len(q) - n
  BY <1>1, <1>2
<1>. DEFINE c == a \o b
<1>. HIDE DEF c
<1>6. ASSUME NEW k \in 1..(Len(q) - n)
      PROVE  c[k] = IF k < s THEN q[k] ELSE q[k + n]
  <2>0. c[k] = IF k <= s - 1 THEN a[k] ELSE b[k - (s - 1)]
    BY <1>1, <1>4, <1>5, <1>6, ZenonT(60) DEF c
  <2>1. CASE k < s
    BY <2>0, <2>1, <1>1
  <2>2. CASE ~ (k < s)
    <3>1. k - (s - 1) \in 1..Len(b) /\ c[k] = b[k - (s - 1)]
      BY <2>0, <2>2, <1>2, <1>6
    <3>2. s + n + (k - (s - 1)) - 1 = k + n
      OBVIOUS
    <3>. QED BY <3>1, <3>2, <2>2, <1>2
  <2>. QED BY <2>1, <2>2
<1>. QED BY <1>3, <1>4, <1>5, <1>6 DEF c

\* The state of the detector for a set E of passed entries of the batch.
Holding(E, q) ==
  /\ q \in Seq(Outpoints)
  /\ \A a, b \in 1..Len(q) : q[a] = q[b] => a = b
  /\ \A i, j \in E : i # j => Spent(TxOf(i)) \cap Spent(TxOf(j)) = {}
  /\ \A i \in E : \E s \in 1..Len(q) : StandsAt(q, TxOf(i), s)
  /\ \A k \in 1..Len(q) : \E i \in E : q[k] \in Spent(TxOf(i))

\* What stands in the vector is what the entries spend.
LEMMA HoldingExact ==
  ASSUME NEW E, NEW q, Holding(E, q), \A i \in E : TxOf(i) \in Tx
  PROVE  \A o : (\E k \in 1..Len(q) : q[k] = o) <=> \E i \in E : o \in Spent(TxOf(i))
<1>1. ASSUME NEW i \in E, NEW o \in Spent(TxOf(i))
      PROVE  \E k \in 1..Len(q) : q[k] = o
  <2>1. PICK s \in 1..Len(q) : StandsAt(q, TxOf(i), s)
    BY DEF Holding
  <2>2. PICK m \in 1..Len(Ins[TxOf(i)]) : o = Ins[TxOf(i)][m]
    BY InsFacts
  <2>3. Len(Ins[TxOf(i)]) \in Nat /\ Len(q) \in Nat
    BY InsFacts DEF Holding
  <2>4. s + m - 1 \in 1..Len(q) /\ q[s + m - 1] = o
    BY <2>1, <2>2, <2>3 DEF StandsAt
  <2>. QED BY <2>4
<1>. QED BY <1>1 DEF Holding

\* insertTxnInputs: an entry none of whose inputs are known joins.
LEMMA HoldingInsert ==
  ASSUME NEW E, NEW q, Holding(E, q), \A j \in E : TxOf(j) \in Tx, NEW i, i \notin E, TxOf(i) \in Tx,
         \A k \in 1..Len(q) : q[k] \notin Spent(TxOf(i))
  PROVE  Holding(E \cup {i}, q \o Ins[TxOf(i)])
<1>. DEFINE t == TxOf(i)
            n == Len(Ins[t])
            r == q \o Ins[t]
<1>1. /\ Ins[t] \in Seq(Outpoints) /\ n \in Nat /\ n >= 1 /\ q \in Seq(Outpoints) /\ Len(q) \in Nat
      /\ \A a, b \in 1..n : Ins[t][a] = Ins[t][b] => a = b
      /\ \A o : o \in Spent(t) <=> \E k \in 1..n : o = Ins[t][k]
  BY InsFacts DEF Holding
<1>2. /\ r \in Seq(Outpoints) /\ Len(r) = Len(q) + n
      /\ \A k \in 1..Len(q) + n : r[k] = IF k <= Len(q) THEN q[k] ELSE Ins[t][k - Len(q)]
  BY <1>1, ConcatIs
<1>. HIDE DEF r, n
<1>3. /\ \A k \in 1..Len(q) : k \in 1..Len(r) /\ r[k] = q[k]
      /\ \A m \in 1..n : Len(q) + m \in 1..Len(r) /\ r[Len(q) + m] = Ins[t][m]
      /\ \A k \in 1..Len(r) : \/ k \in 1..Len(q)
                              \/ \E m \in 1..n : k = Len(q) + m
  <2>1. \A k \in 1..Len(q) : k \in 1..Len(r) /\ r[k] = q[k]
    BY <1>1, <1>2
  <2>2. ASSUME NEW m \in 1..n
        PROVE  Len(q) + m \in 1..Len(r) /\ r[Len(q) + m] = Ins[t][m]
    <3>1. /\ Len(q) + m \in 1..Len(q) + n /\ ~ (Len(q) + m <= Len(q))
          /\ (Len(q) + m) - Len(q) = m
      BY <1>1
    <3>. QED BY <3>1, <1>2
  <2>3. ASSUME NEW k \in 1..Len(r), k \notin 1..Len(q)
        PROVE  \E m \in 1..n : k = Len(q) + m
    <3>1. k - Len(q) \in 1..n /\ k = Len(q) + (k - Len(q))
      BY <2>3, <1>1, <1>2
    <3>. QED BY <3>1
  <2>. QED BY <2>1, <2>2, <2>3
<1>4. \A a, b \in 1..Len(r) : r[a] = r[b] => a = b
  <2>1. ASSUME NEW a \in 1..Len(q), NEW b \in 1..Len(q), r[a] = r[b]
        PROVE  a = b
    BY <2>1, <1>3 DEF Holding
  <2>2. ASSUME NEW a \in 1..n, NEW b \in 1..n, r[Len(q) + a] = r[Len(q) + b]
        PROVE  a = b
    <3>1. Ins[t][a] = Ins[t][b]
      BY <2>2, <1>3
    <3>. QED BY <3>1, <1>1
  <2>3. ASSUME NEW a \in 1..Len(q), NEW b \in 1..n
        PROVE  r[a] # r[Len(q) + b]
    BY <2>3, <1>1, <1>3, Zenon
  <2>. QED BY <2>1, <2>2, <2>3, <1>3
<1>5. \A j \in E : Spent(TxOf(j)) \cap Spent(t) = {}
  BY HoldingExact
<1>6. ASSUME NEW j \in E
      PROVE  \E s \in 1..Len(r) : StandsAt(r, TxOf(j), s)
  <2>1. PICK s \in 1..Len(q) : StandsAt(q, TxOf(j), s)
    BY <1>6 DEF Holding
  <2>2. Len(Ins[TxOf(j)]) \in Nat
    BY <1>6, InsFacts
  <2>3. \A k \in 1..Len(Ins[TxOf(j)]) : s + k - 1 \in 1..Len(q)
    BY <2>1, <2>2, <1>1 DEF StandsAt
  <2>5. \A k \in 1..Len(Ins[TxOf(j)]) : r[s + k - 1] = Ins[TxOf(j)][k]
    BY <2>1, <2>3, <1>3, Zenon DEF StandsAt
  <2>6. s \in 1..Len(r) /\ s + Len(Ins[TxOf(j)]) - 1 <= Len(r)
    BY <2>1, <2>2, <1>1, <1>2 DEF StandsAt
  <2>4. s \in 1..Len(r) /\ StandsAt(r, TxOf(j), s)
    BY <2>5, <2>6 DEF StandsAt
  <2>. QED BY <2>4
<1>7. Len(q) + 1 \in 1..Len(r) /\ StandsAt(r, t, Len(q) + 1)
  <2>1. Len(q) + 1 \in 1..Len(r) /\ (Len(q) + 1) + n - 1 <= Len(r)
    BY <1>1, <1>2
  <2>2. ASSUME NEW k \in 1..n
        PROVE  r[(Len(q) + 1) + k - 1] = Ins[t][k]
    <3>1. (Len(q) + 1) + k - 1 = Len(q) + k
      BY <1>1
    <3>. QED BY <3>1, <1>3
  <2>. QED BY <2>1, <2>2, Zenon DEF StandsAt, n
<1>8. \A k \in 1..Len(r) : \E j \in E \cup {i} : r[k] \in Spent(TxOf(j))
  <2>1. \A k \in 1..Len(q) : \E j \in E : r[k] \in Spent(TxOf(j))
    BY <1>3, Zenon DEF Holding
  <2>2. \A m \in 1..n : r[Len(q) + m] \in Spent(t)
    BY <1>1, <1>3, Zenon
  <2>. QED BY <2>1, <2>2, <1>3, Zenon
<1>9. \A j, l \in E \cup {i} : j # l => Spent(TxOf(j)) \cap Spent(TxOf(l)) = {}
  BY <1>5 DEF Holding
<1>10. \A j \in E \cup {i} : \E s \in 1..Len(r) : StandsAt(r, TxOf(j), s)
  BY <1>6, <1>7
<1>11. Holding(E \cup {i}, r)
  BY <1>2, <1>4, <1>8, <1>9, <1>10 DEF Holding
<1>. QED BY <1>11 DEF r

\* removeTxnInputs: the inputs of an entry are found by the first of them and
\* erased in one piece; the others keep standing, in one piece each.
LEMMA HoldingRemove ==
  ASSUME NEW E, NEW q, Holding(E, q), \A j \in E : TxOf(j) \in Tx, NEW i \in E,
         NEW s \in 1..Len(q), StandsAt(q, TxOf(i), s)
  PROVE  Holding(E \ {i}, Erased(q, s, Len(Ins[TxOf(i)])))
<1>. DEFINE t == TxOf(i)
            n == Len(Ins[t])
            r == Erased(q, s, n)
            old(k) == IF k < s THEN k ELSE k + n
<1>1. /\ n \in Nat /\ n >= 1 /\ q \in Seq(Outpoints) /\ Len(q) \in Nat /\ s + n - 1 <= Len(q)
      /\ \A o : o \in Spent(t) <=> \E k \in 1..n : o = Ins[t][k]
      /\ \A k \in 1..n : q[s + k - 1] = Ins[t][k]
  <2>1. t \in Tx /\ q \in Seq(Outpoints)
    BY DEF Holding
  <2>2. /\ Ins[t] \in Seq(Outpoints) /\ Len(Ins[t]) >= 1
        /\ \A x : x \in Spent(t) <=> \E k \in 1..Len(Ins[t]) : x = Ins[t][k]
    BY <2>1, InsFacts, Zenon
  <2>3. s + n - 1 <= Len(q) /\ \A k \in 1..n : q[s + k - 1] = Ins[t][k]
    BY DEF StandsAt
  <2>4. n \in Nat /\ Len(q) \in Nat
    BY <2>1, <2>2
  <2>. QED BY <2>1, <2>2, <2>3, <2>4, Zenon
<1>. HIDE DEF n
<1>2. /\ r \in Seq(Outpoints) /\ Len(r) = Len(q) - n
      /\ \A k \in 1..(Len(q) - n) : r[k] = IF k < s THEN q[k] ELSE q[k + n]
  BY <1>1, ErasedFacts, ZenonT(60)
<1>. HIDE DEF r
<1>3. ASSUME NEW k \in 1..Len(r)
      PROVE  r[k] = q[old(k)] /\ old(k) \in 1..Len(q) /\ old(k) \notin s..(s + n - 1)
  <2>1. CASE k < s
    BY <2>1, <1>1, <1>2
  <2>2. CASE ~ (k < s)
    <3>1. k + n \in 1..Len(q) /\ k + n \notin s..(s + n - 1)
      BY <2>2, <1>1, <1>2
    <3>. QED BY <2>2, <3>1, <1>2
  <2>. QED BY <2>1, <2>2
<1>4. \A a, b \in 1..Len(r) : old(a) = old(b) => a = b
  BY <1>1, <1>2
<1>5. \A a, b \in 1..Len(r) : r[a] = r[b] => a = b
  <2>. HIDE DEF old
  <2>. QED BY <1>3, <1>4, Zenon DEF Holding
<1>6. ASSUME NEW k \in 1..Len(q), k \notin s..(s + n - 1)
      PROVE  q[k] \notin Spent(t)
  <2>. SUFFICES ASSUME NEW m \in 1..n, q[k] = Ins[t][m]
                PROVE  FALSE
    BY <1>1
  <2>1. s + m - 1 \in 1..Len(q) /\ q[s + m - 1] = q[k]
    BY <1>1
  <2>2. s + m - 1 = k
    BY Zenon, <2>1 DEF Holding
  <2>. QED BY <2>2, <1>1, <1>6
<1>7. ASSUME NEW k \in 1..Len(r)
      PROVE  \E j \in E \ {i} : r[k] \in Spent(TxOf(j))
  <2>. HIDE DEF old
  <2>. QED BY <1>3, <1>6, <1>7, Zenon DEF Holding
<1>8. ASSUME NEW j \in E \ {i}
      PROVE  \E z \in 1..Len(r) : StandsAt(r, TxOf(j), z)
  <2>. DEFINE l == Len(Ins[TxOf(j)])
  <2>1. PICK y \in 1..Len(q) : StandsAt(q, TxOf(j), y)
    BY <1>8 DEF Holding
  <2>2. /\ l \in Nat /\ l >= 1 /\ y + l - 1 <= Len(q)
        /\ \A k \in 1..l : q[y + k - 1] = Ins[TxOf(j)][k] /\ Ins[TxOf(j)][k] \in Spent(TxOf(j))
    BY <2>1, <1>8, InsFacts DEF StandsAt
  <2>. HIDE DEF l
  <2>3. ASSUME NEW k \in 1..l
        PROVE  y + k - 1 \notin s..(s + n - 1)
    <3>1. q[y + k - 1] \notin Spent(t)
      BY Zenon, <2>2, <1>8 DEF Holding
    <3>2. \A x \in s..(s + n - 1) : q[x] \in Spent(t)
      <4>. TAKE x \in s..(s + n - 1)
      <4>1. x - s + 1 \in 1..n /\ s + (x - s + 1) - 1 = x
        BY <1>1
      <4>. QED BY <4>1, <1>1, Zenon
    <3>. QED BY <3>1, <3>2
  <2>4. y + l - 1 < s \/ y >= s + n
    <3>. SUFFICES ASSUME ~ (y + l - 1 < s), ~ (y >= s + n)
                  PROVE  FALSE
      OBVIOUS
    <3>1. CASE y >= s
      <4>1. 1 \in 1..l /\ y + 1 - 1 \in s..(s + n - 1)
        BY <3>1, <2>2, <1>1
      <4>. QED BY <4>1, <2>3
    <3>2. CASE y < s
      <4>1. s - y + 1 \in 1..l /\ y + (s - y + 1) - 1 \in s..(s + n - 1)
        BY <3>2, <2>2, <1>1
      <4>. QED BY <4>1, <2>3
    <3>. QED BY <3>1, <3>2
  <2>5. CASE y + l - 1 < s
    <3>1. y \in 1..Len(r) /\ y + l - 1 <= Len(r)
      BY <2>5, <2>2, <1>1, <1>2
    <3>2. ASSUME NEW k \in 1..l
          PROVE  r[y + k - 1] = Ins[TxOf(j)][k]
      <4>1. y + k - 1 \in 1..(Len(q) - n) /\ y + k - 1 < s
        BY <2>5, <2>2, <1>1
      <4>. QED BY <4>1, <1>2, <2>2
    <3>. QED BY Zenon, <3>1, <3>2 DEF StandsAt, l
  <2>6. CASE y >= s + n
    <3>1. y - n \in 1..Len(r) /\ (y - n) + l - 1 <= Len(r)
      BY <2>6, <2>2, <1>1, <1>2, SMTT(60), Z3T(60)
    <3>2. ASSUME NEW k \in 1..l
          PROVE  r[(y - n) + k - 1] = Ins[TxOf(j)][k]
      <4>1. /\ (y - n) + k - 1 \in 1..(Len(q) - n) /\ ~ ((y - n) + k - 1 < s)
            /\ ((y - n) + k - 1) + n = y + k - 1
        BY <2>6, <2>2, <1>1
      <4>. QED BY Zenon, <4>1, <1>2, <2>2
    <3>. QED BY <3>1, <3>2 DEF StandsAt, l
  <2>. QED BY <2>4, <2>5, <2>6
<1>9. Holding(E \ {i}, r)
  BY <1>2, <1>5, <1>7, <1>8, ZenonT(60) DEF Holding
<1>. QED BY <1>9 DEF r, n
-----------------------------------------------------------------------------
(* The entries whose inputs the detector holds.                            *)
Passed == {i \in DOMAIN pc : \/ pc[i] \in {"commit", "collect"}
                             \/ pc[i] = "remove" /\ res[i] = "ok"}

(* What has been checked stays true until the commit.                      *)
PoolInv ==
  /\ NoDoubleSpend
  /\ \A i \in DOMAIN pc : pc[i] \in {"insert", "commit"} => Spent(TxOf(i)) \subseteq Available(pool)
  /\ \A i \in DOMAIN pc : pc[i] = "commit" => ~ CheckTxConflicts(TxOf(i))

(* The detector's vector is a row of the inputs of the passed entries, in  *)
(* some order, each in one piece, and no outpoint stands in it twice.      *)
DetectorInv ==
  /\ \A i \in DOMAIN pc : (pc[i] = "collect" => res[i] = "ok") /\ (pc[i] = "failed" => res[i] # "ok")
  /\ mKnownSpendsTx = {Address(mProcessingQueue[i]) : i \in Passed}
  /\ \A i, j \in Passed : i # j => Spent(TxOf(i)) \cap Spent(TxOf(j)) = {}
  /\ mKnownSpends \in Seq(Outpoints) /\ IsInjective(mKnownSpends)
  /\ \A i \in Passed : \E s \in 1..Len(mKnownSpends) : StandsAt(mKnownSpends, TxOf(i), s)
  /\ \A k \in 1..Len(mKnownSpends) : \E i \in Passed : mKnownSpends[k] \in Spent(TxOf(i))

IInv == TypeInv /\ PoolInv /\ DetectorInv
-----------------------------------------------------------------------------
(* The mempool.                                                            *)

(* NoDoubleSpend for any set of transactions in place of the mempool.      *)
Consistent(P) ==
  /\ \A t, u \in P : t # u => Spent(t) \cap Spent(u) = {}
  /\ \A t \in P : Spent(t) \subseteq Available(P \ {t})

\* Descendants is a set of transactions with all their children, around S.
LEMMA DescendantsClosed ==
  ASSUME NEW P, NEW S
  PROVE  Descendants(P, S) \in Closed(P) /\ P \cap S \subseteq Descendants(P, S)
<1>1. Descendants(P, S) \in SUBSET P /\ P \cap S \subseteq Descendants(P, S)
  BY DEF Descendants
<1>2. ASSUME NEW t \in P, Parents(t) \cap Descendants(P, S) # {}, NEW D \in Closed(P), P \cap S \subseteq D
      PROVE  t \in D
  <2>1. PICK u : u \in Parents(t) /\ u \in Descendants(P, S)
    BY <1>2
  <2>2. u \in D
    BY <2>1, <1>2 DEF Descendants
  <2>. QED BY <2>1, <2>2, <1>2 DEF Closed
<1>3. \A t \in P : Parents(t) \cap Descendants(P, S) # {} => t \in Descendants(P, S)
  BY <1>2 DEF Descendants
<1>. QED BY <1>1, <1>3 DEF Closed

\* Only outputs of a transaction have its id, so a spender of one is its child.
LEMMA SpenderIsChild ==
  ASSUME NEW t, NEW v, NEW o, o \in Spent(t), o \in Outs(v)
  PROVE  v \in Parents(t)
BY DEF Outs, Parents

\* Removing a closed set leaves every input of the others available.
LEMMA RemoveClosed ==
  ASSUME NEW P, Consistent(P), NEW D \in Closed(P)
  PROVE  Consistent(P \ D)
<1>1. \A t, u \in P \ D : t # u => Spent(t) \cap Spent(u) = {}
  BY DEF Consistent
<1>2. ASSUME NEW t \in P \ D, NEW o \in Spent(t)
      PROVE  o \in Available((P \ D) \ {t})
  <2>1. o \in Available(P \ {t})
    BY <1>2 DEF Consistent
  <2>2. CASE o \in coins
    BY <2>2 DEF Available
  <2>3. CASE \E v \in P \ {t} : o \in Outs(v)
    <3>1. PICK v \in P \ {t} : o \in Outs(v)
      BY <2>3
    <3>2. v \in Parents(t)
      BY <3>1, <1>2, SpenderIsChild
    <3>3. v \notin D
      BY <3>2, <1>2 DEF Closed
    <3>. QED BY <3>1, <3>3 DEF Available
  <2>. QED BY <2>1, <2>2, <2>3 DEF Available
<1>. QED BY <1>1, <1>2 DEF Consistent

\* A transaction that conflicts with nothing and spends what is available joins.
LEMMA AddTransaction ==
  ASSUME NEW P, P \subseteq Tx, Consistent(P), NEW t \in Tx,
         \A u \in P : Spent(u) \cap Spent(t) = {}, Spent(t) \subseteq Available(P)
  PROVE  t \notin P /\ Consistent(P \cup {t})
<1>1. t \notin P
  BY InsFacts
<1>2. \A u \in P : Available(P \ {u}) \subseteq Available((P \cup {t}) \ {u})
  BY <1>1 DEF Available
<1>3. (P \cup {t}) \ {t} = P
  BY <1>1
<1>4. \A u \in P \cup {t} : Spent(u) \subseteq Available((P \cup {t}) \ {u})
  BY <1>2, <1>3, Zenon DEF Consistent
<1>. QED BY <1>1, <1>4 DEF Consistent

\* What is removed when the mempool is limited is closed (LimitMempoolSize).
LEMMA LimitsClosed ==
  /\ Expired \subseteq Closed(pool)
  /\ \A P : Trimmed(P) \subseteq Closed(P)
<1>1. \A P : {} \in Closed(P)
  BY DEF Closed
<1>. QED BY <1>1, Zenon DEF Expired, Trimmed

(* A step on one entry leaves the batch, the confirmed coins and the other *)
(* entries alone.                                                          *)
LEMMA StepMoves ==
  ASSUME TypeInv, NEW i \in DOMAIN pc, Step(i)
  PROVE  /\ mProcessingQueue' = mProcessingQueue /\ coins' = coins
         /\ DOMAIN pc' = DOMAIN pc /\ \A j \in DOMAIN pc \ {i} : pc'[j] = pc[j] /\ res'[j] = res[j]
<1>. USE DEF queues, rest
<1>1. DOMAIN res = DOMAIN pc
  BY DEF TypeInv
<1>2. ASSUME NEW l, Goto(i, l), res' = res \/ \E w : res' = [res EXCEPT ![i] = w]
      PROVE  /\ DOMAIN pc' = DOMAIN pc
             /\ \A j \in DOMAIN pc \ {i} : pc'[j] = pc[j] /\ res'[j] = res[j]
  BY <1>2, <1>1 DEF Goto, TypeInv
<1>3. CASE PoolCheck(i)
  BY <1>3, <1>2, Zenon DEF PoolCheck, Fail
<1>4. CASE InputCheck(i)
  BY <1>4, <1>2, ZenonT(60) DEF InputCheck, Fail
<1>5. CASE Insert(i)
  BY <1>5, <1>2, ZenonT(60) DEF Insert, Fail
<1>6. CASE Commit(i)
  BY <1>6, <1>2, ZenonT(60) DEF Commit
<1>7. CASE Collect(i)
  BY <1>7, <1>2, ZenonT(60) DEF Collect
<1>8. CASE HandleInvalid(i)
  BY <1>8, <1>2, ZenonT(60) DEF HandleInvalid
<1>9. CASE Release(i)
  BY <1>9, <1>2, ZenonT(60) DEF Release
<1>10. CASE HandleTxnProcessingException(i)
  BY <1>10, <1>2, ZenonT(60) DEF HandleTxnProcessingException
<1>. QED BY <1>3, <1>4, <1>5, <1>6, <1>7, <1>8, <1>9, <1>10, ZenonT(60) DEF Step

\* Every step keeps the mempool free of conflicts, and what a worker has found
\* out about an entry stays true until the entry is committed.
LEMMA PoolStep ==
  ASSUME IInv, TypeInv', [Next]_vars
  PROVE  PoolInv'
<1>. USE DEF queues, batch, detector, orphanage, rest
<1>w. world.txs \subseteq Tx /\ pool \subseteq Tx /\ Consistent(pool)
  BY WorldsAssumption, Zenon DEF IInv, TypeInv, PoolInv, NoDoubleSpend, Consistent
<1>p. /\ \A i \in DOMAIN pc : pc[i] \in {"insert", "commit"} => Spent(TxOf(i)) \subseteq Available(pool)
      /\ \A i \in DOMAIN pc : pc[i] = "commit" => ~ CheckTxConflicts(TxOf(i))
  BY DEF IInv, PoolInv
<1>c. Consistent(pool)' => NoDoubleSpend'
  BY DEF Consistent, NoDoubleSpend
<1>i. ~running => DOMAIN pc = {}
  BY DEF IInv, TypeInv
<1>1. ASSUME UNCHANGED <<pool, coins>>,
             \A i \in DOMAIN pc' : /\ pc'[i] \in {"insert", "commit"} =>
                                        /\ i \in DOMAIN pc /\ TxOf(i)' = TxOf(i)
                                        /\ Spent(TxOf(i)) \subseteq Available(pool)
                                   /\ pc'[i] = "commit" => ~ CheckTxConflicts(TxOf(i))
      PROVE  PoolInv'
  <2>1. NoDoubleSpend'
    BY <1>1, <1>w DEF NoDoubleSpend, Consistent, Available
  <2>2. Available(pool)' = Available(pool) /\ \A t : CheckTxConflicts(t)' = CheckTxConflicts(t)
    BY <1>1 DEF Available, CheckTxConflicts
  <2>. QED BY <1>1, <2>1, <2>2 DEF PoolInv
<1>2. ASSUME UNCHANGED <<pool, coins, pc, mProcessingQueue>>
      PROVE  PoolInv'
  BY <1>1, <1>2, <1>p DEF TxOf
<1>3. ASSUME NEW t \in world.txs, Arrive(t)
      PROVE  PoolInv'
  BY <1>2, <1>3 DEF Arrive
<1>4. ASSUME StartBatch
      PROVE  PoolInv'
  <2>1. \A i \in DOMAIN pc' : pc'[i] = "queued"
    BY <1>4 DEF StartBatch
  <2>2. UNCHANGED <<pool, coins>>
    BY <1>4 DEF StartBatch
  <2>. QED BY <1>1, <2>1, <2>2
<1>5. ASSUME Elapse
      PROVE  PoolInv'
  BY <1>2, <1>5 DEF Elapse
<1>6. ASSUME NEW i \in DOMAIN pc, Step(i)
      PROVE  PoolInv'
  <2>t. TxOf(i) \in Tx
    BY <1>6, EntryFacts, ZenonT(60) DEF IInv
  <2>m. /\ mProcessingQueue' = mProcessingQueue /\ coins' = coins
        /\ DOMAIN pc' = DOMAIN pc /\ \A j \in DOMAIN pc \ {i} : pc'[j] = pc[j]
    BY <1>6, StepMoves, Zenon DEF IInv
  <2>q. \A j : TxOf(j)' = TxOf(j)
    BY <2>m DEF TxOf
  <2>1. ASSUME pool' = pool, pc'[i] \notin {"insert", "commit"}
        PROVE  PoolInv'
    BY <1>1, <1>p, <2>1, <2>m, <2>q
  <2>2. CASE PoolCheck(i)
    BY <2>1, <2>2 DEF PoolCheck, Goto, Fail
  <2>3. CASE InputCheck(i)
    <3>1. pool' = pool
      BY <2>3 DEF InputCheck
    <3>2. CASE pc'[i] = "insert"
      <4>1. Spent(TxOf(i)) \subseteq Available(pool)
        BY <2>3, <3>2, ZenonT(60) DEF InputCheck, Goto, Fail
      <4>. QED BY <1>1, <1>p, <2>m, <2>q, <3>1, <3>2, <4>1, ZenonT(60)
    <3>3. pc'[i] \in {"insert", "failed"}
      BY <2>3 DEF InputCheck, Goto, Fail
    <3>. QED BY <2>1, <3>1, <3>2, <3>3, ZenonT(60)
  <2>4. CASE Insert(i)
    <3>1. pool' = pool /\ Spent(TxOf(i)) \subseteq Available(pool)
      BY <2>4, <1>p, ZenonT(60) DEF Insert
    <3>2. CASE pc'[i] = "commit"
      <4>1. ~ CheckTxConflicts(TxOf(i))
        BY <2>4, <3>2 DEF Insert, Goto, Fail
      <4>. QED BY <1>1, <1>p, <2>m, <2>q, <3>1, <3>2, <4>1, ZenonT(60)
    <3>3. pc'[i] \in {"commit", "failed"}
      BY <2>4 DEF Insert, Goto, Fail
    <3>. QED BY <2>1, <3>1, <3>2, <3>3, ZenonT(60)
  <2>5. CASE Commit(i)
    <3>. DEFINE t == TxOf(i)
    <3>1. /\ pc[i] = "commit" /\ pool' = pool \cup {t} /\ pc'[i] = "collect"
      BY <2>5 DEF Commit, Goto
    <3>2. Spent(t) \subseteq Available(pool) /\ \A u \in pool : Spent(u) \cap Spent(t) = {}
      BY <3>1, <1>p DEF CheckTxConflicts
    <3>3. Consistent(pool \cup {t})
      BY <3>2, <2>t, <1>w, AddTransaction, ZenonT(60)
    <3>4. NoDoubleSpend'
      BY <3>1, <3>3, <2>m DEF NoDoubleSpend, Consistent, Available
    <3>5. Available(pool) \subseteq Available(pool)'
      BY <3>1, <2>m DEF Available
    <3>6. ASSUME NEW j \in DOMAIN pc, j # i, pc[j] = "commit"
          PROVE  ~ CheckTxConflicts(TxOf(j))'
      <4>1. i \in Passed /\ j \in Passed
        BY <3>1, <3>6 DEF Passed
      <4>2. Spent(t) \cap Spent(TxOf(j)) = {}
        BY <4>1, <3>6, ZenonT(60) DEF IInv, DetectorInv
      <4>. QED BY <4>2, <3>1, <3>6, <1>p, <2>q, ZenonT(60) DEF CheckTxConflicts
    <3>7. \A j \in DOMAIN pc' : pc'[j] \in {"insert", "commit"} => Spent(TxOf(j)') \subseteq Available(pool)'
      BY <3>1, <3>5, <2>m, <2>q, <1>p, ZenonT(60)
    <3>8. \A j \in DOMAIN pc' : pc'[j] = "commit" => ~ CheckTxConflicts(TxOf(j))'
      BY <3>1, <3>6, <2>m
    <3>. QED BY <3>4, <3>7, <3>8 DEF PoolInv
  <2>6. CASE Collect(i)
    BY <2>1, <2>6 DEF Collect, Goto
  <2>7. CASE HandleInvalid(i)
    BY <2>1, <2>7 DEF HandleInvalid, Goto
  <2>8. CASE Release(i)
    BY <2>1, <2>8 DEF Release, Goto
  <2>9. CASE HandleTxnProcessingException(i)
    BY <2>1, <2>9 DEF HandleTxnProcessingException, Goto
  <2>. QED BY <1>6, <2>2, <2>3, <2>4, <2>5, <2>6, <2>7, <2>8, <2>9, ZenonT(60) DEF Step
<1>7. ASSUME DOMAIN pc' = {}, Consistent(pool)'
      PROVE  PoolInv'
  BY <1>7, <1>c DEF PoolInv
<1>8. ASSUME EndBatch
      PROVE  PoolInv'
  <2>1. PICK old \in Expired : \E cut \in Trimmed(pool \ old) : pool' = (pool \ old) \ cut
    BY <1>8, Zenon DEF EndBatch
  <2>2. PICK cut \in Trimmed(pool \ old) : pool' = (pool \ old) \ cut
    BY <2>1
  <2>3. Consistent(pool \ old)
    BY <1>w, LimitsClosed, RemoveClosed
  <2>4. Consistent((pool \ old) \ cut)
    BY <2>3, LimitsClosed, RemoveClosed
  <2>e. coins' = coins /\ pc' = <<>>
    BY <1>8, Zenon DEF EndBatch
  <2>5. coins' = coins /\ DOMAIN pc' = {}
    BY <2>e
  <2>6. Consistent(pool)'
    BY <2>2, <2>4, <2>5 DEF Consistent, Available
  <2>. QED BY <1>7, <2>5, <2>6
<1>9. ASSUME NEW t \in world.txs, ProcessValidation(t)
      PROVE  PoolInv'
  <2>1. Consistent(pool \cup {t})
    BY <1>9, <1>w, AddTransaction, ZenonT(60) DEF ProcessValidation, CheckTxConflicts
  <2>2. PICK cut \in Trimmed(pool \cup {t}) : pool' = (pool \cup {t}) \ cut
    BY <1>9 DEF ProcessValidation
  <2>3. Consistent((pool \cup {t}) \ cut)
    BY <2>1, LimitsClosed, RemoveClosed, ZenonT(60)
  <2>4. coins' = coins /\ DOMAIN pc' = {}
    BY <1>9, <1>i, ZenonT(60) DEF ProcessValidation
  <2>5. Consistent(pool)'
    BY <2>2, <2>3, <2>4 DEF Consistent, Available
  <2>. QED BY <1>7, <2>4, <2>5, ZenonT(60)
<1>10. ASSUME NEW t \in world.txs, BlockConnected(t)
       PROVE  PoolInv'
  <2>. DEFINE P == pool \ {t}
              D == Descendants(P, {u \in P : Spent(u) \cap Spent(t) # {}})
  <2>1. /\ pool' = P \ D /\ coins' = (coins \ Spent(t)) \cup Outs(t) /\ DOMAIN pc' = {}
    BY <1>10, <1>i DEF BlockConnected
  <2>2. D \in Closed(P) /\ \A u \in P : Spent(u) \cap Spent(t) # {} => u \in D
    BY DescendantsClosed, Zenon
  <2>. HIDE DEF D
  <2>3. ASSUME NEW u \in P \ D, NEW o \in Spent(u)
        PROVE  o \in Available(pool \ {u})'
    <3>1. o \in Available(pool \ {u})
      BY <2>3, <1>w DEF Consistent
    <3>2. CASE o \in coins
      BY <3>2, <2>1, <2>2, <2>3, ZenonT(60) DEF Available
    <3>3. CASE \E v \in pool \ {u} : o \in Outs(v)
      <4>1. PICK v \in pool \ {u} : o \in Outs(v)
        BY <3>3
      <4>2. v \in Parents(u)
        BY <4>1, <2>3, SpenderIsChild
      <4>3. CASE v = t
        BY <4>1, <4>3, <2>1 DEF Available
      <4>4. CASE v # t
        <5>1. v \notin D
          BY <4>2, <2>2, <2>3 DEF Closed
        <5>. QED BY <5>1, <4>1, <4>4, <2>1 DEF Available
      <4>. QED BY <4>3, <4>4
    <3>. QED BY <3>1, <3>2, <3>3 DEF Available
  <2>4. \A u, v \in P \ D : u # v => Spent(u) \cap Spent(v) = {}
    BY <1>w DEF Consistent
  <2>5. Consistent(pool)'
    BY <2>1, <2>3, <2>4 DEF Consistent
  <2>. QED BY <1>7, <2>1, <2>5, ZenonT(60)
<1>11. ASSUME NEW p \in Peers, Disconnect(p)
       PROVE  PoolInv'
  BY <1>2, <1>11 DEF Disconnect
<1>12. ASSUME UNCHANGED vars
       PROVE  PoolInv'
  BY <1>2, <1>12 DEF vars
<1>. QED BY <1>3, <1>4, <1>5, <1>6, <1>8, <1>9, <1>10, <1>11, <1>12 DEF Next, Upset, Validator
-----------------------------------------------------------------------------
(* The detector.                                                           *)


\* removeTxnInputs for an entry that has passed, and for one that has not.
LEMMA RemoveEntry ==
  ASSUME TypeInv, OncePerBatch, NEW i \in DOMAIN pc, NEW E \in SUBSET DOMAIN pc,
         Holding(E, mKnownSpends), mKnownSpendsTx = {Address(mProcessingQueue[j]) : j \in E},
         removeTxnInputs(mProcessingQueue[i])
  PROVE  /\ Holding(E \ {i}, mKnownSpends')
         /\ mKnownSpendsTx' = {Address(mProcessingQueue[j]) : j \in E \ {i}}
<1>1. \A j \in E : Address(mProcessingQueue[j]) = Address(mProcessingQueue[i]) => j = i
  BY DEF OncePerBatch
<1>2. \A j \in E : TxOf(j) \in Tx
  BY EntryFacts
<1>3. CASE i \notin E
  <2>1. Address(mProcessingQueue[i]) \notin mKnownSpendsTx
    BY <1>1, <1>3
  <2>2. UNCHANGED detector
    BY <2>1, Zenon DEF removeTxnInputs
  <2>3. E \ {i} = E
    BY <1>3
  <2>. QED BY <2>2, <2>3, Zenon DEF detector
<1>4. CASE i \in E
  <2>. DEFINE t == TxOf(i)
              q == mKnownSpends
              IsFirst(k) == q[k] = Ins[t][1] /\ \A j \in 1..k - 1 : q[j] # Ins[t][1]
              first == CHOOSE k \in 1..Len(q) : IsFirst(k)
  <2>1. /\ mKnownSpendsTx' = mKnownSpendsTx \ {Address(mProcessingQueue[i])}
        /\ mKnownSpends' = Erased(q, first, Len(Ins[t]))
    BY <1>4, Zenon DEF removeTxnInputs, Erased, TxOf
  <2>2. PICK s \in 1..Len(q) : StandsAt(q, t, s)
    BY <1>4 DEF Holding
  <2>3. q[s] = Ins[t][1] /\ Len(q) \in Nat
    <3>1. 1 \in 1..Len(Ins[t]) /\ s + 1 - 1 = s
      BY <1>2, <1>4, InsFacts, SMTT(60), Z3T(60)
    <3>. QED BY <3>1, <2>2 DEF StandsAt, Holding
  <2>4. \A k \in 1..Len(q) : q[k] = Ins[t][1] => k = s
    BY <2>3 DEF Holding
  <2>5. IsFirst(s)
    BY <2>3, <2>4, SMTT(60), Z3T(60)
  <2>6. first = s
    <3>. HIDE DEF q
    <3>. QED BY <2>2, <2>4, <2>5
  <2>7. Holding(E \ {i}, Erased(q, s, Len(Ins[t])))
    BY <1>2, <1>4, <2>2, HoldingRemove, Zenon
  <2>8. mKnownSpendsTx \ {Address(mProcessingQueue[i])} = {Address(mProcessingQueue[j]) : j \in E \ {i}}
    BY <1>1
  <2>. HIDE DEF first
  <2>. QED BY <2>1, <2>6, <2>7, <2>8, Zenon
<1>. QED BY <1>3, <1>4

\* Every step leaves in the detector the inputs of exactly the entries that have
\* passed it and are not released, as long as no two entries of a batch share a
\* transaction object.
LEMMA DetectorStep ==
  ASSUME IInv, TypeInv', OncePerBatch, [Next]_vars
  PROVE  DetectorInv'
<1>. USE DEF queues, batch, detector, orphanage, rest
<1>. DEFINE Results == \A i \in DOMAIN pc : /\ pc[i] = "collect" => res[i] = "ok"
                                            /\ pc[i] = "failed" => res[i] # "ok"
            Known(E) == {Address(mProcessingQueue[j]) : j \in E}
<1>h. Results /\ mKnownSpendsTx = Known(Passed) /\ Holding(Passed, mKnownSpends)
  <2>1. DOMAIN mKnownSpends = 1..Len(mKnownSpends)
    BY DEF IInv, DetectorInv
  <2>. QED BY <2>1, Zenon DEF IInv, DetectorInv, Holding, IsInjective
<1>t. TypeInv /\ Passed \in SUBSET DOMAIN pc /\ \A j \in DOMAIN pc : TxOf(j) \in Tx
  BY EntryFacts, ZenonT(60) DEF IInv, Passed
<1>1. ASSUME mProcessingQueue' = mProcessingQueue, Results', mKnownSpendsTx' = Known(Passed'),
             Holding(Passed', mKnownSpends')
      PROVE  DetectorInv'
  <2>1. \A j : TxOf(j)' = TxOf(j)
    BY <1>1, ZenonT(60) DEF TxOf
  <2>2. DOMAIN mKnownSpends' = 1..Len(mKnownSpends')
    BY <1>1, SMTT(60), Z3T(60) DEF Holding
  <2>3. IsInjective(mKnownSpends)'
    BY <1>1, <2>2 DEF Holding, IsInjective
  <2>4. \A j, s : StandsAt(mKnownSpends, TxOf(j), s)' <=> StandsAt(mKnownSpends', TxOf(j), s)
    BY <2>1, ZenonT(60) DEF StandsAt
  <2>. QED BY <1>1, <2>1, <2>3, <2>4 DEF DetectorInv, Holding
<1>2. ASSUME mProcessingQueue' = mProcessingQueue, Results', Passed' = Passed, UNCHANGED detector
      PROVE  DetectorInv'
  BY <1>1, <1>2, <1>h, ZenonT(60)
<1>3. ASSUME UNCHANGED <<mProcessingQueue, pc, res, detector>>
      PROVE  DetectorInv'
  BY <1>2, <1>3, <1>h, ZenonT(60) DEF Passed
<1>4. ASSUME Passed = {}, Passed' = {}, Results', UNCHANGED detector
      PROVE  DetectorInv'
  <2>1. mKnownSpendsTx' = {} /\ mKnownSpends' = mKnownSpends /\ mKnownSpends \in Seq(Outpoints)
    BY <1>4, <1>h DEF Holding
  <2>2. Len(mKnownSpends) = 0
    BY <1>4, <1>h, <2>1 DEF Holding
  <2>3. IsInjective(mKnownSpends)'
    BY <2>1, <2>2, SMTT(60), Z3T(60) DEF IsInjective
  <2>. QED BY <1>4, <2>1, <2>2, <2>3, SMTT(60), Z3T(60) DEF DetectorInv
<1>5. ASSUME NEW t \in world.txs, Arrive(t)
      PROVE  DetectorInv'
  BY <1>3, <1>5 DEF Arrive
<1>6. ASSUME StartBatch
      PROVE  DetectorInv'
  <2>1. Passed = {}
    BY <1>6, <1>t DEF StartBatch, TypeInv, Passed
  <2>2. Passed' = {} /\ Results'
    BY <1>6 DEF StartBatch, Passed
  <2>3. UNCHANGED detector
    BY <1>6 DEF StartBatch
  <2>. QED BY <1>4, <2>1, <2>2, <2>3, ZenonT(60)
<1>7. ASSUME Elapse
      PROVE  DetectorInv'
  BY <1>3, <1>7 DEF Elapse
<1>8. ASSUME NEW i \in DOMAIN pc, Step(i)
      PROVE  DetectorInv'
  <2>m. /\ mProcessingQueue' = mProcessingQueue
        /\ DOMAIN pc' = DOMAIN pc /\ \A j \in DOMAIN pc \ {i} : pc'[j] = pc[j] /\ res'[j] = res[j]
    BY <1>8, <1>t, StepMoves, Zenon
  <2>r. (/\ pc'[i] = "collect" => res'[i] = "ok"
         /\ pc'[i] = "failed" => res'[i] # "ok") => Results'
    BY <1>h, <2>m
  <2>d. DOMAIN res = DOMAIN pc
    BY <1>t DEF TypeInv
  <2>1. ASSUME i \notin Passed, pc'[i] \in {"inputs", "insert", "failed", "remove", "done"},
               pc'[i] \in {"failed", "remove"} => res'[i] # "ok"
        PROVE  Results' /\ Passed' = Passed
    BY <2>1, <2>m, <2>r, ZenonT(60) DEF Passed
  <2>2. CASE PoolCheck(i)
    <3>1. i \notin Passed /\ UNCHANGED detector
      BY <2>2 DEF PoolCheck, Passed
    <3>2. /\ pc'[i] \in {"inputs", "failed", "done"}
          /\ pc'[i] = "failed" => res'[i] # "ok"
      BY <2>2, <2>d DEF PoolCheck, Goto, Fail
    <3>. QED BY <1>2, <2>1, <2>m, <3>1, <3>2, ZenonT(60)
  <2>3. CASE InputCheck(i)
    <3>1. i \notin Passed /\ UNCHANGED detector
      BY <2>3 DEF InputCheck, Passed
    <3>2. /\ pc'[i] \in {"insert", "failed"}
          /\ pc'[i] = "failed" => res'[i] # "ok"
      BY <2>3, <2>d DEF InputCheck, Goto, Fail
    <3>. QED BY <1>2, <2>1, <2>m, <3>1, <3>2, ZenonT(60)
  <2>4. CASE Insert(i)
    <3>1. i \notin Passed
      BY <2>4 DEF Insert, Passed
    <3>2. CASE CheckTxConflicts(TxOf(i)) \/ IsAnyOfInputsKnown(TxOf(i))
      <4>1. UNCHANGED detector /\ pc'[i] = "failed" /\ res'[i] # "ok"
        BY <2>4, <2>d, <3>2, ZenonT(60) DEF Insert, Goto, Fail
      <4>. QED BY <1>2, <2>1, <2>m, <3>1, <4>1
    <3>3. CASE ~ (CheckTxConflicts(TxOf(i)) \/ IsAnyOfInputsKnown(TxOf(i)))
      <4>1. pc'[i] = "commit" /\ insertTxnInputs(mProcessingQueue[i])
        BY <2>4, <3>3 DEF Insert, Goto
      <4>2. Passed' = Passed \cup {i} /\ Results'
        BY <2>m, <2>r, <4>1 DEF Passed
      <4>3. mKnownSpendsTx' = Known(Passed \cup {i}) /\ mKnownSpends' = mKnownSpends \o Ins[TxOf(i)]
        BY <4>1, <1>h DEF insertTxnInputs, TxOf
      <4>4. \A k \in 1..Len(mKnownSpends) : mKnownSpends[k] \notin Spent(TxOf(i))
        BY <3>3 DEF IsAnyOfInputsKnown
      <4>5. Holding(Passed \cup {i}, mKnownSpends \o Ins[TxOf(i)])
        BY <1>h, <1>t, <1>8, <3>1, <4>4, HoldingInsert, ZenonT(60)
      <4>. QED BY <1>1, <2>m, <4>2, <4>3, <4>5, ZenonT(60)
    <3>. QED BY <3>2, <3>3, ZenonT(60)
  <2>5. CASE Commit(i)
    <3>1. pc[i] = "commit" /\ pc'[i] = "collect" /\ res'[i] = "ok" /\ UNCHANGED detector
      BY <2>5, <2>d DEF Commit, Goto
    <3>2. Passed' = Passed /\ Results'
      BY <2>m, <2>r, <3>1 DEF Passed
    <3>. QED BY <1>2, <2>m, <3>1, <3>2
  <2>6. CASE Collect(i)
    <3>1. pc[i] = "collect" /\ pc'[i] = "remove" /\ res'[i] = "ok" /\ UNCHANGED detector
      BY <2>6, <1>h DEF Collect, Goto
    <3>2. Passed' = Passed /\ Results'
      BY <2>m, <2>r, <3>1 DEF Passed
    <3>. QED BY <1>2, <2>m, <3>1, <3>2
  <2>7. CASE HandleInvalid(i)
    <3>1. pc[i] = "failed" /\ pc'[i] = "remove" /\ res'[i] # "ok" /\ UNCHANGED detector
      BY <2>7, <1>h DEF HandleInvalid, Goto
    <3>2. i \notin Passed
      BY <3>1, ZenonT(60) DEF Passed
    <3>. QED BY <1>2, <2>1, <2>m, <3>1, <3>2, ZenonT(60)
  <2>8. ASSUME removeTxnInputs(mProcessingQueue[i]), pc'[i] = "done"
        PROVE  DetectorInv'
    <3>1. Passed' = Passed \ {i} /\ Results'
      BY <2>8, <2>m, <2>r DEF Passed
    <3>2. Holding(Passed \ {i}, mKnownSpends') /\ mKnownSpendsTx' = Known(Passed \ {i})
      BY <1>h, <1>t, <1>8, <2>8, RemoveEntry, ZenonT(60)
    <3>. QED BY <1>1, <2>m, <3>1, <3>2, ZenonT(60)
  <2>9. CASE Release(i)
    BY <2>8, <2>9 DEF Release, Goto
  <2>10. CASE HandleTxnProcessingException(i)
    BY <2>8, <2>10 DEF HandleTxnProcessingException, Goto
  <2>. QED BY <1>8, <2>2, <2>3, <2>4, <2>5, <2>6, <2>7, <2>9, <2>10, ZenonT(60) DEF Step
<1>9. ASSUME EndBatch
      PROVE  DetectorInv'
  <2>1. /\ \A i \in DOMAIN pc : pc[i] = "done"
        /\ pc' = <<>> /\ res' = <<>> /\ UNCHANGED detector
    BY <1>9, Zenon DEF EndBatch
  <2>2. DOMAIN pc' = {}
    BY <2>1
  <2>3. Passed = {} /\ Passed' = {} /\ Results'
    BY <2>1, <2>2, ZenonT(60) DEF Passed
  <2>. QED BY <1>4, <2>1, <2>3, ZenonT(60)
<1>10. ASSUME NEW t \in world.txs, ProcessValidation(t) \/ BlockConnected(t)
       PROVE  DetectorInv'
  BY <1>3, <1>10 DEF ProcessValidation, BlockConnected
<1>11. ASSUME NEW p \in Peers, Disconnect(p)
       PROVE  DetectorInv'
  BY <1>3, <1>11, Zenon DEF Disconnect
<1>12. ASSUME UNCHANGED vars
       PROVE  DetectorInv'
  BY <1>3, <1>12 DEF vars
<1>. QED BY <1>5, <1>6, <1>7, <1>8, <1>9, <1>10, <1>11, <1>12 DEF Next, Upset, Validator
-----------------------------------------------------------------------------
\* Nothing is in the mempool, in the detector or in a batch at first.
LEMMA InvInit == Init => IInv
<1>. SUFFICES ASSUME Init
              PROVE  IInv
  OBVIOUS
<1>1. TypeInv
  BY TypeInit
<1>2. DOMAIN pc = {} /\ pool = {} /\ mKnownSpendsTx = {} /\ mKnownSpends = <<>>
  BY SMTT(60), Z3T(60) DEF Init
<1>3. Passed = {}
  BY <1>2, ZenonT(60) DEF Passed
<1>4. PoolInv
  BY <1>2 DEF PoolInv, NoDoubleSpend
<1>5. mKnownSpends \in Seq(Outpoints) /\ Len(mKnownSpends) = 0 /\ IsInjective(mKnownSpends)
  BY <1>2 DEF IsInjective
<1>6. DetectorInv
  BY <1>2, <1>3, <1>5 DEF DetectorInv
<1>. QED BY <1>1, <1>4, <1>6 DEF IInv

\* DetectorExact in terms of the inductive invariant.
LEMMA InvExact == IInv => DetectorExact
<1>. SUFFICES ASSUME IInv
              PROVE  DetectorExact
  OBVIOUS
<1>1. TypeInv /\ DetectorInv
  BY DEF IInv
<1>2. TypeOK
  <2>1. ASSUME NEW q \in Seq(Items)
        PROVE  Range(q) \subseteq Items
    BY DEF Range
  <2>2. \A q \in {mStdTxns, mNonStdTxns, mProcessingQueue} : Range(q) \subseteq Items
    BY <1>1, <2>1 DEF TypeInv
  <2>. QED BY <1>1, <2>2, Zenon DEF TypeInv, TypeOK
<1>3. Holding(Passed, mKnownSpends)
  <2>1. DOMAIN mKnownSpends = 1..Len(mKnownSpends)
    BY <1>1 DEF DetectorInv
  <2>. QED BY <1>1, <2>1, Zenon DEF DetectorInv, Holding, IsInjective
<1>4. Passed \subseteq DOMAIN pc /\ \A i \in Passed : TxOf(i) \in Tx
  BY <1>1, EntryFacts DEF Passed
<1>5. \A x : (\E k \in 1..Len(mKnownSpends) : mKnownSpends[k] = x)
               <=> \E i \in Passed : x \in Spent(TxOf(i))
  BY <1>3, <1>4, HoldingExact, Zenon
<1>6. DOMAIN mKnownSpends = 1..Len(mKnownSpends)
  BY <1>1 DEF DetectorInv
<1>. DEFINE passed(i) == \/ pc[i] \in {"commit", "collect"}
                         \/ pc[i] = "remove" /\ res[i] = "ok"
            inside == {mProcessingQueue[i] : i \in {j \in DOMAIN pc : passed(j)}}
<1>7. inside = {mProcessingQueue[i] : i \in Passed}
  BY Zenon DEF Passed
<1>8. mKnownSpendsTx = {Address(mProcessingQueue[i]) : i \in Passed}
  BY <1>1 DEF DetectorInv
<1>9. DetectorExact = (/\ TypeOK
                       /\ mKnownSpendsTx = {Address(it) : it \in inside}
                       /\ Range(mKnownSpends) = UNION {Spent(it.tx) : it \in inside})
  BY Zenon DEF DetectorExact
<1>. HIDE DEF inside
<1>10. mKnownSpendsTx = {Address(it) : it \in inside}
  BY <1>7, <1>8
<1>11. \A x : x \in Range(mKnownSpends) <=> \E i \in Passed : x \in Spent(mProcessingQueue[i].tx)
  BY <1>5, <1>6, Zenon DEF Range, TxOf
<1>12. Range(mKnownSpends) = UNION {Spent(it.tx) : it \in inside}
  BY <1>7, <1>11
<1>. QED BY <1>2, <1>9, <1>10, <1>12

(* The inductive invariant, as long as no batch holds an object twice.     *)
THEOREM ValidatorInvariant == Spec /\ []OncePerBatch => []IInv
<1>1. Init => IInv
  BY InvInit
<1>2. IInv /\ OncePerBatch /\ [Next]_vars => IInv'
  <2>. SUFFICES ASSUME IInv, OncePerBatch, [Next]_vars
                PROVE  IInv'
    OBVIOUS
  <2>1. TypeInv'
    BY TypeStep DEF IInv
  <2>2. PoolInv'
    BY <2>1, PoolStep
  <2>3. DetectorInv'
    BY <2>1, DetectorStep
  <2>. QED BY <2>1, <2>2, <2>3 DEF IInv
<1>. QED BY <1>1, <1>2, PTL DEF Spec

(* The mempool holds no two transactions that spend the same output, and   *)
(* every input is a coin or an output of another mempool transaction,      *)
(* whatever the tasks of a batch, blocks and evictions do, as long as no   *)
(* batch holds an object twice.                                            *)
THEOREM MempoolConsistent == Spec /\ []OncePerBatch => []NoDoubleSpend
<1>1. IInv => NoDoubleSpend
  BY DEF IInv, PoolInv
<1>. QED BY <1>1, ValidatorInvariant, PTL

(* The detector holds exactly the inputs of the entries that have passed   *)
(* it and are not released, also after errors and exceptions.              *)
THEOREM DetectorIsExact == Spec /\ []OncePerBatch => []DetectorExact
<1>. QED BY InvExact, ValidatorInvariant, PTL
-----------------------------------------------------------------------------
(* The objects.                                                           *)

Addresses(q) == {Address(q[i]) : i \in 1..Len(q)}
Single(q) == \A i, j \in 1..Len(q) : Address(q[i]) = Address(q[j]) => i = j

(* A transaction object is in one place: in one queue, in the batch or in  *)
(* the orphan pool.  Only an entry that retries an orphan, or one that has *)
(* just become an orphan, shares its object with the orphan pool.          *)
AddrInv ==
  /\ Single(mStdTxns) /\ Single(mNonStdTxns) /\ Single(mProcessingQueue)
  /\ Addresses(mStdTxns) \cap Addresses(mNonStdTxns) = {}
  /\ Addresses(mStdTxns) \cap Addresses(mProcessingQueue) = {}
  /\ Addresses(mNonStdTxns) \cap Addresses(mProcessingQueue) = {}
  /\ \A o, u \in mOrphanTxns : o.tx = u.tx => o = u
  /\ \A o \in mOrphanTxns : Address(o) \notin Addresses(mStdTxns) \cup Addresses(mNonStdTxns)
  /\ \A o \in mOrphanTxns : \A i \in 1..Len(mProcessingQueue) :
       Address(mProcessingQueue[i]) = Address(o) =>
         \/ mProcessingQueue[i].orphan
         \/ i \in DOMAIN pc /\ res[i] = "missing" /\ pc[i] \in {"remove", "done"}

\* Queue c holds the entries of queues a and b, each object once.
Joined(c, a, b) ==
  /\ Single(c) /\ Addresses(c) = Addresses(a) \cup Addresses(b)
  /\ \A k \in 1..Len(c) : (\E i \in 1..Len(a) : c[k] = a[i]) \/ (\E i \in 1..Len(b) : c[k] = b[i])

\* Queues put together.
LEMMA ConcatAddresses ==
  ASSUME NEW S, NEW a \in Seq(S), NEW b \in Seq(S)
  PROVE  Single(a) /\ Single(b) /\ Addresses(a) \cap Addresses(b) = {} => Joined(a \o b, a, b)
<1>. DEFINE c == a \o b
<1>1. /\ Len(a) \in Nat /\ Len(b) \in Nat /\ Len(c) = Len(a) + Len(b)
      /\ \A k \in 1..Len(a) + Len(b) : c[k] = IF k <= Len(a) THEN a[k] ELSE b[k - Len(a)]
  BY ConcatIs
<1>. HIDE DEF c
<1>2. \A k \in 1..Len(c) : \/ k \in 1..Len(a) /\ c[k] = a[k]
                           \/ k - Len(a) \in 1..Len(b) /\ c[k] = b[k - Len(a)]
  BY <1>1
<1>3. \A i \in 1..Len(a) : i \in 1..Len(c) /\ c[i] = a[i]
  BY <1>1
<1>4. \A i \in 1..Len(b) : Len(a) + i \in 1..Len(c) /\ c[Len(a) + i] = b[i]
  BY <1>1
<1>5. Addresses(c) = Addresses(a) \cup Addresses(b)
  BY <1>2, <1>3, <1>4, ZenonT(60) DEF Addresses
<1>6. ASSUME Single(a), Single(b), Addresses(a) \cap Addresses(b) = {}
      PROVE  Single(c)
  <2>1. SUFFICES ASSUME NEW i \in 1..Len(c), NEW j \in 1..Len(c), Address(c[i]) = Address(c[j])
                 PROVE  i = j
    BY DEF Single
  <2>2. CASE i \in 1..Len(a) /\ c[i] = a[i] /\ j \in 1..Len(a) /\ c[j] = a[j]
    BY <2>1, <2>2, <1>6 DEF Single
  <2>3. CASE /\ i - Len(a) \in 1..Len(b) /\ c[i] = b[i - Len(a)]
             /\ j - Len(a) \in 1..Len(b) /\ c[j] = b[j - Len(a)]
    <3>1. i - Len(a) = j - Len(a)
      BY <2>1, <2>3, <1>6, Zenon DEF Single
    <3>. QED BY <3>1, <1>1
  <2>4. CASE i \in 1..Len(a) /\ c[i] = a[i] /\ j - Len(a) \in 1..Len(b) /\ c[j] = b[j - Len(a)]
    BY <2>1, <2>4, <1>6, Zenon DEF Addresses
  <2>5. CASE j \in 1..Len(a) /\ c[j] = a[j] /\ i - Len(a) \in 1..Len(b) /\ c[i] = b[i - Len(a)]
    BY <2>1, <2>5, <1>6, Zenon DEF Addresses
  <2>. QED BY <1>2, <2>2, <2>3, <2>4, <2>5, Zenon
<1>7. \A k \in 1..Len(c) : (\E i \in 1..Len(a) : c[k] = a[i]) \/ (\E i \in 1..Len(b) : c[k] = b[i])
  BY <1>2, Zenon
<1>8. Single(a) /\ Single(b) /\ Addresses(a) \cap Addresses(b) = {} => Joined(c, a, b)
  BY <1>5, <1>6, <1>7, Zenon DEF Joined
<1>. QED BY <1>8 DEF c

\* A queue cut in two.
LEMMA SplitAddresses ==
  ASSUME NEW S, NEW q \in Seq(S), NEW n \in 0..Len(q), Single(q)
  PROVE  /\ Single(Take(q, n)) /\ Single(Drop(q, n))
         /\ Addresses(Take(q, n)) \subseteq Addresses(q)
         /\ Addresses(Drop(q, n)) \subseteq Addresses(q)
         /\ Addresses(Take(q, n)) \cap Addresses(Drop(q, n)) = {}
<1>. DEFINE a == Take(q, n)
            b == Drop(q, n)
<1>1. n \in Nat /\ n <= Len(q) /\ Len(q) \in Nat
  OBVIOUS
<1>2. /\ a \in Seq(S) /\ Len(a) = n /\ \A k \in 1..Len(a) : k \in 1..Len(q) /\ a[k] = q[k]
      /\ b \in Seq(S) /\ \A k \in 1..Len(b) : n + k \in 1..Len(q) /\ b[k] = q[n + k]
  BY <1>1, TakeDrop, Zenon
<1>. HIDE DEF a, b
<1>3. Single(a)
  BY <1>2 DEF Single
<1>4. Single(b)
  <2>1. SUFFICES ASSUME NEW i \in 1..Len(b), NEW j \in 1..Len(b), Address(b[i]) = Address(b[j])
                 PROVE  i = j
    BY DEF Single
  <2>2. n + i = n + j
    BY <1>2, <2>1, ZenonT(60) DEF Single
  <2>. QED BY <2>2
<1>5. Addresses(a) \subseteq Addresses(q) /\ Addresses(b) \subseteq Addresses(q)
  BY <1>2, Zenon DEF Addresses
<1>6. ASSUME NEW i \in 1..Len(a), NEW j \in 1..Len(b), Address(a[i]) = Address(b[j])
      PROVE  FALSE
  <2>1. i = n + j
    BY <1>2, <1>6, Zenon DEF Single
  <2>. QED BY <2>1, <1>2, <1>1
<1>7. Addresses(a) \cap Addresses(b) = {}
  BY <1>6, Zenon DEF Addresses
<1>. QED BY <1>3, <1>4, <1>5, <1>7 DEF a, b

(* e is the queue q followed by some of txns, no object twice.             *)
Grown(e, q, txns) ==
  /\ Single(e) /\ Addresses(e) \subseteq Addresses(q) \cup Addresses(txns)
  /\ \A k \in 1..Len(e) : (\E i \in 1..Len(q) : e[k] = q[i]) \/ (\E i \in 1..Len(txns) : e[k] = txns[i])

\* What enqueueTxnsNL adds to a queue.
LEMMA EnqueueAddresses ==
  ASSUME NEW S, NEW q \in Seq(S), NEW txns \in Seq(S), world.queue \in Nat, Len(q) <= world.queue,
         Single(q), Single(txns), Addresses(q) \cap Addresses(txns) = {}
  PROVE  Grown(EnqueueTxns(q, txns), q, txns)
<1>. DEFINE n == IF world.queue - Len(q) > Len(txns) THEN Len(txns) ELSE world.queue - Len(q)
            t == Take(txns, n)
<1>1. n \in 0..Len(txns) /\ n \in Nat /\ world.queue - Len(q) \in Nat
  OBVIOUS
<1>2. Take(txns, world.queue - Len(q)) = t
  BY <1>1 DEF Take
<1>3. EnqueueTxns(q, txns) = q \o t
  BY <1>2 DEF EnqueueTxns
<1>. HIDE DEF n
<1>4. t \in Seq(S) /\ \A k \in 1..Len(t) : k \in 1..Len(txns) /\ t[k] = txns[k]
  BY <1>1, TakeDrop
<1>5. Single(t) /\ Addresses(t) \subseteq Addresses(txns)
  BY <1>1, SplitAddresses
<1>. HIDE DEF t
<1>6. Addresses(q) \cap Addresses(t) = {}
  BY <1>5
<1>7. /\ Addresses(q \o t) = Addresses(q) \cup Addresses(t) /\ Single(q \o t)
      /\ \A k \in 1..Len(q \o t) : \/ \E i \in 1..Len(q) : (q \o t)[k] = q[i]
                                   \/ \E i \in 1..Len(t) : (q \o t)[k] = t[i]
  <2>1. t \in Seq(S)
    BY <1>4
  <2>2. Single(q) /\ Single(t) /\ Addresses(q) \cap Addresses(t) = {}
    BY <1>5, <1>6
  <2>3. Joined(q \o t, q, t)
    BY <2>1, <2>2, ConcatAddresses
  <2>. QED BY <2>3, Zenon DEF Joined
<1>8. \A k \in 1..Len(q \o t) : \/ \E i \in 1..Len(q) : (q \o t)[k] = q[i]
                                \/ \E i \in 1..Len(txns) : (q \o t)[k] = txns[i]
  BY <1>4, <1>7, Zenon
<1>9. Addresses(q \o t) \subseteq Addresses(q) \cup Addresses(txns)
  BY <1>5, <1>7, Zenon
<1>10. Grown(q \o t, q, txns)
  BY <1>7, <1>8, <1>9, Zenon DEF Grown
<1>. QED BY <1>3, <1>10

\* Chosen entries of the batch.
LEMMA ChosenAddresses ==
  ASSUME Single(mProcessingQueue), NEW D \in SUBSET (1..Len(mProcessingQueue)), NEW q, Chosen(q, D)
  PROVE  /\ q \in Seq(Items) /\ Single(q)
         /\ \A k \in 1..Len(q) : \E i \in D : /\ Address(q[k]) = Address(mProcessingQueue[i])
                                              /\ q[k].orphan = mProcessingQueue[i].orphan
         /\ Addresses(q) \subseteq {Address(mProcessingQueue[i]) : i \in D}
         /\ Addresses(q) \subseteq Addresses(mProcessingQueue)
<1>1. PICK f \in [1..Len(q) -> D] :
        /\ \A k, l \in 1..Len(q) : f[k] = f[l] => k = l
        /\ \A k \in 1..Len(q) : /\ Address(q[k]) = Address(mProcessingQueue[f[k]])
                                /\ q[k].orphan = mProcessingQueue[f[k]].orphan
  BY Zenon DEF Chosen
<1>2. q \in Seq(Items)
  BY Zenon DEF Chosen
<1>3. \A k \in 1..Len(q) : f[k] \in D /\ f[k] \in 1..Len(mProcessingQueue)
  BY Zenon
<1>4. Single(q)
  <2>1. SUFFICES ASSUME NEW k \in 1..Len(q), NEW l \in 1..Len(q), Address(q[k]) = Address(q[l])
                 PROVE  k = l
    BY DEF Single
  <2>2. Address(mProcessingQueue[f[k]]) = Address(mProcessingQueue[f[l]])
    BY <1>1, <2>1
  <2>3. f[k] = f[l]
    BY <2>2, <1>3 DEF Single
  <2>. QED BY <2>3, <1>1
<1>5. \A k \in 1..Len(q) : \E i \in D : /\ Address(q[k]) = Address(mProcessingQueue[i])
                                        /\ q[k].orphan = mProcessingQueue[i].orphan
  BY <1>1, <1>3, Zenon
<1>6. Addresses(q) \subseteq {Address(mProcessingQueue[i]) : i \in D}
  <2>1. \A k \in 1..Len(q) : Address(q[k]) \in {Address(mProcessingQueue[i]) : i \in D}
    BY <1>5
  <2>. QED BY <2>1 DEF Addresses
<1>7. {Address(mProcessingQueue[i]) : i \in D} \subseteq Addresses(mProcessingQueue)
  BY DEF Addresses
<1>. QED BY <1>2, <1>4, <1>5, <1>6, <1>7, Zenon

\* Retries have the objects of orphans, each once.
LEMMA RetryAddresses ==
  ASSUME NEW s, Retries(s), \A o, u \in mOrphanTxns : o.tx = u.tx => o = u
  PROVE  Single(s) /\ Addresses(s) \subseteq {Address(o) : o \in mOrphanTxns}
<1>1. Single(s)
  <2>1. SUFFICES ASSUME NEW k \in 1..Len(s), NEW l \in 1..Len(s), Address(s[k]) = Address(s[l])
                 PROVE  k = l
    BY DEF Single
  <2>2. PICK o \in mOrphanTxns :
          Address(o) = Address(s[k]) /\ s[k] = [o EXCEPT !.orphan = TRUE, !.stored = FALSE]
    BY <2>1, Zenon DEF Retries
  <2>3. PICK u \in mOrphanTxns :
          Address(u) = Address(s[l]) /\ s[l] = [u EXCEPT !.orphan = TRUE, !.stored = FALSE]
    BY <2>1, Zenon DEF Retries
  <2>4. o.tx = u.tx
    BY <2>1, <2>2, <2>3 DEF Address
  <2>5. o = u
    BY <2>4
  <2>6. s[k] = s[l]
    BY <2>2, <2>3, <2>5
  <2>. QED BY <2>6, Zenon DEF Retries
<1>2. \A k \in 1..Len(s) : \E o \in mOrphanTxns : Address(o) = Address(s[k])
  BY Zenon DEF Retries
<1>. QED BY <1>1, <1>2, Zenon DEF Addresses

\* The end of a batch keeps AddrInv, unless a retried orphan is demoted.
LEMMA AddrEndBatch ==
  ASSUME TypeInv, AddrInv, NoOrphanDemoted', EndBatch
  PROVE  AddrInv'
<1>1. PICK s : \E can : Retries(s) /\ Chosen(can, Cancelled) /\ mProcessingQueue' = s \o can
  BY EndBatchFacts, Zenon
<1>2. PICK can : Retries(s) /\ Chosen(can, Cancelled) /\ mProcessingQueue' = s \o can
  BY <1>1, Zenon
<1>3. PICK dem : Chosen(dem, Demoted) /\ mNonStdTxns' = EnqueueTxns(mNonStdTxns, dem)
  BY EndBatchFacts, Zenon
<1>4. UNCHANGED <<mStdTxns, mOrphanTxns, world>>
  BY Zenon DEF EndBatch, rest
<1>5. /\ mNonStdTxns \in Seq(Items) /\ Len(mNonStdTxns) <= world.queue /\ world.queue \in Nat
  BY WorldsAssumption DEF TypeInv
<1>6. /\ Single(mProcessingQueue) /\ Single(mNonStdTxns) /\ Single(mStdTxns)
      /\ Addresses(mStdTxns) \cap Addresses(mNonStdTxns) = {}
      /\ Addresses(mStdTxns) \cap Addresses(mProcessingQueue) = {}
      /\ Addresses(mNonStdTxns) \cap Addresses(mProcessingQueue) = {}
      /\ \A o, u \in mOrphanTxns : o.tx = u.tx => o = u
      /\ \A o \in mOrphanTxns : Address(o) \notin Addresses(mStdTxns) /\ Address(o) \notin Addresses(mNonStdTxns)
  BY DEF AddrInv
<1>7. \A o \in mOrphanTxns : \A k \in 1..Len(mProcessingQueue) : Address(mProcessingQueue[k]) = Address(o) =>
        mProcessingQueue[k].orphan \/ res[k] = "missing"
  BY ZenonT(60) DEF AddrInv
<1>8. /\ Cancelled \in SUBSET (1..Len(mProcessingQueue)) /\ Demoted \in SUBSET (1..Len(mProcessingQueue))
      /\ \A i \in Demoted : res[i] = "timeout"
      /\ \A i \in Cancelled : res[i] = "cancelled" /\ i \notin Demoted
  BY EndBatchFacts, ZenonT(60) DEF Cancelled, Demoted
<1>9. /\ can \in Seq(Items) /\ Single(can) /\ Addresses(can) \subseteq Addresses(mProcessingQueue)
      /\ \A k \in 1..Len(can) : \E i \in Cancelled : /\ Address(can[k]) = Address(mProcessingQueue[i])
                                                     /\ can[k].orphan = mProcessingQueue[i].orphan
  BY <1>2, <1>6, <1>8, ChosenAddresses, ZenonT(60)
<1>10. /\ dem \in Seq(Items) /\ Single(dem) /\ Addresses(dem) \subseteq Addresses(mProcessingQueue)
       /\ \A k \in 1..Len(dem) : \E i \in Demoted : /\ Address(dem[k]) = Address(mProcessingQueue[i])
                                                    /\ dem[k].orphan = mProcessingQueue[i].orphan
  BY <1>3, <1>6, <1>8, ChosenAddresses, ZenonT(60)
<1>11. Addresses(can) \cap Addresses(dem) = {}
  <2>1. SUFFICES ASSUME NEW k \in 1..Len(can), NEW l \in 1..Len(dem), Address(can[k]) = Address(dem[l])
                 PROVE  FALSE
    BY Zenon DEF Addresses
  <2>2. PICK i \in Cancelled : Address(can[k]) = Address(mProcessingQueue[i])
    BY <1>9
  <2>3. PICK j \in Demoted : Address(dem[l]) = Address(mProcessingQueue[j])
    BY <1>10
  <2>4. i = j
    BY <2>1, <2>2, <2>3, <1>6, <1>8, Zenon DEF Single
  <2>. QED BY <2>4, <1>8
<1>12. Grown(mNonStdTxns', mNonStdTxns, dem)
  <2>1. Addresses(mNonStdTxns) \cap Addresses(dem) = {}
    BY <1>6, <1>10
  <2>2. Grown(EnqueueTxns(mNonStdTxns, dem), mNonStdTxns, dem)
    BY <2>1, <1>5, <1>6, <1>10, EnqueueAddresses
  <2>. QED BY <2>2, <1>3
<1>13. /\ Single(mNonStdTxns') /\ Addresses(mNonStdTxns') \subseteq Addresses(mNonStdTxns) \cup Addresses(dem)
       /\ \A k \in 1..Len(mNonStdTxns') : \/ \E i \in 1..Len(mNonStdTxns) : mNonStdTxns'[k] = mNonStdTxns[i]
                                          \/ \E i \in 1..Len(dem) : mNonStdTxns'[k] = dem[i]
  BY <1>12, ZenonT(60) DEF Grown
<1>14. \A o \in mOrphanTxns : Address(o) \notin Addresses(mNonStdTxns')
  <2>1. SUFFICES ASSUME NEW o \in mOrphanTxns, NEW k \in 1..Len(mNonStdTxns'),
                        Address(mNonStdTxns'[k]) = Address(o)
                 PROVE  FALSE
    BY Zenon DEF Addresses
  <2>2. ~ mNonStdTxns'[k].orphan
    BY DEF NoOrphanDemoted
  <2>3. ~ \E i \in 1..Len(mNonStdTxns) : mNonStdTxns'[k] = mNonStdTxns[i]
    BY <2>1, <1>6, Zenon DEF Addresses
  <2>4. PICK l \in 1..Len(dem) : mNonStdTxns'[k] = dem[l]
    BY <2>1, <2>3, <1>13, Zenon
  <2>5. PICK i \in Demoted : /\ Address(dem[l]) = Address(mProcessingQueue[i])
                             /\ dem[l].orphan = mProcessingQueue[i].orphan
    BY <1>10
  <2>6. res[i] = "timeout" /\ i \in 1..Len(mProcessingQueue)
    BY <1>8
  <2>. QED BY <2>1, <2>2, <2>4, <2>5, <2>6, <1>7, ZenonT(60)
<1>15. Single(s) /\ Addresses(s) \subseteq {Address(o) : o \in mOrphanTxns} /\ s \in Seq(Items)
  <2>1. s \in Seq(Items)
    BY <1>2, Zenon DEF Retries
  <2>. QED BY <2>1, <1>2, <1>6, RetryAddresses
<1>16. \A k \in 1..Len(s) : s[k].orphan /\ \A i \in Cancelled : TxOf(i) # s[k].tx
  BY <1>2, Zenon DEF Retries
<1>17. Addresses(s) \cap Addresses(can) = {}
  <2>1. SUFFICES ASSUME NEW k \in 1..Len(s), NEW l \in 1..Len(can), Address(s[k]) = Address(can[l])
                 PROVE  FALSE
    BY Zenon DEF Addresses
  <2>2. PICK i \in Cancelled : Address(can[l]) = Address(mProcessingQueue[i])
    BY <1>9
  <2>3. TxOf(i) # s[k].tx
    BY <1>16
  <2>. QED BY <2>1, <2>2, <2>3 DEF Address, TxOf
<1>18. /\ Single(mProcessingQueue') /\ Addresses(mProcessingQueue') = Addresses(s) \cup Addresses(can)
       /\ \A k \in 1..Len(mProcessingQueue') : \/ \E i \in 1..Len(s) : mProcessingQueue'[k] = s[i]
                                               \/ \E i \in 1..Len(can) : mProcessingQueue'[k] = can[i]
  <2>1. mProcessingQueue' = s \o can
    BY <1>2
  <2>2. s \in Seq(Items) /\ can \in Seq(Items)
    BY <1>9, <1>15
  <2>3. Single(s) /\ Single(can) /\ Addresses(s) \cap Addresses(can) = {}
    BY <1>9, <1>15, <1>17
  <2>4. Joined(s \o can, s, can)
    BY <2>2, <2>3, ConcatAddresses
  <2>. QED BY <2>1, <2>4, Zenon DEF Joined
<1>19. Addresses(s) \cap Addresses(mStdTxns) = {} /\ Addresses(s) \cap Addresses(mNonStdTxns') = {}
  BY <1>6, <1>14, <1>15
<1>20. /\ Addresses(mStdTxns) \cap Addresses(mProcessingQueue') = {}
       /\ Addresses(mNonStdTxns') \cap Addresses(mProcessingQueue') = {}
       /\ Addresses(mStdTxns) \cap Addresses(mNonStdTxns') = {}
  BY <1>6, <1>9, <1>10, <1>11, <1>13, <1>18, <1>19
<1>21. ASSUME NEW o \in mOrphanTxns, NEW k \in 1..Len(mProcessingQueue'),
              Address(mProcessingQueue'[k]) = Address(o)
       PROVE  mProcessingQueue'[k].orphan
  <2>1. CASE \E i \in 1..Len(s) : mProcessingQueue'[k] = s[i]
    BY <2>1, <1>16, Zenon
  <2>2. ASSUME NEW l \in 1..Len(can), mProcessingQueue'[k] = can[l]
        PROVE  mProcessingQueue'[k].orphan
    <3>1. PICK i \in Cancelled : /\ Address(can[l]) = Address(mProcessingQueue[i])
                                 /\ can[l].orphan = mProcessingQueue[i].orphan
      BY <1>9
    <3>2. i \in 1..Len(mProcessingQueue) /\ res[i] = "cancelled"
      BY <1>8
    <3>. QED BY <3>1, <3>2, <2>2, <1>21, <1>7, Zenon
  <2>. QED BY <2>1, <2>2, <1>18, <1>21, Zenon
<1>. QED BY <1>4, <1>6, <1>13, <1>14, <1>18, <1>20, <1>21, Zenon DEF AddrInv

\* Every step that demotes no retried orphan keeps AddrInv: a new transaction
\* gets a free address, a batch takes entries off the queues, what becomes an
\* orphan or is retried leaves no other entry behind.
LEMMA AddrStep ==
  ASSUME TypeInv, TypeInv', AddrInv, NoOrphanDemoted', [Next]_vars
  PROVE  AddrInv'
<1>. USE DEF queues, batch, orphanage, rest
<1>w. world.txs \subseteq Tx /\ world.queue \in Nat
  BY WorldsAssumption DEF TypeInv
<1>q. /\ mStdTxns \in Seq(Items) /\ mNonStdTxns \in Seq(Items) /\ mProcessingQueue \in Seq(Items)
      /\ Len(mStdTxns) <= world.queue /\ Len(mNonStdTxns) <= world.queue
      /\ DOMAIN pc = 1..(IF running THEN Len(mProcessingQueue) ELSE 0) /\ DOMAIN res = DOMAIN pc
      /\ mOrphanTxns \subseteq Items /\ IsFiniteSet(mOrphanTxns)
  BY DEF TypeInv
<1>1. ASSUME NEW t \in world.txs, Arrive(t)
      PROVE  AddrInv'
  <2>. DEFINE free == {a \in Addrs : \A it \in Queued \cup mOrphanTxns : Address(it) # <<t, a>>}
              x == CHOOSE a \in free : TRUE
              it == [tx |-> t, addr |-> x, prio |-> "high", orphan |-> FALSE, stored |-> TRUE]
              q == EnqueueTxns(mStdTxns, <<it>>)
  <2>1. x \in free
    BY <1>1, Zenon DEF Arrive
  <2>2. x \in Addrs /\ \A u \in Queued \cup mOrphanTxns : Address(u) # <<t, x>>
    BY <2>1
  <2>3. /\ mStdTxns' = q
        /\ UNCHANGED <<mNonStdTxns, mProcessingQueue, batch, orphanage>>
    BY <1>1 DEF Arrive
  <2>. HIDE DEF x
  <2>4. it \in Items /\ Address(it) = <<t, x>>
    BY <2>2, <1>w DEF Items, Address
  <2>. HIDE DEF it
  <2>5. <<it>> \in Seq(Items) /\ Len(<<it>>) = 1 /\ <<it>>[1] = it
    BY <2>4
  <2>6. Single(<<it>>) /\ Addresses(<<it>>) = {<<t, x>>}
    BY <2>4, <2>5 DEF Single, Addresses
  <2>7. /\ <<t, x>> \notin Addresses(mStdTxns) /\ <<t, x>> \notin Addresses(mNonStdTxns)
        /\ <<t, x>> \notin Addresses(mProcessingQueue)
        /\ \A o \in mOrphanTxns : Address(o) # <<t, x>>
    <3>1. ASSUME NEW r \in Seq(Items), Range(r) \subseteq Queued
          PROVE  <<t, x>> \notin Addresses(r)
      <4>1. \A i \in 1..Len(r) : r[i] \in Range(r)
        BY DEF Range
      <4>. QED BY <4>1, <3>1, <2>2 DEF Addresses
    <3>2. /\ Range(mStdTxns) \subseteq Queued /\ Range(mNonStdTxns) \subseteq Queued
          /\ Range(mProcessingQueue) \subseteq Queued
      BY Zenon DEF Queued
    <3>. QED BY <3>1, <3>2, <2>2, <1>q, Zenon
  <2>8. Single(q) /\ Addresses(q) \subseteq Addresses(mStdTxns) \cup {<<t, x>>}
    <3>1. Single(mStdTxns) /\ Addresses(mStdTxns) \cap Addresses(<<it>>) = {}
      BY <2>6, <2>7, Zenon DEF AddrInv
    <3>2. Single(q) /\ Addresses(q) \subseteq Addresses(mStdTxns) \cup Addresses(<<it>>)
      BY <3>1, <2>5, <2>6, <1>q, <1>w, EnqueueAddresses, Zenon DEF Grown
    <3>. QED BY <3>2, <2>6
  <2>. HIDE DEF q
  <2>. QED BY <2>3, <2>7, <2>8, ZenonT(60) DEF AddrInv
<1>2. ASSUME StartBatch
      PROVE  AddrInv'
  <2>. DEFINE max == StdBatch + NonStdBatch
              ns == IF Len(mProcessingQueue) < max THEN Len(Take(mStdTxns, StdBatch)) ELSE 0
              a == Take(mStdTxns, ns)
              q1 == mProcessingQueue \o a
              nn == IF Len(q1) < max THEN Len(Take(mNonStdTxns, NonStdBatch)) ELSE 0
              b == Take(mNonStdTxns, nn)
              q2 == q1 \o b
  <2>1. /\ ~running
        /\ mStdTxns' = Drop(mStdTxns, ns) /\ mNonStdTxns' = Drop(mNonStdTxns, nn)
        /\ mProcessingQueue' = q2 /\ mOrphanTxns' = mOrphanTxns
    BY <1>2 DEF StartBatch
  <2>2. ns \in 0..Len(mStdTxns)
    <3>1. Len(Take(mStdTxns, StdBatch)) \in 0..Len(mStdTxns)
      BY <1>q, BatchAssumption, TakeDrop, Zenon
    <3>. QED BY <3>1, <1>q
  <2>3. nn \in 0..Len(mNonStdTxns)
    <3>1. Len(Take(mNonStdTxns, NonStdBatch)) \in 0..Len(mNonStdTxns)
      BY <1>q, BatchAssumption, TakeDrop, Zenon
    <3>. QED BY <3>1, <1>q
  <2>. HIDE DEF ns, nn
  <2>4. /\ a \in Seq(Items) /\ b \in Seq(Items)
        /\ Single(a) /\ Single(mStdTxns') /\ Single(b) /\ Single(mNonStdTxns')
        /\ Addresses(a) \subseteq Addresses(mStdTxns)
        /\ Addresses(mStdTxns') \subseteq Addresses(mStdTxns)
        /\ Addresses(a) \cap Addresses(mStdTxns') = {}
        /\ Addresses(b) \subseteq Addresses(mNonStdTxns)
        /\ Addresses(mNonStdTxns') \subseteq Addresses(mNonStdTxns)
        /\ Addresses(b) \cap Addresses(mNonStdTxns') = {}
    <3>1. ns \in Nat /\ nn \in Nat
      BY <2>2, <2>3, <1>q
    <3>2. a \in Seq(Items) /\ b \in Seq(Items)
      BY <3>1, <1>q, TakeDrop, Zenon
    <3>3. Single(mStdTxns) /\ Single(mNonStdTxns)
      BY DEF AddrInv
    <3>4. /\ Single(a) /\ Single(Drop(mStdTxns, ns))
          /\ Addresses(a) \subseteq Addresses(mStdTxns)
          /\ Addresses(Drop(mStdTxns, ns)) \subseteq Addresses(mStdTxns)
          /\ Addresses(a) \cap Addresses(Drop(mStdTxns, ns)) = {}
      BY <3>3, <2>2, <1>q, SplitAddresses
    <3>5. /\ Single(b) /\ Single(Drop(mNonStdTxns, nn))
          /\ Addresses(b) \subseteq Addresses(mNonStdTxns)
          /\ Addresses(Drop(mNonStdTxns, nn)) \subseteq Addresses(mNonStdTxns)
          /\ Addresses(b) \cap Addresses(Drop(mNonStdTxns, nn)) = {}
      BY <3>3, <2>3, <1>q, SplitAddresses
    <3>. QED BY <2>1, <3>2, <3>4, <3>5, Zenon
  <2>. HIDE DEF a, b
  <2>5. /\ q1 \in Seq(Items) /\ Single(q1)
        /\ Addresses(q1) = Addresses(mProcessingQueue) \cup Addresses(a)
        /\ \A k \in 1..Len(q1) : \/ \E i \in 1..Len(mProcessingQueue) : q1[k] = mProcessingQueue[i]
                                 \/ \E i \in 1..Len(a) : q1[k] = a[i]
    <3>1. Single(mProcessingQueue) /\ Addresses(mProcessingQueue) \cap Addresses(a) = {}
      BY <2>4 DEF AddrInv
    <3>2. q1 \in Seq(Items)
      BY <2>4, <1>q
    <3>3. a \in Seq(Items) /\ Single(a) /\ mProcessingQueue \in Seq(Items)
      BY <2>4, <1>q
    <3>4. Joined(q1, mProcessingQueue, a)
      BY <3>1, <3>3, ConcatAddresses
    <3>. HIDE DEF q1
    <3>. QED BY <3>2, <3>4, Zenon DEF Joined
  <2>. HIDE DEF q1, max
  <2>6. /\ Single(q2) /\ Addresses(q2) = Addresses(q1) \cup Addresses(b)
        /\ \A k \in 1..Len(q2) : \/ \E i \in 1..Len(q1) : q2[k] = q1[i]
                                 \/ \E i \in 1..Len(b) : q2[k] = b[i]
    <3>1. Addresses(q1) \cap Addresses(b) = {}
      BY <2>4, <2>5 DEF AddrInv
    <3>2. q1 \in Seq(Items) /\ b \in Seq(Items) /\ Single(q1) /\ Single(b)
      BY <2>4, <2>5
    <3>3. Joined(q2, q1, b)
      BY <3>1, <3>2, ConcatAddresses
    <3>. HIDE DEF q2
    <3>. QED BY <3>3, Zenon DEF Joined
  <2>. HIDE DEF q2
  <2>7. ASSUME NEW o \in mOrphanTxns, NEW k \in 1..Len(q2), Address(q2[k]) = Address(o)
        PROVE  q2[k].orphan
    <3>1. Address(o) \notin Addresses(a) /\ Address(o) \notin Addresses(b)
      BY <2>4 DEF AddrInv
    <3>2. /\ \A i \in 1..Len(a) : Address(a[i]) # Address(o)
          /\ \A i \in 1..Len(b) : Address(b[i]) # Address(o)
      BY <3>1 DEF Addresses
    <3>3. \E i \in 1..Len(mProcessingQueue) : q2[k] = mProcessingQueue[i]
      <4>1. ~ \E i \in 1..Len(b) : q2[k] = b[i]
        BY <3>2, <2>7, Zenon
      <4>2. PICK j \in 1..Len(q1) : q2[k] = q1[j]
        BY <4>1, <2>6, <2>7, Zenon
      <4>3. ~ \E i \in 1..Len(a) : q1[j] = a[i]
        BY <3>2, <4>2, <2>7, Zenon
      <4>. QED BY <4>2, <4>3, <2>5, Zenon
    <3>4. DOMAIN pc = {}
      BY <2>1, <1>q
    <3>. QED BY <3>3, <3>4, <2>7 DEF AddrInv
  <2>8. /\ Addresses(mStdTxns') \cap Addresses(q2) = {}
        /\ Addresses(mNonStdTxns') \cap Addresses(q2) = {}
        /\ Addresses(mStdTxns') \cap Addresses(mNonStdTxns') = {}
    BY <2>4, <2>5, <2>6 DEF AddrInv
  <2>9. \A o \in mOrphanTxns : Address(o) \notin Addresses(mStdTxns') \cup Addresses(mNonStdTxns')
    BY <2>4 DEF AddrInv
  <2>10. \A o, u \in mOrphanTxns : o.tx = u.tx => o = u
    BY DEF AddrInv
  <2>. QED BY <2>1, <2>4, <2>6, <2>7, <2>8, <2>9, <2>10, ZenonT(60) DEF AddrInv
<1>3. ASSUME UNCHANGED <<queues, pc, res>>, mOrphanTxns' \subseteq mOrphanTxns
      PROVE  AddrInv'
  BY <1>3 DEF AddrInv
<1>4. ASSUME NEW i \in DOMAIN pc, Step(i)
      PROVE  AddrInv'
  <2>. DEFINE Shares(k) == /\ k \in DOMAIN pc /\ res[k] = "missing" /\ pc[k] \in {"remove", "done"}
              Keeps == \A k \in DOMAIN pc : Shares(k) => Shares(k)'
  <2>1. UNCHANGED queues
    BY <1>4, Zenon DEF Step, PoolCheck, InputCheck, Insert, Commit, Collect, HandleInvalid, Release,
                HandleTxnProcessingException
  <2>2. ASSUME NEW l, Goto(i, l), l \in {"remove", "done"} \/ ~ Shares(i),
               res' = res \/ (~ Shares(i) /\ \E w : res' = [res EXCEPT ![i] = w])
        PROVE  Keeps
    BY <2>2, <1>q DEF Goto
  <2>3. Keeps
    <3>1. CASE PoolCheck(i)
      BY <3>1, <2>2, ZenonT(60) DEF PoolCheck, Fail
    <3>2. CASE InputCheck(i)
      BY <3>2, <2>2, ZenonT(60) DEF InputCheck, Fail
    <3>3. CASE Insert(i)
      BY <3>3, <2>2, ZenonT(60) DEF Insert, Fail
    <3>4. CASE Commit(i)
      BY <3>4, <2>2, ZenonT(60) DEF Commit
    <3>5. CASE Collect(i)
      BY <3>5, <2>2, ZenonT(60) DEF Collect
    <3>6. CASE HandleInvalid(i)
      BY <3>6, <2>2, ZenonT(60) DEF HandleInvalid
    <3>7. CASE Release(i)
      BY <3>7, <2>2 DEF Release
    <3>8. CASE HandleTxnProcessingException(i)
      BY <3>8, <2>2, Zenon DEF HandleTxnProcessingException
    <3>. HIDE DEF Keeps
    <3>. QED BY <1>4, <3>1, <3>2, <3>3, <3>4, <3>5, <3>6, <3>7, <3>8, ZenonT(60) DEF Step
  <2>4. ASSUME mOrphanTxns' \subseteq mOrphanTxns
        PROVE  AddrInv'
    <3>1. \A o \in mOrphanTxns : \A k \in 1..Len(mProcessingQueue) :
            Address(mProcessingQueue[k]) = Address(o) => mProcessingQueue[k].orphan \/ Shares(k)'
      BY <2>3, Zenon DEF AddrInv
    <3>. HIDE DEF Shares
    <3>2. \A o \in mOrphanTxns' : \A k \in 1..Len(mProcessingQueue') :
            Address(mProcessingQueue'[k]) = Address(o) => mProcessingQueue'[k].orphan \/ Shares(k)'
      BY <3>1, <2>1, <2>4
    <3>3. /\ \A o, u \in mOrphanTxns' : o.tx = u.tx => o = u
          /\ \A o \in mOrphanTxns' : Address(o) \notin Addresses(mStdTxns') \cup Addresses(mNonStdTxns')
      BY <2>1, <2>4 DEF AddrInv
    <3>. QED BY <3>2, <3>3, <2>1 DEF AddrInv, Shares
  <2>5. CASE ~ HandleInvalid(i)
    BY <1>4, <2>4, <2>5, Zenon DEF Step, PoolCheck, InputCheck, Insert, Commit, Collect, EraseTxn, Release,
                            HandleTxnProcessingException
  <2>6. CASE HandleInvalid(i)
    <3>. DEFINE it == mProcessingQueue[i]
                new == [it EXCEPT !.orphan = TRUE]
    <3>1. CASE mOrphanTxns' \subseteq mOrphanTxns
      BY <2>4, <3>1
    <3>2. CASE ~ (mOrphanTxns' \subseteq mOrphanTxns)
      <4>1. /\ ~ IsOrphan(it.tx) /\ res[i] = "missing" /\ res' = res /\ Goto(i, "remove")
            /\ mOrphanTxns' \subseteq mOrphanTxns \cup {new}
        BY <2>6, <3>2 DEF HandleInvalid, HandleInvalidOrphan, HandleInvalidNonOrphan, Limited, EraseTxn
      <4>2. i \in 1..Len(mProcessingQueue) /\ it \in Items
        BY <1>4, EntryFacts
      <4>3. Address(new) = Address(it) /\ new.tx = it.tx
        BY <4>2 DEF Items, Address
      <4>4. Shares(i)'
        BY <4>1, <1>4, <1>q DEF Goto
      <4>. HIDE DEF new, it
      <4>5. /\ \A o \in mOrphanTxns : o.tx # it.tx
            /\ Address(it) \in Addresses(mProcessingQueue)
            /\ \A k \in 1..Len(mProcessingQueue) : Address(mProcessingQueue[k]) = Address(it) => k = i
        <5>1. \A o \in mOrphanTxns : o.tx # it.tx
          BY <4>1 DEF IsOrphan
        <5>2. Address(it) \in Addresses(mProcessingQueue)
          BY <4>2, Zenon DEF Addresses, it
        <5>3. \A k \in 1..Len(mProcessingQueue) : Address(mProcessingQueue[k]) = Address(it) => k = i
          BY <4>2, ZenonT(60) DEF AddrInv, Single, it
        <5>. QED BY <5>1, <5>2, <5>3
      <4>6. \A o \in mOrphanTxns : \A k \in 1..Len(mProcessingQueue) :
              Address(mProcessingQueue[k]) = Address(o) => mProcessingQueue[k].orphan \/ Shares(k)'
        BY <2>3, Zenon DEF AddrInv
      <4>. HIDE DEF Shares
      <4>7. \A o \in mOrphanTxns' : \A k \in 1..Len(mProcessingQueue) :
              Address(mProcessingQueue[k]) = Address(o) => mProcessingQueue[k].orphan \/ Shares(k)'
        BY <4>1, <4>3, <4>4, <4>5, <4>6, ZenonT(60)
      <4>8. \A o, u \in mOrphanTxns' : o.tx = u.tx => o = u
        BY <4>1, <4>3, <4>5 DEF AddrInv
      <4>9. \A o \in mOrphanTxns' : Address(o) \notin Addresses(mStdTxns) \cup Addresses(mNonStdTxns)
        BY <4>1, <4>3, <4>5 DEF AddrInv
      <4>. QED BY <4>7, <4>8, <4>9, <2>1 DEF AddrInv, Shares
    <3>. QED BY <3>1, <3>2
  <2>. QED BY <2>5, <2>6
<1>5. ASSUME EndBatch
      PROVE  AddrInv'
  BY <1>5, AddrEndBatch
<1>6. CASE Elapse
  BY <1>3, <1>6 DEF Elapse
<1>7. ASSUME NEW t \in world.txs, ProcessValidation(t) \/ BlockConnected(t)
      PROVE  AddrInv'
  BY <1>3, <1>7, Zenon DEF ProcessValidation, BlockConnected
<1>8. ASSUME NEW p \in Peers, Disconnect(p)
      PROVE  AddrInv'
  BY <1>3, <1>8, Zenon DEF Disconnect
<1>9. CASE UNCHANGED vars
  BY <1>3, <1>9 DEF vars
<1>. QED BY <1>1, <1>2, <1>4, <1>5, <1>6, <1>7, <1>8, <1>9 DEF Next, Upset, Validator
\* Nothing is anywhere at first.
LEMMA AddrInit == Init => AddrInv
<1>. SUFFICES ASSUME Init
              PROVE  AddrInv
  OBVIOUS
<1>1. /\ mStdTxns = <<>> /\ mNonStdTxns = <<>> /\ mProcessingQueue = <<>> /\ mOrphanTxns = {}
      /\ 1..Len(<<>>) = {}
  BY DEF Init
<1>2. Single(<<>>) /\ Addresses(<<>>) = {}
  BY <1>1 DEF Single, Addresses
<1>. QED BY <1>1, <1>2 DEF AddrInv

(* A batch holds a transaction object only once, unless an entry made to   *)
(* retry an orphan is moved to the non-standard queue                      *)
(* (scheduleOrphanP2PTxnsForReprocessing, postValidationStepsNL).          *)
THEOREM ObjectsOnce == Spec /\ []NoOrphanDemoted => []OncePerBatch
<1>1. Init => AddrInv
  BY AddrInit
<1>2. TypeInv /\ TypeInv' /\ AddrInv /\ NoOrphanDemoted' /\ [Next]_vars => AddrInv'
  BY AddrStep
<1>3. TypeInv /\ AddrInv => OncePerBatch
  <2>1. TypeInv => DOMAIN pc \subseteq 1..Len(mProcessingQueue)
    BY DEF TypeInv
  <2>. QED BY <2>1 DEF AddrInv, Single, OncePerBatch
<1>4. Spec => []TypeInv
  BY TypesCorrect
<1>. QED BY <1>1, <1>2, <1>3, <1>4, PTL DEF Spec

(* The mempool and the detector are right as long as no entry made to      *)
(* retry an orphan reaches the non-standard queue                          *)
(* (postValidationStepsNL): then no batch holds an object twice.           *)
THEOREM ValidatorCorrect == Spec /\ []NoOrphanDemoted => []NoDoubleSpend /\ []DetectorExact
<1>. QED BY ObjectsOnce, MempoolConsistent, DetectorIsExact, PTL
=============================================================================
