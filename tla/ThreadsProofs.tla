---------------------------- MODULE ThreadsProofs ----------------------------
(***************************************************************************)
(* Proofs about the pool of check queues, about the thread pool and about  *)
(* the scheduler, for any number of threads, queues and tasks.             *)
(***************************************************************************)
EXTENDS Threads, FiniteSetTheorems, TLAPS

\* The cardinality that the instances count with is this module's.
LEMMA OneCardinality ==
  \A X : P!Cardinality(X) = Cardinality(X) /\ T!Cardinality(X) = Cardinality(X)
BY Zenon DEF P!Cardinality, T!Cardinality, Cardinality, P!IsFiniteSet, T!IsFiniteSet, IsFiniteSet
-----------------------------------------------------------------------------
(* The pool of check queues.                                               *)

(* TypeOK, QueuesPartitioned and NoLostWakeup are inductive together; the  *)
(* last one counts, which is why plain "an idle queue means a notified     *)
(* thread" would not be: with two idle queues and one notified thread the  *)
(* second queue would be overlooked.                                       *)
PInv == P!TypeOK /\ P!QueuesPartitioned /\ P!NoLostWakeup

\* The threads at a place of GetChecker form a finite set.
LEMMA FiniteAt ==
  \A l : IsFiniteSet(P!At(l)) /\ Cardinality(P!At(l)) \in Nat
<1> SUFFICES ASSUME NEW l PROVE IsFiniteSet(P!At(l)) /\ Cardinality(P!At(l)) \in Nat
  OBVIOUS
<1>1. P!At(l) \subseteq Thread
  BY DEF P!At
<1>2. IsFiniteSet(P!At(l))
  BY <1>1, ThreadsAssumption, FS_Subset
<1> QED BY <1>2, FS_CardinalityType

\* The idle queues form a finite set.
LEMMA FiniteIdle ==
  ASSUME P!TypeOK
  PROVE  IsFiniteSet(pIdle) /\ Cardinality(pIdle) \in Nat
BY ThreadsAssumption, FS_Subset, FS_CardinalityType DEF P!TypeOK

\* The pool starts with every queue idle and nobody waiting.
LEMMA PInit == P!Init => PInv
<1> SUFFICES ASSUME P!Init PROVE PInv
  OBVIOUS
<1>1. P!TypeOK
  BY ThreadsAssumption DEF P!Init, P!TypeOK
<1>2. P!QueuesPartitioned
  BY ThreadsAssumption DEF P!Init, P!QueuesPartitioned, P!Running
<1>3. P!NoLostWakeup
  BY OneCardinality DEF P!Init, P!NoLostWakeup, P!At
<1> QED BY <1>1, <1>2, <1>3 DEF PInv

\* A thread, new or notified, takes an idle queue.
LEMMA TakeKeeps ==
  ASSUME PInv, NEW t \in Thread, NEW v \in Nat, pPc[t] \in {"out", "woken"},
         pPc[t] = "out" \/ pPc[t] = "woken", P!Take(t, v), UNCHANGED <<pTodo, pPool>>
  PROVE  PInv'
<1> PICK q \in pIdle :
      /\ pQueueOf' = [pQueueOf EXCEPT ![t] = q] /\ pIdle' = pIdle \ {q}
      /\ pWork' = [pWork EXCEPT ![t] = v] /\ pSince' = [pSince EXCEPT ![t] = pClock]
      /\ pTerminated' = [pTerminated EXCEPT ![t] = FALSE]
      /\ pClock' = pClock + 1 /\ pPc' = [pPc EXCEPT ![t] = "open"]
  BY Zenon DEF P!Take
<1> USE DEF PInv
<1>1. P!TypeOK'
  BY DEF P!TypeOK
<1>2. P!QueuesPartitioned'
  BY ThreadsAssumption DEF P!TypeOK, P!QueuesPartitioned, P!Running
<1>3. P!NoLostWakeup'
  <2> SUFFICES ASSUME P!At("asleep")' # {} 
               PROVE  Cardinality(P!At("woken")') >= Cardinality(pIdle')
    BY OneCardinality DEF P!NoLostWakeup
  <2>1. P!At("asleep") # {}
    BY DEF P!At, P!TypeOK
  <2>2. Cardinality(P!At("woken")) >= Cardinality(pIdle)
    BY <2>1, OneCardinality DEF P!NoLostWakeup
  <2>3. Cardinality(pIdle') = Cardinality(pIdle) - 1
    BY FiniteIdle, FS_RemoveElement, Zenon
  <2>4. P!At("woken")' = P!At("woken") \ {t}
    BY DEF P!At, P!TypeOK
  <2>5. Cardinality(P!At("woken")') >= Cardinality(P!At("woken")) - 1
    <3> DEFINE W == P!At("woken")
    <3>1. IsFiniteSet(W) /\ Cardinality(W) \in Nat
      BY FiniteAt
    <3>2. Cardinality(W \ {t}) = IF t \in W THEN Cardinality(W) - 1 ELSE Cardinality(W)
      <4> HIDE DEF W
      <4> QED BY <3>1, FS_RemoveElement, Zenon
    <3>3. Cardinality(W \ {t}) >= Cardinality(W) - 1
      <4> HIDE DEF W
      <4> QED BY <3>1, <3>2
    <3> QED BY <3>3, <2>4, Zenon
  <2>6. Cardinality(P!At("woken")') \in Nat
    BY <2>4, FiniteAt, FS_Subset, FS_CardinalityType
  <2> QED BY <2>2, <2>3, <2>5, <2>6, FiniteAt, FiniteIdle
<1> QED BY <1>1, <1>2, <1>3

\* ReturnQueueToPool adds an idle queue and notifies one sleeper, if there is one.
LEMMA ReturnKeeps ==
  ASSUME PInv, NEW t \in Thread, P!ReturnQueueToPool(t)
  PROVE  PInv'
<1> USE DEF PInv
<1>0. /\ pPc[t] = "return" /\ pQueueOf[t] \in Queue /\ pQueueOf[t] \notin pIdle /\ ~pTodo[t]
  BY DEF P!ReturnQueueToPool, P!QueuesPartitioned, P!TypeOK, P!Running
<1>1. P!TypeOK'
  BY <1>0 DEF P!TypeOK, P!ReturnQueueToPool, P!At
<1>2. P!QueuesPartitioned'
  BY <1>0, ThreadsAssumption DEF P!TypeOK, P!QueuesPartitioned, P!Running, P!ReturnQueueToPool, P!At
<1>3. P!NoLostWakeup'
  <2>1. CASE P!At("asleep") = {} /\ pPc' = [pPc EXCEPT ![t] = "out"]
    <3>1. P!At("asleep")' = {}
      BY <2>1 DEF P!At, P!TypeOK
    <3> QED BY <3>1, OneCardinality DEF P!NoLostWakeup
  <2>2. CASE \E w \in P!At("asleep") : pPc' = [pPc EXCEPT ![t] = "out", ![w] = "woken"]
    <3> PICK w \in P!At("asleep") : pPc' = [pPc EXCEPT ![t] = "out", ![w] = "woken"]
      BY <2>2, Zenon
    <3>1. P!At("woken")' = P!At("woken") \cup {w} /\ w \notin P!At("woken")
      BY <1>0 DEF P!At, P!TypeOK
    <3>2. Cardinality(P!At("woken")') = Cardinality(P!At("woken")) + 1
      BY <3>1, FiniteAt, FS_AddElement
    <3>3. pIdle' = pIdle \cup {pQueueOf[t]}
      BY DEF P!ReturnQueueToPool
    <3>4. Cardinality(pIdle') = Cardinality(pIdle) + 1
      BY <3>3, <1>0, FiniteIdle, FS_AddElement, Zenon
    <3>5. Cardinality(P!At("woken")) >= Cardinality(pIdle)
      BY OneCardinality DEF P!NoLostWakeup
    <3> QED BY <3>2, <3>4, <3>5, FiniteAt, FiniteIdle, OneCardinality DEF P!NoLostWakeup
  <2> QED BY <2>1, <2>2 DEF P!ReturnQueueToPool
<1> QED BY <1>1, <1>2, <1>3

\* Steps that move no queue and wake no thread keep the counts.
LEMMA QuietKeeps ==
  ASSUME PInv, UNCHANGED <<pIdle, pQueueOf>>, P!TypeOK',
         \A u \in Thread : (pQueueOf[u] # NoQueue <=> pPc'[u] \in {"open", "joined", "return"}),
         \A u \in Thread : pPc'[u] \in {"out", "return"} => ~pTodo'[u],
         P!At("woken")' = P!At("woken"), P!At("asleep")' = P!At("asleep")
  PROVE  PInv'
<1>1. P!Running' = P!Running
  BY DEF P!Running
<1>2. Queue = pIdle' \cup {pQueueOf'[t] : t \in P!Running'}
  BY <1>1 DEF PInv, P!QueuesPartitioned
<1>3. P!QueuesPartitioned'
  BY <1>1, <1>2 DEF PInv, P!QueuesPartitioned
<1>4. P!NoLostWakeup'
  BY OneCardinality DEF PInv, P!NoLostWakeup
<1> QED BY <1>3, <1>4 DEF PInv

\* Every step of GetChecker, of a guard and of the destructor preserves the invariant.
LEMMA PNext == PInv /\ [P!Next]_(P!vars) => PInv'
<1> SUFFICES ASSUME PInv, [P!Next]_(P!vars) PROVE PInv'
  OBVIOUS
<1>1. ASSUME NEW t \in Thread, NEW v \in Work, P!GetChecker(t, v) PROVE PInv'
  <2>0. pPc[t] = "out" /\ v \in Nat /\ UNCHANGED <<pTodo, pPool>>
    BY <1>1, ThreadsAssumption DEF P!GetChecker
  <2>1. CASE pIdle # {} /\ P!Take(t, v)
    BY <2>0, <2>1, TakeKeeps
  <2>2. CASE /\ pIdle = {}
             /\ pTerminated' = [r \in Thread |-> pTerminated[r] \/ (P!IsWorst(r) /\ pWork[r] < v)]
             /\ pWork' = [pWork EXCEPT ![t] = v] /\ pPc' = [pPc EXCEPT ![t] = "asleep"]
             /\ UNCHANGED <<pIdle, pQueueOf, pSince, pClock>>
    <3>1. P!TypeOK'
      <4>1. \A r \in Thread : pTerminated'[r] \in BOOLEAN
        BY Zenon, <2>2 DEF PInv, P!TypeOK
      <4>2. pTerminated' \in [Thread -> BOOLEAN]
        BY <4>1, <2>2
      <4> QED BY <4>2, <2>2, <2>0 DEF PInv, P!TypeOK
    <3>2. P!QueuesPartitioned'
      BY <2>0, <2>2, ThreadsAssumption DEF PInv, P!TypeOK, P!QueuesPartitioned, P!Running
    <3>3. Cardinality(pIdle') = 0
      BY <2>2, FS_EmptySet
    <3>4. P!At("woken")' = P!At("woken")
      BY <2>0, <2>2 DEF P!At, PInv, P!TypeOK
    <3> QED BY <3>1, <3>2, <3>3, <3>4, FiniteAt, OneCardinality DEF PInv, P!NoLostWakeup
  <2> QED BY <1>1, <2>1, <2>2 DEF P!GetChecker
<1>2. ASSUME NEW t \in Thread, P!WakeUp(t) PROVE PInv'
  <2>0. pPc[t] = "woken" /\ pWork[t] \in Nat /\ UNCHANGED <<pTodo, pPool>>
    BY <1>2 DEF P!WakeUp, PInv, P!TypeOK
  <2>1. CASE pIdle # {} /\ P!Take(t, pWork[t])
    BY <2>0, <2>1, TakeKeeps
  <2>2. CASE /\ pIdle = {} /\ pPc' = [pPc EXCEPT ![t] = "asleep"]
             /\ UNCHANGED <<pIdle, pQueueOf, pWork, pSince, pTerminated, pClock>>
    <3>1. P!TypeOK'
      BY <2>0, <2>2 DEF PInv, P!TypeOK
    <3>2. P!QueuesPartitioned'
      BY <2>0, <2>2, ThreadsAssumption DEF PInv, P!TypeOK, P!QueuesPartitioned, P!Running
    <3>3. Cardinality(pIdle') = 0
      BY <2>2, FS_EmptySet
    <3>4. P!At("woken")' \subseteq P!At("woken")
      BY <2>0, <2>2 DEF P!At, PInv, P!TypeOK
    <3>5. Cardinality(P!At("woken")') \in Nat
      BY <3>4, FiniteAt, FS_Subset, FS_CardinalityType
    <3> QED BY <3>1, <3>2, <3>3, <3>5, OneCardinality DEF PInv, P!NoLostWakeup
  <2> QED BY <1>2, <2>1, <2>2 DEF P!WakeUp
<1>3. ASSUME NEW t \in Thread, P!Spurious(t) PROVE PInv'
  <2>1. P!TypeOK'
    BY <1>3 DEF P!Spurious, PInv, P!TypeOK
  <2>2. P!QueuesPartitioned'
    BY <1>3, ThreadsAssumption DEF P!Spurious, PInv, P!TypeOK, P!QueuesPartitioned, P!Running
  <2>3. P!At("woken")' = P!At("woken") \cup {t} /\ t \notin P!At("woken") /\ P!At("asleep") # {}
    BY <1>3 DEF P!Spurious, P!At, PInv, P!TypeOK
  <2>4. Cardinality(P!At("woken")') = Cardinality(P!At("woken")) + 1
    BY <2>3, FiniteAt, FS_AddElement
  <2>5. Cardinality(P!At("woken")) >= Cardinality(pIdle) /\ pIdle' = pIdle
    BY <2>3, <1>3, OneCardinality DEF PInv, P!NoLostWakeup, P!Spurious
  <2> QED BY <2>1, <2>2, <2>4, <2>5, FiniteAt, FiniteIdle, OneCardinality DEF PInv, P!NoLostWakeup
<1>4. ASSUME NEW t \in Thread, P!Add(t) \/ P!ChecksDone(t) \/ P!Join(t) \/ P!Joined(t) PROVE PInv'
  <2>1. P!TypeOK' /\ UNCHANGED <<pIdle, pQueueOf>>
    BY <1>4, Zenon DEF P!Add, P!ChecksDone, P!Join, P!Joined, PInv, P!TypeOK
  <2>2. P!At("woken")' = P!At("woken") /\ P!At("asleep")' = P!At("asleep")
    BY <1>4 DEF P!Add, P!ChecksDone, P!Join, P!Joined, PInv, P!TypeOK, P!At
  <2>3. \A u \in Thread : (pQueueOf[u] # NoQueue <=> pPc'[u] \in {"open", "joined", "return"})
    BY <1>4 DEF P!Add, P!ChecksDone, P!Join, P!Joined, PInv, P!TypeOK, P!QueuesPartitioned
  <2>4. \A u \in Thread : pPc'[u] \in {"out", "return"} => ~pTodo'[u]
    BY <1>4 DEF P!Add, P!ChecksDone, P!Join, P!Joined, PInv, P!TypeOK, P!QueuesPartitioned
  <2> QED BY <2>1, <2>2, <2>3, <2>4, QuietKeeps
<1>5. ASSUME NEW t \in Thread, P!ReturnQueueToPool(t) PROVE PInv'
  BY <1>5, ReturnKeeps
<1>6. ASSUME P!BeginDestroy \/ P!EndDestroy \/ UNCHANGED P!vars PROVE PInv'
  <2>1. UNCHANGED <<pIdle, pQueueOf, pPc, pTodo>>
    BY <1>6 DEF P!BeginDestroy, P!EndDestroy, P!vars
  <2>2. P!TypeOK'
    BY <1>6, Zenon DEF P!BeginDestroy, P!EndDestroy, P!vars, PInv, P!TypeOK, P!Running
  <2> QED BY <2>1, <2>2, QuietKeeps DEF PInv, P!QueuesPartitioned, P!At
<1> QED BY <1>1, <1>2, <1>3, <1>4, <1>5, <1>6 DEF P!Next, P!Step

\* The invariant holds in every state of the pool.
THEOREM Invariance == P!Spec => []PInv
BY PInit, PNext, PTL DEF P!Spec

\* GetChecker and ReturnQueueToPool never lend a queue twice nor lose one, and the state of the
\* pool stays well typed.
THEOREM NeverLentTwice == P!Spec => []QueuesPartitioned
<1>1. PInv => QueuesPartitioned
  BY DEF PInv, QueuesPartitioned
<1> QED BY <1>1, Invariance, PTL

\* No thread sleeps in GetChecker beside an idle queue, for any number of threads.
THEOREM NoThreadForgotten == P!Spec => []NoLostWakeup
<1>1. PInv => NoLostWakeup
  BY DEF PInv, NoLostWakeup
<1> QED BY <1>1, Invariance, PTL
-----------------------------------------------------------------------------
(* The thread pool.                                                        *)

TInv == T!TypeOK /\ T!NoLostWakeup

\* The workers on their way to the queues form a finite set.
LEMMA ComingFinite ==
  IsFiniteSet(T!Coming) /\ Cardinality(T!Coming) \in Nat
<1>1. T!Coming \subseteq High \cup Low
  BY DEF T!Coming, T!At, T!Workers
<1> QED BY <1>1, ThreadsAssumption, FS_Subset, FS_CardinalityType

\* The queues grow and shrink by one task at a time.
LEMMA QueuedSteps ==
  ASSUME T!TypeOK
  PROVE  /\ Len(tStd) \in Nat /\ Len(tNonStd) \in Nat /\ T!Queued \in Nat
         /\ \A t \in Urgent : Append(tStd, t) \in Seq(Urgent) /\ Len(Append(tStd, t)) = Len(tStd) + 1
         /\ \A t \in Submitted \ Urgent : /\ Append(tNonStd, t) \in Seq(Submitted \ Urgent)
                                          /\ Len(Append(tNonStd, t)) = Len(tNonStd) + 1
         /\ tStd # <<>> => /\ Head(tStd) \in Urgent /\ Tail(tStd) \in Seq(Urgent)
                           /\ Len(Tail(tStd)) = Len(tStd) - 1
         /\ tNonStd # <<>> => /\ Head(tNonStd) \in Submitted \ Urgent
                              /\ Tail(tNonStd) \in Seq(Submitted \ Urgent)
                              /\ Len(Tail(tNonStd)) = Len(tNonStd) - 1
<1>1. tStd \in Seq(Urgent) /\ tNonStd \in Seq(Submitted \ Urgent)
  BY DEF T!TypeOK
<1>2. /\ Len(tStd) \in Nat /\ \A t \in Urgent : Append(tStd, t) \in Seq(Urgent) /\ Len(Append(tStd, t)) = Len(tStd) + 1
      /\ tStd # <<>> => /\ Head(tStd) \in Urgent /\ Tail(tStd) \in Seq(Urgent)
                        /\ Len(Tail(tStd)) = Len(tStd) - 1
  BY <1>1
<1>3. /\ Len(tNonStd) \in Nat
      /\ \A t \in Submitted \ Urgent : /\ Append(tNonStd, t) \in Seq(Submitted \ Urgent)
                                       /\ Len(Append(tNonStd, t)) = Len(tNonStd) + 1
      /\ tNonStd # <<>> => /\ Head(tNonStd) \in Submitted \ Urgent
                           /\ Tail(tNonStd) \in Seq(Submitted \ Urgent)
                           /\ Len(Tail(tNonStd)) = Len(tNonStd) - 1
  BY <1>1
<1>4. Len(tStd) \in Nat /\ Len(tNonStd) \in Nat
  BY <1>2, <1>3
<1>5. T!Queued \in Nat
  BY <1>4 DEF T!Queued
<1> QED BY <1>2, <1>3, <1>4, <1>5, Zenon

\* The number of queued tasks, alone.
LEMMA QueuedNat == T!TypeOK => T!Queued \in Nat
BY QueuedSteps

\* What is left to show once the types are kept.
LEMMA WakeupKept ==
  ASSUME T!TypeOK',
         tRunning' /\ ~tPaused' /\ T!At("asleep")' # {} => Cardinality(T!Coming') >= T!Queued'
  PROVE  TInv'
BY OneCardinality, Zenon DEF TInv, T!NoLostWakeup

\* A pool starts with no task and every worker on its way to the queues.
LEMMA TInit == T!Init => TInv
<1> SUFFICES ASSUME T!Init PROVE TInv
  OBVIOUS
<1>1. T!TypeOK
  <2>1. tStd \in Seq(Urgent) /\ tNonStd \in Seq(Submitted \ Urgent)
    BY DEF T!Init
  <2>2. tPauses \in 0..MaxPauses
    BY ThreadsAssumption DEF T!Init
  <2>3. /\ tPc \in [T!Workers -> {"top", "asleep", "woken", "busy", "end"}]
        /\ tJob \in [T!Workers -> Submitted \cup {T!NoTask}]
        /\ \A w \in T!Workers : tJob[w] # T!NoTask <=> tPc[w] = "busy"
        /\ tFut \in [Submitted -> {"new", "refused", "pending", "ready", "broken"}]
    BY DEF T!Init
  <2>4. tRunning \in BOOLEAN /\ tPaused \in BOOLEAN
    BY Zenon DEF T!Init
  <2> QED BY <2>1, <2>2, <2>3, <2>4 DEF T!TypeOK
<1>2. T!At("asleep") = {}
  BY DEF T!Init, T!At
<1> QED BY <1>1, <1>2 DEF TInv, T!NoLostWakeup

\* submit adds a task and notifies a sleeping worker, if there is one.
LEMMA SubmitKeeps ==
  ASSUME TInv, NEW t \in Submitted, T!Submit(t)
  PROVE  TInv'
<1> USE DEF TInv
<1>1. CASE ~tRunning
  <2>1. T!TypeOK'
    BY <1>1 DEF T!Submit, T!TypeOK
  <2>2. ~tRunning'
    BY <1>1 DEF T!Submit
  <2> QED BY <2>1, <2>2 DEF T!NoLostWakeup
<1>2. CASE tRunning
  <2>0. /\ tStd' = IF t \in Urgent THEN Append(tStd, t) ELSE tStd
        /\ tNonStd' = IF t \in Urgent THEN tNonStd ELSE Append(tNonStd, t)
        /\ tFut' = [tFut EXCEPT ![t] = "pending"]
        /\ \/ T!At("asleep") = {} /\ tPc' = tPc
           \/ \E w \in T!At("asleep") : tPc' = [tPc EXCEPT ![w] = "woken"]
        /\ UNCHANGED <<tRunning, tPaused, tJob, tPauses>>
    BY <1>2 DEF T!Submit
  <2>1. T!Queued' = T!Queued + 1 /\ tStd' \in Seq(Urgent) /\ tNonStd' \in Seq(Submitted \ Urgent)
    BY <2>0, QueuedSteps DEF T!Queued, T!TypeOK
  <2>2. CASE T!At("asleep") = {} /\ tPc' = tPc
    <3>1. T!TypeOK' /\ T!At("asleep")' = {}
      BY <2>0, <2>1, <2>2 DEF T!TypeOK, T!At
    <3> QED BY <3>1 DEF T!NoLostWakeup
  <2>3. CASE \E w \in T!At("asleep") : tPc' = [tPc EXCEPT ![w] = "woken"]
    <3> PICK w \in T!At("asleep") : tPc' = [tPc EXCEPT ![w] = "woken"]
      BY <2>3, Zenon
    <3>1. T!TypeOK'
      BY <2>0, <2>1 DEF T!TypeOK, T!At
    <3>2. /\ T!Coming' = T!Coming \cup {w}
          /\ w \notin T!Coming
      BY DEF T!Coming, T!At, T!TypeOK
    <3>3. Cardinality(T!Coming') = Cardinality(T!Coming) + 1
      BY <3>2, ComingFinite, FS_AddElement
    <3>4. ASSUME ~tPaused' PROVE Cardinality(T!Coming') >= T!Queued'
      <4>1. Cardinality(T!Coming) >= T!Queued
        BY <1>2, <2>0, <3>4, OneCardinality, Zenon DEF T!NoLostWakeup
      <4> QED BY <4>1, <3>3, <2>1, ComingFinite, QueuedNat
    <3> QED BY <3>1, <3>4, WakeupKept
  <2> QED BY <2>0, <2>2, <2>3
<1> QED BY <1>1, <1>2 DEF T!TypeOK

\* A worker at the top of its loop ends, goes to sleep or takes a task.
LEMMA WorkerKeeps ==
  ASSUME TInv, NEW w \in High \cup Low, T!WorkerLoop(w)
  PROVE  TInv'
<1> USE DEF TInv
<1>0. /\ tPc[w] \in {"top", "woken"} /\ tJob[w] = "none"
      /\ UNCHANGED <<tRunning, tPaused, tFut, tPauses>>
  BY DEF T!WorkerLoop, T!TypeOK, T!Workers, T!NoTask
<1>1. CASE ~tRunning
  <2>1. T!TypeOK'
    BY <1>0, <1>1 DEF T!WorkerLoop, T!TypeOK, T!Workers, T!NoTask
  <2> QED BY <1>0, <1>1, <2>1 DEF T!NoLostWakeup
<1>2. CASE tRunning /\ (T!Queued = 0 \/ tPaused)
  <2>1. T!TypeOK' /\ tStd' = tStd /\ tNonStd' = tNonStd
    BY <1>0, <1>2, QueuedSteps DEF T!WorkerLoop, T!TypeOK, T!Workers, T!NoTask
  <2>2. IsFiniteSet(T!Coming')
    <3>1. T!Coming' \subseteq High \cup Low
      BY DEF T!Coming, T!At, T!Workers
    <3> QED BY <3>1, ThreadsAssumption, FS_Subset
  <2>3. Cardinality(T!Coming') \in Nat
    BY <2>2, FS_CardinalityType
  <2>4. ASSUME ~tPaused' PROVE Cardinality(T!Coming') >= T!Queued'
    <3>1. T!Queued' = 0
      BY <1>0, <1>2, <2>1, <2>4, Zenon DEF T!Queued
    <3> QED BY <3>1, <2>3
  <2> QED BY <2>1, <2>4, WakeupKept
<1>3. CASE tRunning /\ T!Queued > 0 /\ ~tPaused
  <2>0. /\ tPc' = [tPc EXCEPT ![w] = "busy"]
        /\ IF T!Pop(w) = "std"
           THEN tJob' = [tJob EXCEPT ![w] = Head(tStd)] /\ tStd' = Tail(tStd) /\ UNCHANGED tNonStd
           ELSE tJob' = [tJob EXCEPT ![w] = Head(tNonStd)] /\ tNonStd' = Tail(tNonStd) /\ UNCHANGED tStd
    BY <1>3, QueuedSteps DEF T!WorkerLoop
  <2>1. IF T!Pop(w) = "std" THEN tStd # <<>> ELSE tNonStd # <<>>
    BY <1>3 DEF T!Pop, T!Queued
  <2>2. /\ tStd' \in Seq(Urgent) /\ tNonStd' \in Seq(Submitted \ Urgent) /\ T!Queued' = T!Queued - 1
        /\ \E k \in Submitted : tJob' = [tJob EXCEPT ![w] = k]
    <3>0. tStd \in Seq(Urgent) /\ tNonStd \in Seq(Submitted \ Urgent) /\ Urgent \subseteq Submitted
      BY ThreadsAssumption DEF T!TypeOK
    <3>1. CASE T!Pop(w) = "std"
      <4>1. /\ Head(tStd) \in Urgent /\ Tail(tStd) \in Seq(Urgent)
            /\ Len(Tail(tStd)) = Len(tStd) - 1 /\ Len(tStd) \in Nat /\ Len(tNonStd) \in Nat
        BY <3>1, <2>1, QueuedSteps
      <4>2. tJob' = [tJob EXCEPT ![w] = Head(tStd)] /\ tStd' = Tail(tStd) /\ tNonStd' = tNonStd
        BY <3>1, <2>0
      <4>3. T!Queued' = T!Queued - 1
        BY <4>1, <4>2 DEF T!Queued
      <4> QED BY <3>0, <4>1, <4>2, <4>3, Zenon
    <3>2. CASE T!Pop(w) # "std"
      <4>1. /\ Head(tNonStd) \in Submitted /\ Tail(tNonStd) \in Seq(Submitted \ Urgent)
            /\ Len(Tail(tNonStd)) = Len(tNonStd) - 1 /\ Len(tStd) \in Nat /\ Len(tNonStd) \in Nat
        BY <3>2, <2>1, QueuedSteps
      <4>2. tJob' = [tJob EXCEPT ![w] = Head(tNonStd)] /\ tNonStd' = Tail(tNonStd) /\ tStd' = tStd
        BY <3>2, <2>0
      <4>3. T!Queued' = T!Queued - 1
        BY <4>1, <4>2 DEF T!Queued
      <4> QED BY <3>0, <4>1, <4>2, <4>3, Zenon
    <3> QED BY <3>1, <3>2
  <2>3. T!TypeOK'
    <3> PICK k \in Submitted : tJob' = [tJob EXCEPT ![w] = k]
      BY <2>2, Zenon
    <3> QED BY <1>0, <2>0, <2>2, ThreadsAssumption DEF T!TypeOK, T!NoTask, T!Workers
  <2>4. /\ T!Coming' = T!Coming \ {w}
        /\ w \in T!Coming /\ T!At("asleep")' = T!At("asleep")
    BY <1>0, <2>0 DEF T!Coming, T!At, T!TypeOK, T!Workers
  <2>5. Cardinality(T!Coming') = Cardinality(T!Coming) - 1
    BY <2>4, ComingFinite, FS_RemoveElement
  <2>6. ASSUME T!At("asleep")' # {} PROVE Cardinality(T!Coming') >= T!Queued'
    <3>1. Cardinality(T!Coming) >= T!Queued
      BY <1>3, <2>4, <2>6, OneCardinality, Zenon DEF T!NoLostWakeup
    <3> QED BY <3>1, <2>2, <2>5, ComingFinite, QueuedNat
  <2> QED BY <2>3, <2>6, WakeupKept
<1> QED BY <1>1, <1>2, <1>3, QueuedSteps DEF T!TypeOK

\* A wake-up or the end of a task sends a worker on its way to the queues.
LEMMA ComesKeeps ==
  ASSUME TInv, T!TypeOK', NEW w \in High \cup Low, UNCHANGED <<tStd, tNonStd, tRunning, tPaused>>,
         tPc[w] \in {"asleep", "busy"}, tRunning => tPc'[w] \in {"woken", "top"},
         \A v \in High \cup Low : v # w => tPc'[v] = tPc[v]
  PROVE  TInv'
<1> USE DEF TInv
<1>1. CASE ~tRunning
  BY <1>1 DEF T!NoLostWakeup
<1>2. CASE tRunning
  <2>1. /\ T!Coming' = T!Coming \cup {w}
        /\ w \notin T!Coming /\ T!At("asleep")' \subseteq T!At("asleep")
    BY <1>2 DEF T!Coming, T!At, T!TypeOK, T!Workers
  <2>2. Cardinality(T!Coming') = Cardinality(T!Coming) + 1
    BY <2>1, ComingFinite, FS_AddElement, Zenon
  <2>3. T!Queued' = T!Queued
    BY DEF T!Queued
  <2>4. ASSUME ~tPaused', T!At("asleep")' # {} PROVE Cardinality(T!Coming') >= T!Queued'
    <3>1. Cardinality(T!Coming) >= T!Queued
      BY <1>2, <2>1, <2>4, OneCardinality, Zenon DEF T!NoLostWakeup
    <3> QED BY <3>1, <2>2, <2>3, ComingFinite, QueuedNat
  <2> QED BY <2>4, WakeupKept
<1> QED BY <1>1, <1>2 DEF T!TypeOK

\* Every step of submit, of the workers, of pause, run and of the destructor.
LEMMA TNext == TInv /\ [T!Next]_(T!vars) => TInv'
<1> SUFFICES ASSUME TInv, [T!Next]_(T!vars) PROVE TInv'
  OBVIOUS
<1> USE DEF TInv
<1>1. ASSUME NEW t \in Submitted, T!Submit(t) PROVE TInv'
  BY <1>1, SubmitKeeps
<1>2. ASSUME NEW w \in High \cup Low, T!WorkerLoop(w) PROVE TInv'
  BY <1>2, WorkerKeeps
<1>3. ASSUME NEW w \in High \cup Low, T!Spurious(w) PROVE TInv'
  <2>1. T!TypeOK' /\ UNCHANGED <<tStd, tNonStd, tRunning, tPaused>> /\ tPc[w] = "asleep"
        /\ tPc' = [tPc EXCEPT ![w] = "woken"]
    BY <1>3 DEF T!Spurious, T!TypeOK, T!Workers
  <2>2. tPc'[w] = "woken" /\ \A v \in High \cup Low : v # w => tPc'[v] = tPc[v]
    BY <2>1 DEF T!TypeOK, T!Workers
  <2> QED BY <2>1, <2>2, ComesKeeps
<1>4. ASSUME NEW w \in High \cup Low, T!Done(w) PROVE TInv'
  <2>0. tPc[w] = "busy" /\ tJob[w] \in Submitted
    BY <1>4 DEF T!Done, T!TypeOK, T!Workers
  <2>1. T!TypeOK' /\ UNCHANGED <<tStd, tNonStd, tRunning, tPaused>>
    BY <1>4, <2>0 DEF T!Done, T!TypeOK, T!Workers
  <2>2. /\ tRunning => tPc'[w] = "top"
        /\ \A v \in High \cup Low : v # w => tPc'[v] = tPc[v]
    BY <1>4 DEF T!Done, T!TypeOK, T!Workers
  <2> QED BY <2>0, <2>1, <2>2, ComesKeeps
<1>5. CASE T!Pause
  <2>1. T!TypeOK' /\ tPaused'
    BY <1>5, ThreadsAssumption DEF T!Pause, T!TypeOK
  <2> QED BY <2>1 DEF T!NoLostWakeup
<1>6. CASE T!Run \/ T!Destroy
  <2>1. T!TypeOK'
    BY <1>6, Zenon DEF T!Run, T!Destroy, T!TypeOK
  <2>2. T!At("asleep")' = {}
    BY <1>6 DEF T!Run, T!Destroy, T!TypeOK, T!At
  <2> QED BY <2>1, <2>2 DEF T!NoLostWakeup
<1>7. CASE T!Joined
  <2>1. T!TypeOK' /\ ~tRunning'
    BY <1>7 DEF T!Joined, T!JoinedNow, T!TypeOK
  <2> QED BY <2>1 DEF T!NoLostWakeup
<1>8. CASE UNCHANGED T!vars
  <2>1. T!TypeOK'
    BY <1>8, Zenon DEF T!vars, T!TypeOK
  <2>2. T!Coming' = T!Coming /\ T!Queued' = T!Queued /\ T!At("asleep")' = T!At("asleep")
    BY <1>8, Zenon DEF T!vars, T!Coming, T!At, T!Queued
  <2> QED BY <1>8, <2>1, <2>2, Zenon DEF T!vars, T!NoLostWakeup
<1> QED BY <1>1, <1>2, <1>3, <1>4, <1>5, <1>6, <1>7, <1>8 DEF T!Next, T!Workers

\* No worker of a thread pool sleeps beside a task it was notified of, whatever is submitted,
\* paused and resumed meanwhile: submit's notify_one is enough.
THEOREM NoTaskIsForgotten == T!Spec => []NoTaskForgotten
<1>1. TInv => NoTaskForgotten
  BY DEF TInv, NoTaskForgotten
<1> QED BY <1>1, TInit, TNext, PTL DEF T!Spec
-----------------------------------------------------------------------------
(* The scheduler.                                                          *)

SInv == S!TypeOK /\ S!TasksOnce /\ S!NoOversleep

Sorted(q)  == \A i, j \in DOMAIN q : i < j => q[i].time <= q[j].time
OneEach(q) == \A i, j \in DOMAIN q : i < j => q[i].task # q[j].task
Has(q, k)  == \E i \in DOMAIN q : q[i].task = k

\* Every nonempty set of numbers has a least element.
LEMMA LeastNat ==
  ASSUME NEW N \in SUBSET Nat, N # {}
  PROVE  \E n \in N : \A m \in N : n <= m
<1> DEFINE R == {ss \in Nat \X Nat : ss[1] < ss[2]}
<1>1. IsWellFoundedOn(R, Nat)
  BY NatLessThanWellFounded, SMT DEF OpToRel
<1>2. PICK n \in N : \A m \in N : <<m, n>> \notin R
  BY <1>1, WFMin, Zenon
<1>3. \A m \in N : m \in Nat /\ n \in Nat /\ ~(m < n)
  BY <1>2, Zenon
<1> QED  BY <1>3

\* multimap::insert has a place for the new entry: behind the last one that is not later.
LEMMA InsertPlace ==
  ASSUME NEW q \in Seq(S!Entry), Sorted(q), NEW e \in S!Entry
  PROVE  \E n \in 0..Len(q) : /\ \A i \in 1..n : q[i].time <= e.time
                              /\ \A i \in (n + 1)..Len(q) : q[i].time > e.time
<1>0. Len(q) \in Nat /\ DOMAIN q = 1..Len(q) /\ \A i \in 1..Len(q) : q[i] \in S!Entry
  OBVIOUS
<1>1. e.time \in Int /\ \A i \in 1..Len(q) : q[i].time \in Int
  BY <1>0, ThreadsAssumption DEF S!Entry
<1> DEFINE K == {k \in 1..(Len(q) + 1) : k = Len(q) + 1 \/ q[k].time > e.time}
<1>2. K \in SUBSET Nat /\ Len(q) + 1 \in K
  BY <1>0
<1>3. PICK k \in K : \A m \in K : k <= m
  BY <1>2, LeastNat, Zenon
<1>4. k \in 1..(Len(q) + 1) /\ (k = Len(q) + 1 \/ q[k].time > e.time)
  OBVIOUS
<1>5. ASSUME NEW i \in 1..(k - 1) PROVE q[i].time <= e.time
  <2>1. i \in 1..Len(q) /\ i < k
    BY <1>0, <1>4
  <2>2. i \notin K
    BY <1>0, <1>3, <1>4, <2>1
  <2> QED BY <1>0, <1>1, <2>1, <2>2
<1>6. ASSUME NEW i \in k..Len(q) PROVE q[i].time > e.time
  <2>1. i \in 1..Len(q) /\ k \in 1..Len(q) /\ q[k].time > e.time
    BY <1>0, <1>4
  <2>2. q[k].time <= q[i].time
    BY <1>0, <1>1, <2>1 DEF Sorted
  <2> QED BY <1>1, <2>1, <2>2
<1>7. k - 1 \in 0..Len(q) /\ (k - 1) + 1 = k
  BY <1>0, <1>4
<1> QED BY <1>5, <1>6, <1>7, Zenon

\* A task that is not in the queue is in it once afterwards, and the order is kept.
LEMMA InsertKeeps ==
  ASSUME NEW q \in Seq(S!Entry), Sorted(q), OneEach(q), NEW e \in S!Entry, ~Has(q, e.task)
  PROVE  /\ S!Insert(q, e) \in Seq(S!Entry) /\ Sorted(S!Insert(q, e)) /\ OneEach(S!Insert(q, e))
         /\ \A k : Has(S!Insert(q, e), k) <=> k = e.task \/ Has(q, k)
<1> DEFINE Place(n) == /\ \A i \in 1..n : q[i].time <= e.time
                       /\ \A i \in (n + 1)..Len(q) : q[i].time > e.time
           n == CHOOSE n \in 0..Len(q) : Place(n)
           r == S!Insert(q, e)
<1>1. n \in 0..Len(q) /\ Place(n)
  BY InsertPlace, Zenon
<1>2. r = [i \in 1..(Len(q) + 1) |-> IF i <= n THEN q[i] ELSE IF i = n + 1 THEN e ELSE q[i - 1]]
  BY Zenon DEF S!Insert
<1> HIDE DEF n, r
<1>3. Len(q) \in Nat /\ n \in Nat /\ DOMAIN q = 1..Len(q) /\ \A i \in 1..Len(q) : q[i] \in S!Entry
  BY <1>1
<1>4. \A x \in S!Entry : x.time \in Int
  BY ThreadsAssumption DEF S!Entry
<1>5. r \in Seq(S!Entry) /\ DOMAIN r = 1..(Len(q) + 1)
  BY <1>1, <1>2, <1>3
<1>6. ASSUME NEW i \in DOMAIN r, NEW j \in DOMAIN r, i < j
      PROVE  r[i].time <= r[j].time /\ r[i].task # r[j].task
  <2>1. i \in 1..(Len(q) + 1) /\ j \in 1..(Len(q) + 1)
    BY <1>5, Zenon
  <2>2. CASE j <= n
    <3>1. i \in DOMAIN q /\ j \in DOMAIN q /\ r[i] = q[i] /\ r[j] = q[j]
      BY <1>1, <1>2, <1>3, <1>6, <2>1, <2>2
    <3> QED BY <1>6, <3>1 DEF Sorted, OneEach
  <2>3. CASE j = n + 1
    <3>1. i \in DOMAIN q /\ r[i] = q[i] /\ r[j] = e /\ q[i].time <= e.time
      BY <1>1, <1>2, <1>3, <1>6, <2>1, <2>3
    <3> QED BY <3>1 DEF Has
  <2>4. CASE j > n + 1
    <3>1. j - 1 \in DOMAIN q /\ r[j] = q[j - 1] /\ q[j - 1].time > e.time
      BY <1>1, <1>2, <1>3, <2>1, <2>4, SMTT(60), Z3T(60)
    <3>2. CASE i = n + 1
      <4>1. r[i] = e
        BY <1>2, <1>3, <2>1, <3>2
      <4> QED BY <1>3, <1>4, <3>1, <4>1 DEF Has
    <3>3. CASE i # n + 1
      <4> DEFINE h == IF i <= n THEN i ELSE i - 1
      <4>1. h \in DOMAIN q /\ r[i] = q[h] /\ h < j - 1
        BY <1>1, <1>2, <1>3, <1>6, <2>1, <2>4, <3>3, SMTT(60), Z3T(60)
      <4> HIDE DEF h
      <4> QED BY <3>1, <4>1 DEF Sorted, OneEach
    <3> QED BY <3>2, <3>3
  <2> QED BY <1>3, <2>1, <2>2, <2>3, <2>4
<1>7. ASSUME NEW k PROVE Has(r, k) <=> k = e.task \/ Has(q, k)
  <2>1. ASSUME NEW i \in DOMAIN r, r[i].task = k PROVE k = e.task \/ Has(q, k)
    BY <1>1, <1>2, <1>3, <1>5, <2>1 DEF Has
  <2>2. ASSUME NEW i \in DOMAIN q PROVE \E j \in DOMAIN r : r[j] = q[i]
    <3>1. CASE i <= n
      BY <1>1, <1>2, <1>3, <1>5, <3>1, SMTT(60), Z3T(60)
    <3>2. CASE i > n
      <4>1. i + 1 \in DOMAIN r /\ r[i + 1] = q[i]
        BY <1>1, <1>2, <1>3, <1>5, <3>2, SMTT(60), Z3T(60)
      <4> QED BY <4>1
    <3> QED BY <1>3, <3>1, <3>2
  <2>3. n + 1 \in DOMAIN r /\ r[n + 1] = e
    BY <1>1, <1>2, <1>3, <1>5
  <2> QED BY <2>1, <2>2, <2>3, ZenonT(60) DEF Has
<1>8. Sorted(r) /\ OneEach(r)
  BY <1>6, Zenon DEF Sorted, OneEach
<1> QED BY <1>5, <1>7, <1>8, Zenon DEF r

\* The two halves of TasksOnce: the queue, and the threads that run a task.
QueueOnce ==
  /\ Sorted(sQueue) /\ OneEach(sQueue)
  /\ \A k \in Timed : sState[k] = "queued" <=> Has(sQueue, k)
RunOnce ==
  /\ \A t \in Service : sJob[t] # S!NoJob <=> sPc[t] = "run"
  /\ \A k \in Timed : sState[k] = "running" <=> (\E t \in S!At({"run"}) : sJob[t].task = k)
  /\ \A t, u \in S!At({"run"}) : sJob[t].task = sJob[u].task => t = u

LEMMA Halves == S!TasksOnce <=> QueueOnce /\ RunOnce
<1>1. S!TasksOnce => QueueOnce
  BY ZenonT(60) DEF S!TasksOnce, QueueOnce, Sorted, OneEach, Has
<1>2. S!TasksOnce => RunOnce
  BY Zenon DEF S!TasksOnce, RunOnce
<1>3. QueueOnce /\ RunOnce => S!TasksOnce
  BY ZenonT(60) DEF S!TasksOnce, QueueOnce, RunOnce, Sorted, OneEach, Has
<1> QED BY <1>1, <1>2, <1>3

\* A task that is neither queued nor run is queued.
LEMMA QueueTask ==
  ASSUME S!TypeOK, QueueOnce, NEW k \in Timed, NEW d \in Nat, sNow + d <= MaxTime,
         sState[k] # "queued", sState' = [sState EXCEPT ![k] = "queued"],
         sQueue' = S!Insert(sQueue, [task |-> k, time |-> sNow + d])
  PROVE  /\ QueueOnce' /\ sQueue' \in Seq(S!Entry)
         /\ sState' \in [Timed -> {"new", "queued", "running", "done"}]
<1> DEFINE e == [task |-> k, time |-> sNow + d]
<1>1. e \in S!Entry /\ e.task = k
  BY ThreadsAssumption DEF S!Entry, S!TypeOK
<1> HIDE DEF e
<1>2. sQueue' = S!Insert(sQueue, e)
  BY DEF e
<1>3. sQueue \in Seq(S!Entry) /\ Sorted(sQueue) /\ OneEach(sQueue) /\ ~Has(sQueue, e.task)
  BY <1>1, Zenon DEF S!TypeOK, QueueOnce
<1>4. /\ sQueue' \in Seq(S!Entry) /\ Sorted(sQueue') /\ OneEach(sQueue')
      /\ \A x : Has(sQueue', x) <=> x = k \/ Has(sQueue, x)
  <2> DEFINE r == S!Insert(sQueue, e)
  <2>1. /\ r \in Seq(S!Entry) /\ Sorted(r) /\ OneEach(r)
        /\ \A x : Has(r, x) <=> x = e.task \/ Has(sQueue, x)
    BY <1>1, <1>3, InsertKeeps, Zenon
  <2> HIDE DEF r
  <2>2. sQueue' = r
    BY <1>2 DEF r
  <2> QED BY <1>1, <2>1, <2>2, Zenon
<1>5. \A x \in Timed : sState'[x] = "queued" <=> (x = k \/ sState[x] = "queued")
  BY DEF S!TypeOK
<1>6. sState' \in [Timed -> {"new", "queued", "running", "done"}]
  BY DEF S!TypeOK
<1>7. \A x \in Timed : sState'[x] = "queued" <=> Has(sQueue', x)
  BY <1>4, <1>5, Zenon DEF QueueOnce
<1>8. /\ Sorted(sQueue)' /\ OneEach(sQueue)'
      /\ \A x \in Timed : sState'[x] = "queued" <=> Has(sQueue, x)'
  BY <1>4, <1>7, Zenon DEF Sorted, OneEach, Has
<1> QED BY <1>4, <1>6, <1>8, Zenon DEF QueueOnce

\* The threads that run a task stay, and so do their tasks.
LEMMA RunKept ==
  ASSUME RunOnce, UNCHANGED sJob, \A t \in Service : sPc'[t] = "run" <=> sPc[t] = "run",
         \A k \in Timed : sState'[k] = "running" <=> sState[k] = "running"
  PROVE  RunOnce'
<1>1. S!At({"run"})' = S!At({"run"})
  BY DEF S!At
<1>2. \A t \in Service : sJob[t] # S!NoJob <=> sPc'[t] = "run"
  BY Zenon DEF RunOnce
<1>3. \A k \in Timed : sState'[k] = "running" <=> (\E t \in S!At({"run"}) : sJob[t].task = k)
  BY Zenon DEF RunOnce
<1> QED BY <1>1, <1>2, <1>3 DEF RunOnce, S!NoJob

\* A thread that is awake oversleeps nothing.
LEMMA Awake ==
  ASSUME NEW t \in Service, sPc'[t] \notin {"wait", "timed"}
  PROVE  S!NoOversleep'
BY DEF S!NoOversleep

\* notify_one wakes a thread, if one sleeps, and leaves the others where they are.
LEMMA Notified ==
  ASSUME NEW f, f \in [Service -> {"top", "wait", "timed", "woken", "late", "run", "end"}],
         NEW g, g \in S!NotifyOne(f)
  PROVE  /\ g \in [Service -> {"top", "wait", "timed", "woken", "late", "run", "end"}]
         /\ \E t \in Service : g[t] \notin {"wait", "timed"}
         /\ \A t \in Service : g[t] = "run" <=> f[t] = "run"
<1> DEFINE Z == {t \in Service : f[t] \in {"wait", "timed"}}
<1>1. CASE Z = {}
  <2>1. g = f
    BY <1>1, Zenon DEF S!NotifyOne
  <2>2. PICK t \in Service : TRUE
    BY ThreadsAssumption
  <2> QED BY <1>1, <2>1, <2>2
<1>2. CASE Z # {}
  <2>1. PICK w \in Z : g = [f EXCEPT ![w] = "woken"]
    BY <1>2, Zenon DEF S!NotifyOne
  <2>2. w \in Service /\ g[w] = "woken" /\ f[w] # "run"
    BY <2>1
  <2> QED BY <2>1, <2>2
<1> QED BY <1>1, <1>2, Zenon

LEMMA SInit == S!Init => SInv
<1> SUFFICES ASSUME S!Init PROVE SInv
  OBVIOUS
<1>1. S!TypeOK
  BY ThreadsAssumption DEF S!Init, S!TypeOK, S!NoJob
<1>2. QueueOnce
  BY DEF S!Init, QueueOnce, Sorted, OneEach, Has
<1>3. RunOnce
  BY DEF S!Init, RunOnce, S!At
<1>4. S!NoOversleep
  BY DEF S!Init, S!NoOversleep, S!Empty
<1> QED BY <1>1, <1>2, <1>3, <1>4, Halves DEF SInv

\* schedule notifies a thread, so that somebody looks at the queue again.
LEMMA ScheduleKeeps ==
  ASSUME SInv, NEW k \in Timed, NEW d \in 0..2, S!Schedule(k, d)
  PROVE  SInv'
<1> USE DEF SInv
<1>1. QueueOnce /\ RunOnce
  BY Halves
<1>2. /\ sState[k] = "new" /\ sNow + d <= MaxTime
      /\ sQueue' = S!Insert(sQueue, [task |-> k, time |-> sNow + d])
      /\ sState' = [sState EXCEPT ![k] = "queued"] /\ sPc' \in S!NotifyOne(sPc)
      /\ UNCHANGED <<sNow, sUntil, sJob>>
  BY Zenon DEF S!Schedule
<1>3. /\ QueueOnce' /\ sQueue' \in Seq(S!Entry)
      /\ sState' \in [Timed -> {"new", "queued", "running", "done"}]
  <2>1. d \in Nat /\ sState[k] # "queued" /\ S!TypeOK
    BY <1>2
  <2> QED BY <1>1, <1>2, <2>1, QueueTask, Zenon
<1>4. /\ sPc' \in [Service -> {"top", "wait", "timed", "woken", "late", "run", "end"}]
      /\ \E t \in Service : sPc'[t] \notin {"wait", "timed"}
      /\ \A t \in Service : sPc'[t] = "run" <=> sPc[t] = "run"
  BY <1>2, Notified, ZenonT(60) DEF S!TypeOK
<1>5. S!TypeOK'
  BY <1>2, <1>3, <1>4, Zenon DEF S!TypeOK, S!Entry, S!NoJob
<1>6. \A x \in Timed : sState'[x] = "running" <=> sState[x] = "running"
  BY <1>2 DEF S!TypeOK
<1>7. RunOnce'
  BY <1>1, <1>2, <1>4, <1>6, RunKept
<1>8. S!NoOversleep'
  BY <1>4, Awake
<1> QED BY <1>3, <1>5, <1>7, <1>8, Halves, PTL

\* The steps of a thread that touch neither the queue nor its task.
LEMMA QuietStep ==
  ASSUME SInv, UNCHANGED <<sQueue, sJob, sState>>, S!NoOversleep', sNow' \in 0..MaxTime,
         sPc' \in [Service -> {"top", "wait", "timed", "woken", "late", "run", "end"}],
         sUntil' \in [Service -> 0..MaxTime],
         \A t \in Service : sPc'[t] = "run" <=> sPc[t] = "run"
  PROVE  SInv'
<1>1. QueueOnce /\ RunOnce /\ S!TypeOK
  BY Halves DEF SInv
<1>2. S!TypeOK'
  BY <1>1, Zenon DEF S!TypeOK, S!Entry, S!NoJob
<1>3. QueueOnce'
  BY <1>1, ZenonT(60) DEF QueueOnce, Sorted, OneEach, Has
<1>4. RunOnce'
  BY <1>1, RunKept
<1> QED BY <1>2, <1>3, <1>4, Halves, PTL DEF SInv

LEMMA EvaluateKeeps ==
  ASSUME SInv, NEW t \in Service, S!Evaluate(t)
  PROVE  SInv'
<1>1. /\ S!TypeOK /\ sPc[t] \in {"top", "woken"}
      /\ UNCHANGED <<sQueue, sNow, sStop, sDrain, sJob, sState>>
  BY Zenon DEF SInv, S!Evaluate
<1>2. CASE sPc' \in S!NotifyOne([sPc EXCEPT ![t] = "end"]) /\ UNCHANGED sUntil
  <2> DEFINE f == [sPc EXCEPT ![t] = "end"]
  <2>1. /\ f \in [Service -> {"top", "wait", "timed", "woken", "late", "run", "end"}]
        /\ \A u \in Service : f[u] = "run" <=> sPc[u] = "run"
    BY <1>1 DEF S!TypeOK
  <2> HIDE DEF f
  <2>2. sPc' \in S!NotifyOne(f)
    BY <1>2 DEF f
  <2>3. /\ sPc' \in [Service -> {"top", "wait", "timed", "woken", "late", "run", "end"}]
        /\ \E u \in Service : sPc'[u] \notin {"wait", "timed"}
        /\ \A u \in Service : sPc'[u] = "run" <=> f[u] = "run"
    BY <2>1, <2>2, Notified, Zenon
  <2>4. S!NoOversleep'
    BY <2>3, Awake
  <2> QED BY <1>1, <1>2, <2>1, <2>3, <2>4, QuietStep, SMTT(60), Z3T(60) DEF S!TypeOK
<1>3. CASE S!Empty /\ sPc' = [sPc EXCEPT ![t] = "wait"] /\ UNCHANGED sUntil
  <2>1. S!NoOversleep'
    BY <1>1, <1>3 DEF S!NoOversleep, S!Empty
  <2> QED BY <1>1, <1>3, <2>1, QuietStep DEF S!TypeOK
<1>4. CASE /\ ~S!Empty /\ sPc' = [sPc EXCEPT ![t] = "timed"]
           /\ sUntil' = [sUntil EXCEPT ![t] = Head(sQueue).time]
  <2>1. Head(sQueue) \in S!Entry
    BY <1>1, <1>4 DEF S!TypeOK, S!Empty
  <2>2. Head(sQueue).time \in 0..MaxTime
    BY <2>1 DEF S!Entry
  <2>3. sPc'[t] = "timed" /\ sUntil'[t] = Head(sQueue).time
    BY <1>1, <1>4 DEF S!TypeOK
  <2>4. S!NoOversleep'
    BY <1>1, <2>2, <2>3, ThreadsAssumption DEF S!NoOversleep
  <2> QED BY <1>1, <1>4, <2>2, <2>4, QuietStep, SMTT(60), Z3T(60) DEF S!TypeOK
<1> QED BY <1>2, <1>3, <1>4, Zenon DEF S!Evaluate

\* What is first in the queue is taken from it; no thread runs it yet.
LEMMA TakeTask ==
  ASSUME SInv, NEW t \in Service, sPc[t] = "late", ~S!Empty,
         sJob' = [sJob EXCEPT ![t] = Head(sQueue)], sQueue' = Tail(sQueue),
         sState' = [sState EXCEPT ![Head(sQueue).task] = "running"],
         sPc' = [sPc EXCEPT ![t] = "run"], UNCHANGED <<sNow, sUntil>>
  PROVE  SInv'
<1> DEFINE e == Head(sQueue)
<1>1. QueueOnce /\ RunOnce /\ S!TypeOK
  BY Halves DEF SInv
<1>2. /\ sQueue \in Seq(S!Entry) /\ Len(sQueue) \in Nat \ {0}
      /\ e = sQueue[1] /\ 1 \in DOMAIN sQueue
      /\ sQueue' \in Seq(S!Entry) /\ DOMAIN sQueue = 1..Len(sQueue)
      /\ DOMAIN sQueue' = 1..(Len(sQueue) - 1)
      /\ \A i \in 1..(Len(sQueue) - 1) : sQueue'[i] = sQueue[i + 1]
  BY <1>1 DEF S!TypeOK, S!Empty
<1>3. e \in S!Entry
  BY <1>2
<1>4. e.task \in Timed /\ e # S!NoJob
  BY <1>3, ThreadsAssumption DEF S!Entry, S!NoJob
<1> HIDE DEF e
<1>5. /\ sJob' = [sJob EXCEPT ![t] = e] /\ sState' = [sState EXCEPT ![e.task] = "running"]
  BY SMTT(60), Z3T(60) DEF e
<1>6. S!TypeOK'
  BY <1>1, <1>2, <1>3, <1>4, <1>5 DEF S!TypeOK
<1>7. Has(sQueue, e.task) /\ sState[e.task] = "queued"
  BY <1>1, <1>2, <1>4, Zenon DEF Has, QueueOnce
<1>8. QueueOnce'
  <2>1. ASSUME NEW i \in DOMAIN sQueue', NEW j \in DOMAIN sQueue', i < j
        PROVE  sQueue'[i].time <= sQueue'[j].time /\ sQueue'[i].task # sQueue'[j].task
    <3>1. /\ i + 1 \in DOMAIN sQueue /\ j + 1 \in DOMAIN sQueue /\ i + 1 < j + 1
          /\ sQueue'[i] = sQueue[i + 1] /\ sQueue'[j] = sQueue[j + 1]
      BY <1>2, <2>1
    <3> QED BY <1>1, <3>1 DEF QueueOnce, Sorted, OneEach
  <2>2. ASSUME NEW k \in Timed
        PROVE  sState'[k] = "queued" <=> Has(sQueue, k)'
    <3>1. sState'[k] = "queued" <=> k # e.task /\ sState[k] = "queued"
      BY <1>1, <1>4, <1>5, SMTT(60), Z3T(60) DEF S!TypeOK
    <3>2. ASSUME Has(sQueue, k)' PROVE k # e.task /\ Has(sQueue, k)
      <4>1. PICK i \in DOMAIN sQueue' : sQueue'[i].task = k
        BY <3>2 DEF Has
      <4>2. i + 1 \in DOMAIN sQueue /\ 1 < i + 1 /\ sQueue[i + 1].task = k
        BY <1>2, <4>1
      <4> QED BY <1>1, <1>2, <4>2, SMTT(60), Z3T(60) DEF QueueOnce, OneEach, Has
    <3>3. ASSUME Has(sQueue, k), k # e.task PROVE Has(sQueue, k)'
      <4>1. PICK i \in DOMAIN sQueue : sQueue[i].task = k
        BY <3>3 DEF Has
      <4>2. i - 1 \in DOMAIN sQueue' /\ sQueue'[i - 1] = sQueue[i]
        <5>1. i # 1
          BY <1>2, <3>3, <4>1
        <5>2. i - 1 \in 1..(Len(sQueue) - 1) /\ (i - 1) + 1 = i
          BY <1>2, <4>1, <5>1
        <5> QED BY <1>2, <5>2
      <4> QED BY <4>1, <4>2 DEF Has
    <3> QED BY <1>1, <3>1, <3>2, <3>3, ZenonT(60) DEF QueueOnce
  <2> QED BY <2>1, <2>2, ZenonT(60) DEF QueueOnce, Sorted, OneEach
<1>9. RunOnce'
  <2>1. /\ sPc'[t] = "run" /\ sJob'[t] = e
        /\ \A u \in Service : u # t => sPc'[u] = sPc[u] /\ sJob'[u] = sJob[u]
    BY <1>1, <1>5 DEF S!TypeOK
  <2>2. S!At({"run"})' = S!At({"run"}) \cup {t} /\ t \notin S!At({"run"})
    BY <2>1 DEF S!At
  <2>3. \A u \in S!At({"run"}) :
          u \in Service /\ u # t /\ sJob'[u] = sJob[u] /\ sJob[u].task # e.task
    <3>1. \A u \in S!At({"run"}) : u \in Service /\ u # t
      BY <2>2 DEF S!At
    <3>2. \A u \in S!At({"run"}) : sJob[u].task # e.task
      BY <1>1, <1>4, <1>7 DEF RunOnce
    <3> QED BY <2>1, <3>1, <3>2, ZenonT(60)
  <2>4. \A u \in Service : sJob'[u] # S!NoJob <=> sPc'[u] = "run"
    <3> TAKE u \in Service
    <3>1. CASE u = t
      BY <1>4, <2>1, <3>1
    <3>2. CASE u # t
      <4>1. sPc'[u] = sPc[u] /\ sJob'[u] = sJob[u]
        BY <2>1, <3>2
      <4>2. sJob[u] # S!NoJob <=> sPc[u] = "run"
        BY <1>1, Zenon DEF RunOnce
      <4> QED BY <4>1, <4>2
    <3> QED BY <3>1, <3>2
  <2>5. \A k \in Timed : sState'[k] = "running" <=> k = e.task \/ sState[k] = "running"
    BY <1>1, <1>4, <1>5 DEF S!TypeOK
  <2>6. \A k \in Timed : sState'[k] = "running" <=> (\E u \in S!At({"run"})' : sJob'[u].task = k)
    <3> TAKE k \in Timed
    <3>1. (\E u \in S!At({"run"})' : sJob'[u].task = k)
             <=> k = e.task \/ \E u \in S!At({"run"}) : sJob[u].task = k
      BY <2>1, <2>2, <2>3
    <3>2. sState[k] = "running" <=> \E u \in S!At({"run"}) : sJob[u].task = k
      BY <1>1, Zenon DEF RunOnce
    <3> QED BY <2>5, <3>1, <3>2, Zenon
  <2>7. \A u, v \in S!At({"run"})' : sJob'[u].task = sJob'[v].task => u = v
    <3>1. \A u, v \in S!At({"run"}) : sJob[u].task = sJob[v].task => u = v
      BY <1>1, Zenon DEF RunOnce
    <3> QED BY <2>1, <2>2, <2>3, <3>1
  <2> QED BY <2>4, <2>6, <2>7, ZenonT(60) DEF RunOnce, S!NoJob
<1>10. S!NoOversleep'
  <2>1. sPc'[t] = "run"
    BY <1>1 DEF S!TypeOK
  <2> QED BY <2>1, Awake
<1> QED BY <1>6, <1>8, <1>9, <1>10, Halves, PTL DEF SInv

\* A task that has run is free again, and a repeating one is queued again.
LEMMA FinishKeeps ==
  ASSUME SInv, NEW t \in Service, S!Finish(t)
  PROVE  SInv'
<1> DEFINE k == sJob[t].task
           f == [sPc EXCEPT ![t] = "top"]
<1>1. QueueOnce /\ RunOnce /\ S!TypeOK
  BY Halves DEF SInv
<1>2. /\ sPc[t] = "run" /\ sJob' = [sJob EXCEPT ![t] = S!NoJob] /\ UNCHANGED <<sNow, sUntil>>
      /\ IF k \in Every /\ sNow + Delta <= MaxTime
         THEN /\ sQueue' = S!Insert(sQueue, [task |-> k, time |-> sNow + Delta])
              /\ sState' = [sState EXCEPT ![k] = "queued"] /\ sPc' \in S!NotifyOne(f)
         ELSE /\ sState' = [sState EXCEPT ![k] = "done"] /\ sPc' = f /\ UNCHANGED sQueue
  BY Zenon DEF S!Finish
<1>3. k \in Timed
  <2>1. sJob[t] \in S!Entry \cup {S!NoJob} /\ sJob[t] # S!NoJob
    BY <1>1, <1>2 DEF S!TypeOK, RunOnce
  <2> QED BY <2>1 DEF S!Entry
<1>4. t \in S!At({"run"}) /\ sState[k] = "running"
  BY <1>1, <1>2, <1>3 DEF S!At, RunOnce
<1>5. /\ f \in [Service -> {"top", "wait", "timed", "woken", "late", "run", "end"}] /\ f[t] = "top"
      /\ \A u \in Service : f[u] = "run" <=> u # t /\ sPc[u] = "run"
  BY <1>1, SMTT(60), Z3T(60) DEF S!TypeOK
<1> HIDE DEF k, f
<1>6. /\ QueueOnce' /\ sQueue' \in Seq(S!Entry)
      /\ sState' \in [Timed -> {"new", "queued", "running", "done"}]
      /\ \A x \in Timed : sState'[x] = "running" <=> x # k /\ sState[x] = "running"
      /\ sPc' \in [Service -> {"top", "wait", "timed", "woken", "late", "run", "end"}]
      /\ \E u \in Service : sPc'[u] \notin {"wait", "timed"}
      /\ \A u \in Service : sPc'[u] = "run" <=> f[u] = "run"
  <2>1. CASE k \in Every /\ sNow + Delta <= MaxTime
    <3>1. /\ sQueue' = S!Insert(sQueue, [task |-> k, time |-> sNow + Delta])
          /\ sState' = [sState EXCEPT ![k] = "queued"] /\ sPc' \in S!NotifyOne(f)
      BY <1>2, <2>1, Zenon
    <3>2. Delta \in Nat /\ sState[k] # "queued"
      BY <1>4, ThreadsAssumption
    <3>3. /\ QueueOnce' /\ sQueue' \in Seq(S!Entry)
          /\ sState' \in [Timed -> {"new", "queued", "running", "done"}]
      BY <1>1, <1>3, <2>1, <3>1, <3>2, QueueTask, Zenon
    <3>4. /\ sPc' \in [Service -> {"top", "wait", "timed", "woken", "late", "run", "end"}]
          /\ \E u \in Service : sPc'[u] \notin {"wait", "timed"}
          /\ \A u \in Service : sPc'[u] = "run" <=> f[u] = "run"
      BY <1>5, <3>1, Notified, ZenonT(60)
    <3>5. \A x \in Timed : sState'[x] = "running" <=> x # k /\ sState[x] = "running"
      BY <1>1, <1>3, <3>1 DEF S!TypeOK
    <3> QED BY <3>3, <3>4, <3>5, Zenon
  <2>2. CASE ~(k \in Every /\ sNow + Delta <= MaxTime)
    <3>1. sState' = [sState EXCEPT ![k] = "done"] /\ sPc' = f /\ sQueue' = sQueue
      BY <1>2, <2>2, Zenon
    <3>2. \A x \in Timed : sState'[x] = "queued" <=> sState[x] = "queued"
      BY <1>1, <1>3, <1>4, <3>1 DEF S!TypeOK
    <3>3. QueueOnce'
      BY <1>1, <3>1, <3>2, Zenon DEF QueueOnce, Sorted, OneEach, Has
    <3>4. /\ sQueue' \in Seq(S!Entry) /\ sState' \in [Timed -> {"new", "queued", "running", "done"}]
          /\ \A x \in Timed : sState'[x] = "running" <=> x # k /\ sState[x] = "running"
      BY <1>1, <1>3, <3>1 DEF S!TypeOK
    <3> QED BY <1>5, <3>1, <3>3, <3>4
  <2> QED BY <2>1, <2>2
<1>7. S!TypeOK'
  <2>1. sJob' \in [Service -> S!Entry \cup {S!NoJob}]
    BY <1>1, <1>2 DEF S!TypeOK
  <2> QED BY <1>1, <1>2, <1>6, <2>1, ZenonT(60) DEF S!TypeOK, S!Entry, S!NoJob
<1>8. RunOnce'
  <2>1. S!At({"run"})' = S!At({"run"}) \ {t}
    BY <1>5, <1>6 DEF S!At
  <2>2. sJob'[t] = S!NoJob /\ \A u \in Service : u # t => sJob'[u] = sJob[u]
    BY <1>1, <1>2, SMTT(60), Z3T(60) DEF S!TypeOK
  <2>3. \A u \in S!At({"run"}) \ {t} : sJob'[u] = sJob[u] /\ sJob[u].task # k
    BY <1>1, <1>4, <2>2 DEF RunOnce, S!At, k
  <2>4. \A u \in Service : sJob'[u] # S!NoJob <=> sPc'[u] = "run"
    <3> TAKE u \in Service
    <3>1. sPc'[u] = "run" <=> u # t /\ sPc[u] = "run"
      BY <1>5, <1>6, Zenon
    <3> QED BY <1>1, <2>2, <3>1, Zenon DEF RunOnce
  <2>5. ASSUME NEW x \in Timed
        PROVE  sState'[x] = "running" <=> (\E u \in S!At({"run"})' : sJob'[u].task = x)
    <3>1. sState[x] = "running" <=> \E u \in S!At({"run"}) : sJob[u].task = x
      BY <1>1, ZenonT(60) DEF RunOnce
    <3>2. (\E u \in S!At({"run"})' : sJob'[u].task = x)
             <=> x # k /\ \E u \in S!At({"run"}) : sJob[u].task = x
      BY <1>4, <2>1, <2>3, SMTT(60), Z3T(60) DEF k
    <3> QED BY <1>6, <3>1, <3>2, Zenon
  <2>6. \A u, v \in S!At({"run"})' : sJob'[u].task = sJob'[v].task => u = v
    BY <1>1, <2>1, <2>3 DEF RunOnce
  <2> QED BY <2>4, <2>5, <2>6, Zenon DEF RunOnce, S!NoJob
<1>9. S!NoOversleep'
  BY <1>6, Awake
<1> QED BY <1>6, <1>7, <1>8, <1>9, Halves, PTL DEF SInv

\* Every step of schedule, of the service threads, of stop and of the clock.
LEMMA SNext == SInv /\ [S!Next]_(S!vars) => SInv'
<1> SUFFICES ASSUME SInv, [S!Next]_(S!vars) PROVE SInv'
  OBVIOUS
<1>0. S!TypeOK /\ S!NoOversleep
  BY DEF SInv
<1>1. ASSUME NEW k \in Timed, NEW d \in 0..2, S!Schedule(k, d) PROVE SInv'
  BY <1>1, ScheduleKeeps
<1>2. ASSUME NEW t \in Service, S!Evaluate(t) PROVE SInv'
  BY <1>2, EvaluateKeeps
<1>3. ASSUME NEW t \in Service, S!TimeOut(t) \/ S!Spurious(t) PROVE SInv'
  <2>1. /\ UNCHANGED <<sQueue, sNow, sUntil, sJob, sState>>
        /\ sPc' \in [Service -> {"top", "wait", "timed", "woken", "late", "run", "end"}]
        /\ sPc'[t] \notin {"wait", "timed"}
        /\ \A u \in Service : sPc'[u] = "run" <=> sPc[u] = "run"
    BY <1>0, <1>3, ZenonT(60) DEF S!TimeOut, S!Spurious, S!TypeOK
  <2>2. S!NoOversleep'
    BY <2>1, Awake
  <2> QED BY <1>0, <2>1, <2>2, QuietStep DEF S!TypeOK
<1>4. ASSUME NEW t \in Service, S!Take(t) PROVE SInv'
  <2>1. CASE sPc' = [sPc EXCEPT ![t] = "top"] /\ UNCHANGED <<sQueue, sJob, sState>>
    <3>1. /\ UNCHANGED <<sNow, sUntil>> /\ sPc[t] = "late"
      BY <1>4 DEF S!Take
    <3>2. /\ sPc' \in [Service -> {"top", "wait", "timed", "woken", "late", "run", "end"}]
          /\ sPc'[t] \notin {"wait", "timed"}
          /\ \A u \in Service : sPc'[u] = "run" <=> sPc[u] = "run"
      BY <1>0, <2>1, <3>1 DEF S!TypeOK
    <3>3. S!NoOversleep'
      BY <3>2, Awake, SMTT(60), Z3T(60)
    <3> QED BY <1>0, <2>1, <3>1, <3>2, <3>3, QuietStep DEF S!TypeOK
  <2> QED BY <1>4, <2>1, TakeTask, Zenon DEF S!Take
<1>5. ASSUME NEW t \in Service, S!Finish(t) PROVE SInv'
  BY <1>5, FinishKeeps
<1>6. ASSUME NEW drain \in BOOLEAN, S!Stop(drain) PROVE SInv'
  <2>1. UNCHANGED <<sQueue, sNow, sUntil, sJob, sState>>
    BY <1>6 DEF S!Stop
  <2>2. sPc' = [t \in Service |-> IF sPc[t] \in {"wait", "timed"} THEN "woken" ELSE sPc[t]]
    BY <1>6 DEF S!Stop
  <2>3. /\ sPc' \in [Service -> {"top", "wait", "timed", "woken", "late", "run", "end"}]
        /\ \A u \in Service : sPc'[u] \notin {"wait", "timed"}
        /\ \A u \in Service : sPc'[u] = "run" <=> sPc[u] = "run"
    BY <1>0, <2>2 DEF S!TypeOK
  <2>4. S!NoOversleep'
    BY <2>3, Awake, ThreadsAssumption
  <2> QED BY <1>0, <2>1, <2>3, <2>4, QuietStep, SMTT(60), Z3T(60) DEF S!TypeOK
<1>7. CASE S!Tick \/ UNCHANGED S!vars
  <2>1. UNCHANGED <<sQueue, sStop, sDrain, sPc, sUntil, sJob, sState>>
    BY <1>7 DEF S!Tick, S!vars
  <2>2. sNow' \in 0..MaxTime
    BY <1>0, <1>7, ThreadsAssumption DEF S!Tick, S!vars, S!TypeOK
  <2>3. S!NoOversleep'
    BY <1>0, <2>1, ZenonT(60) DEF S!NoOversleep, S!Empty, S!ShouldStop
  <2> QED BY <1>0, <2>1, <2>2, <2>3, QuietStep, SMTT(60), Z3T(60) DEF S!TypeOK
<1> QED BY <1>1, <1>2, <1>3, <1>4, <1>5, <1>6, <1>7, ZenonT(60) DEF S!Next

\* When all service threads of a scheduler sleep, one of them wakes in time for the first task,
\* whatever was scheduled while they slept; and no task is lost, run by two threads at a time or
\* out of order.
THEOREM NobodyOversleeps == S!Spec => []NoOversleep
<1>1. SInv => NoOversleep
  BY DEF SInv, NoOversleep
<1> QED BY <1>1, SInit, SNext, PTL DEF S!Spec
=============================================================================
