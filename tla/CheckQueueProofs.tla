--------------------------- MODULE CheckQueueProofs ---------------------------
(***************************************************************************)
(* CCheckQueue tells the truth: proofs for any number of workers, checks   *)
(* and sessions and any batch size.  The invariant IInv of CheckQueue      *)
(* says, beside the properties, where the master is when (Phases), that    *)
(* the checks leave the queue in order and the batches are disjoint        *)
(* intervals of them (InOrder), and what fAllOk and each fOk know about    *)
(* the checks that nobody holds any more (Truthful).                       *)
(***************************************************************************)
EXTENDS CheckQueue, FiniteSetTheorems, TLAPS

\* The conjunction of two optional truth values.
LEMMA AllOkValues ==
  ASSUME NEW a \in {TRUE, FALSE, None}, NEW b \in {TRUE, FALSE, None},
         NEW c, c = IF a = None \/ b = None THEN None ELSE a /\ b
  PROVE  /\ c \in {TRUE, FALSE, None}
         /\ c = None => a = None \/ b = None
         /\ c = FALSE => a = FALSE \/ b = FALSE
         /\ c = TRUE => a = TRUE /\ b = TRUE
<1>1. CASE a = None \/ b = None
  BY <1>1, QueueAssumption, Zenon
<1>2. CASE a = TRUE /\ b = TRUE
  BY <1>2, QueueAssumption, Zenon
<1>3. CASE a = FALSE /\ b \in BOOLEAN
  BY <1>3, QueueAssumption, Zenon
<1>4. CASE a \in BOOLEAN /\ b = FALSE
  BY <1>4, QueueAssumption, Zenon
<1> QED BY <1>1, <1>2, <1>3, <1>4, Zenon

\* A quotient is at most the dividend.
LEMMA DivLess == \A a \in Nat, d \in Nat \ {0} : (a \div d) \in Nat /\ (a \div d) <= a
OBVIOUS

\* The threads of a queue are finitely many.
LEMMA ThreadsFinite ==
  ASSUME NEW X \in SUBSET Threads
  PROVE  IsFiniteSet(X) /\ Cardinality(X) \in Nat
<1>1. IsFiniteSet(Threads)
  BY QueueAssumption, FS_AddElement DEF Threads
<1> QED BY <1>1, FS_Subset, FS_CardinalityType

\* Counting threads with and without one of them.
LEMMA CountWithout ==
  ASSUME NEW X \in SUBSET Threads, NEW t
  PROVE  Cardinality(X \ {t}) = IF t \in X THEN Cardinality(X) - 1 ELSE Cardinality(X)
BY ThreadsFinite, FS_RemoveElement

\* And with one more.
LEMMA CountWith ==
  ASSUME NEW X \in SUBSET Threads, NEW t \in Threads
  PROVE  Cardinality(X \cup {t}) = IF t \in X THEN Cardinality(X) ELSE Cardinality(X) + 1
BY ThreadsFinite, FS_AddElement

\* So are the checks of a session.
LEMMA ChecksFinite ==
  ASSUME NEW n \in Nat, NEW X \in SUBSET (1..n)
  PROVE  IsFiniteSet(X) /\ Cardinality(X) \in Nat /\ Cardinality(X) <= n
<1>1. IsFiniteSet(1..n) /\ Cardinality(1..n) = n
  BY FS_Interval
<1> QED BY <1>1, FS_Subset, FS_CardinalityType, Zenon

\* A batch of consecutive checks is an interval.
LEMMA BatchInterval ==
  ASSUME NEW b \in Seq(Nat), NEW n \in Nat \ {0}, Len(b) = n, \A i \in 1..n : b[i] = b[1] + i - 1
  PROVE  /\ b[1] \in Nat /\ {b[i] : i \in 1..Len(b)} = b[1]..(b[1] + n - 1)
         /\ IsFiniteSet({b[i] : i \in 1..Len(b)}) /\ Cardinality({b[i] : i \in 1..Len(b)}) = n
<1>1. b[1] \in Nat
  OBVIOUS
<1>2. ASSUME NEW x \in b[1]..(b[1] + n - 1) PROVE \E i \in 1..Len(b) : b[i] = x
  <2>1. x - b[1] + 1 \in 1..n /\ b[x - b[1] + 1] = x
    BY <1>1, <1>2
  <2> QED BY <2>1
<1>3. ASSUME NEW i \in 1..Len(b) PROVE b[i] \in b[1]..(b[1] + n - 1)
  BY <1>1, <1>3
<1>4. {b[i] : i \in 1..Len(b)} = b[1]..(b[1] + n - 1)
  BY <1>2, <1>3, Zenon
<1>5. IsFiniteSet(b[1]..(b[1] + n - 1)) /\ Cardinality(b[1]..(b[1] + n - 1)) = n
  BY <1>1, FS_Interval
<1> QED BY <1>1, <1>4, <1>5, Zenon

\* The checks a busy thread holds.
LEMMA HeldIs ==
  ASSUME IInv, NEW t \in Busy
  PROVE  /\ nNow[t] \in Nat \ {0} /\ batch[t][1] \in Nat /\ Len(batch[t]) = nNow[t]
         /\ Held(t) = batch[t][1]..(batch[t][1] + nNow[t] - 1)
         /\ Held(t) \subseteq 1..Taken /\ Held(t) # {}
         /\ IsFiniteSet(Held(t)) /\ Cardinality(Held(t)) = nNow[t]
<1>0. t \in Threads
  BY DEF Busy, At
<1>1. batch[t] \in Seq(Nat) /\ nNow[t] \in Nat
  BY <1>0 DEF IInv, Shape
<1>2. nNow[t] \in Nat \ {0} /\ Len(batch[t]) = nNow[t]
  BY <1>1 DEF IInv, TypeOK
<1>3. \A i \in 1..nNow[t] : batch[t][i] = batch[t][1] + i - 1
  BY DEF IInv, InOrder
<1>4. /\ batch[t][1] \in Nat /\ Held(t) = batch[t][1]..(batch[t][1] + nNow[t] - 1)
      /\ IsFiniteSet(Held(t)) /\ Cardinality(Held(t)) = nNow[t]
  BY <1>1, <1>2, <1>3, BatchInterval, Zenon DEF Held
<1>5. batch[t][1] > 0 /\ batch[t][1] + nNow[t] - 1 <= Taken
  BY DEF IInv, InOrder
<1>6. Taken \in Int
  BY DEF IInv, Shape, TypeOK, Taken
<1>7. Held(t) \subseteq 1..Taken /\ batch[t][1] \in Held(t)
  BY <1>2, <1>4, <1>5, <1>6
<1> QED BY <1>2, <1>4, <1>7

\* The queue and the batches are parts of the session's checks.
LEMMA Counting ==
  ASSUME IInv
  PROVE  /\ added \in Nat /\ Len(queue) \in Nat /\ Taken \in Nat /\ Taken <= added /\ nTodo \in Nat
         /\ Outstanding \subseteq 1..Taken /\ IsFiniteSet(Outstanding)
         /\ Cardinality(Outstanding) \in Nat /\ nTodo = Len(queue) + Cardinality(Outstanding)
<1>1. added \in Nat /\ Len(queue) \in Nat /\ Taken \in Nat /\ Taken <= added /\ nTodo \in Nat
  BY DEF IInv, Shape, TypeOK, InOrder, Taken
<1>2. Outstanding \subseteq 1..Taken
  BY HeldIs DEF Outstanding
<1>3. IsFiniteSet(1..Taken)
  BY <1>1, FS_Interval
<1>4. IsFiniteSet(Outstanding) /\ Cardinality(Outstanding) \in Nat
  BY <1>2, <1>3, FS_Subset, FS_CardinalityType, Zenon
<1> QED BY <1>1, <1>2, <1>4 DEF IInv, TodoCounts

\* When nothing is counted, nothing is queued and nobody holds a check.
LEMMA NothingLeft ==
  ASSUME IInv, nTodo = 0
  PROVE  Busy = {} /\ queue = <<>> /\ Len(queue) = 0 /\ Taken = added
<1>1. Len(queue) = 0 /\ Cardinality(Outstanding) = 0
  BY Counting
<1>2. Outstanding = {}
  BY <1>1, Counting, FS_EmptySet
<1>3. Busy = {}
  BY <1>2, HeldIs DEF Outstanding
<1>4. queue = <<>>
  BY <1>1 DEF IInv, TypeOK
<1> QED BY <1>1, <1>3, <1>4, Counting DEF Taken

\* The checks that the threads other than t hold.
Others(t) == UNION {Held(u) : u \in Busy \ {t}}

\* They are checks that were taken, and with those of t they are all that is outstanding.
LEMMA OthersHold ==
  ASSUME IInv, NEW t \in Threads
  PROVE  /\ Others(t) \subseteq 1..Taken /\ IsFiniteSet(Others(t)) /\ Cardinality(Others(t)) \in Nat
         /\ t \notin Busy => Others(t) = Outstanding
         /\ t \in Busy => /\ Outstanding = Others(t) \cup Held(t)
                          /\ Cardinality(Outstanding) = Cardinality(Others(t)) + nNow[t]
<1>1. Others(t) \subseteq Outstanding
  BY DEF Others, Outstanding
<1>2. Others(t) \subseteq 1..Taken /\ IsFiniteSet(Others(t)) /\ Cardinality(Others(t)) \in Nat
  BY <1>1, Counting, FS_Subset, FS_CardinalityType
<1>3. t \notin Busy => Others(t) = Outstanding
  BY DEF Others, Outstanding
<1>4. ASSUME t \in Busy
      PROVE  /\ Outstanding = Others(t) \cup Held(t)
             /\ Cardinality(Outstanding) = Cardinality(Others(t)) + nNow[t]
  <2>1. Outstanding = Others(t) \cup Held(t)
    BY <1>4 DEF Others, Outstanding
  <2>2. Others(t) \cap Held(t) = {}
    BY <1>4 DEF Others, IInv, TodoCounts
  <2>3. IsFiniteSet(Held(t)) /\ Cardinality(Held(t)) = nNow[t] /\ nNow[t] \in Nat
    BY <1>4, HeldIs
  <2>4. Cardinality(Others(t) \cup Held(t)) = Cardinality(Others(t)) + Cardinality(Held(t))
    BY <1>2, <2>2, <2>3, FS_Union, FS_EmptySet
  <2> QED BY <2>1, <2>3, <2>4
<1> QED BY <1>2, <1>3, <1>4

\* What the clean-up of a batch leaves in the queue.
LEMMA RestIs ==
  ASSUME IInv, NEW t \in Threads
  PROVE  /\ Rest(t) \in Seq(1..added) /\ Len(Rest(t)) \in Nat /\ Len(Rest(t)) <= Len(queue)
         /\ Taken <= added - Len(Rest(t)) /\ added - Len(Rest(t)) \in Nat
         /\ \A i \in 1..Len(Rest(t)) : Rest(t)[i] = added - Len(Rest(t)) + i
         /\ Rest(t) = queue \/ (pc[t] = "cleanup" /\ cancelled)
<1>1. CASE pc[t] = "cleanup" /\ cancelled
  <2>1. Rest(t) = <<>> /\ Len(Rest(t)) = 0
    BY <1>1 DEF Rest
  <2> QED BY <1>1, <2>1, Counting
<1>2. CASE ~(pc[t] = "cleanup" /\ cancelled)
  <2>1. Rest(t) = queue
    BY <1>2 DEF Rest
  <2>2. queue \in Seq(1..added) /\ \A i \in 1..Len(queue) : queue[i] = added - Len(queue) + i
    BY DEF IInv, TypeOK, InOrder, Taken
  <2>3. Taken = added - Len(queue)
    BY DEF Taken
  <2> QED BY <2>1, <2>2, <2>3, Counting
<1> QED BY <1>1, <1>2

\* nTodo counts what is left and what the other threads hold.
LEMMA TodoIs ==
  ASSUME IInv, NEW t \in Threads, AtTop(t)
  PROVE  Todo(t) = Len(Rest(t)) + Cardinality(Others(t))
<1>1. CASE pc[t] = "cleanup"
  <2>1. t \in Busy
    BY <1>1 DEF Busy, At
  <2>2. Todo(t) = nTodo - nNow[t] - (Len(queue) - Len(Rest(t)))
    BY <1>1 DEF Todo
  <2>3. nNow[t] \in Nat /\ nTodo = Len(queue) + Cardinality(Others(t)) + nNow[t]
    BY <2>1, HeldIs, OthersHold, Counting, SMTT(60), Z3T(60)
  <2>4. Cardinality(Others(t)) \in Nat /\ Len(Rest(t)) \in Nat /\ Len(queue) \in Nat
    BY OthersHold, RestIs, Counting, Zenon
  <2> QED BY <2>2, <2>3, <2>4
<1>2. CASE pc[t] # "cleanup"
  <2>1. t \notin Busy
    BY <1>2 DEF AtTop, Busy, At
  <2>2. Todo(t) = nTodo /\ Rest(t) = queue
    BY <1>2 DEF Todo, Rest
  <2> QED BY <2>1, <2>2, OthersHold, Counting
<1> QED BY <1>1, <1>2

\* What the clean-up makes of fAllOk is true of the checks that no other thread holds.
LEMMA AllOkIs ==
  ASSUME IInv, NEW t \in Threads, AtTop(t)
  PROVE  /\ AllOk(t) \in {TRUE, FALSE, None}
         /\ ~cancelled => AllOk(t) # None
         /\ AllOk(t) = FALSE => fails \cap 1..added # {}
         /\ ~cancelled /\ AllOk(t) = TRUE => 1..(added - Len(Rest(t))) \subseteq passed \cup Others(t)
<1>0. fAllOk \in {TRUE, FALSE, None} /\ fOk[t] \in {TRUE, FALSE, None}
  BY Zenon DEF IInv, TypeOK, Shape
<1>1. CASE pc[t] = "cleanup"
  <2>1. t \in Busy
    BY <1>1 DEF Busy, At
  <2>2. AllOk(t) = IF fAllOk = None \/ fOk[t] = None THEN None ELSE fAllOk /\ fOk[t]
    BY <1>1, Zenon DEF AllOk
  <2>3. /\ AllOk(t) \in {TRUE, FALSE, None}
        /\ AllOk(t) = None => fAllOk = None \/ fOk[t] = None
        /\ AllOk(t) = FALSE => fAllOk = FALSE \/ fOk[t] = FALSE
        /\ AllOk(t) = TRUE => fAllOk = TRUE /\ fOk[t] = TRUE
    BY <1>0, <2>2, AllOkValues, Zenon
  <2>4. ~cancelled => AllOk(t) # None
    BY <2>1, <2>3, Zenon DEF IInv, Truthful
  <2>5. AllOk(t) = FALSE => fails \cap 1..added # {}
    BY <2>1, <2>3, Zenon DEF IInv, Truthful
  <2>6. ASSUME ~cancelled, AllOk(t) = TRUE
        PROVE  1..(added - Len(Rest(t))) \subseteq passed \cup Others(t)
    <3>1. fAllOk = TRUE /\ fOk[t] = TRUE
      BY <2>3, <2>6, Zenon
    <3>2. 1..Taken \subseteq passed \cup Outstanding
      BY <2>6, <3>1, Zenon DEF IInv, Truthful
    <3>3. Held(t) \subseteq passed
      BY <1>1, <2>1, <2>6, <3>1, Zenon DEF IInv, Truthful
    <3>4. added - Len(Rest(t)) = Taken
      BY <2>6, RestIs DEF Taken
    <3>5. Outstanding = Others(t) \cup Held(t)
      BY <2>1, OthersHold
    <3> QED BY <3>2, <3>3, <3>4, <3>5, Zenon
  <2> QED BY <2>3, <2>4, <2>5, <2>6, Zenon
<1>2. CASE pc[t] # "cleanup"
  <2>1. AllOk(t) = fAllOk /\ Rest(t) = queue
    BY <1>2, Zenon DEF AllOk, Rest
  <2>2. Outstanding = Others(t)
    <3>1. t \notin Busy
      BY <1>2 DEF AtTop, Busy, At
    <3> QED BY <3>1, OthersHold
  <2>3. added - Len(Rest(t)) = Taken
    BY <2>1, Zenon DEF Taken
  <2> QED BY <1>0, <2>1, <2>2, <2>3, Zenon DEF IInv, Truthful
<1> QED BY <1>1, <1>2, Zenon

\* The counters without the thread that is at the top of the loop.
LEMMA CountersAre ==
  ASSUME IInv, NEW t \in Threads, AtTop(t)
  PROVE  /\ Idle(t) = Cardinality(Waiting \ {t}) /\ Total(t) = Cardinality(Inside \ {t}) + 1
         /\ Cardinality(Waiting \ {t}) \in Nat /\ Cardinality(Inside \ {t}) \in Nat
         /\ Idle(t) \in Nat /\ Total(t) \in Nat
<1>1. Waiting \in SUBSET Threads /\ Inside \in SUBSET Threads
  BY DEF Waiting, Inside, At
<1>2. nIdle = Cardinality(Waiting) /\ nTotal = Cardinality(Inside)
  BY DEF IInv, TypeOK
<1>3. /\ Cardinality(Waiting \ {t}) = IF t \in Waiting THEN nIdle - 1 ELSE nIdle
      /\ Cardinality(Inside \ {t}) = IF t \in Inside THEN nTotal - 1 ELSE nTotal
  BY <1>1, <1>2, CountWithout
<1>4. /\ Cardinality(Waiting \ {t}) \in Nat /\ Cardinality(Inside \ {t}) \in Nat
      /\ nIdle \in Nat /\ nTotal \in Nat
  BY <1>1, <1>2, ThreadsFinite
<1>5. /\ t \in Waiting <=> pc[t] = "woken"
      /\ t \in Inside <=> pc[t] # "enter"
  BY DEF AtTop, Waiting, Inside, At
<1>6. Idle(t) = IF pc[t] = "woken" THEN nIdle - 1 ELSE nIdle
  BY DEF Idle
<1>7. Total(t) = IF pc[t] = "enter" THEN nTotal + 1 ELSE nTotal
  BY DEF Total
<1> QED BY <1>3, <1>4, <1>5, <1>6, <1>7

\* A step of t at the top of the loop: the other threads stay, but the master may be woken.
OthersQuiet(t) ==
  /\ Shape' /\ UNCHANGED <<mQuit, cancelled, sessions, added, fails, passed>>
  /\ \A u \in Threads \ {t} :
       /\ pc'[u] = pc[u] \/ (pc[u] = "asleep" /\ pc'[u] = "woken")
       /\ batch'[u] = batch[u] /\ nNow'[u] = nNow[u] /\ next'[u] = next[u] /\ fOk'[u] = fOk[u]

\* Such a step moves no other thread in or out of the loop, nor its checks.
LEMMA QuietSets ==
  ASSUME IInv, NEW t \in Threads, OthersQuiet(t)
  PROVE  /\ Busy' \ {t} = Busy \ {t} /\ Waiting' \ {t} = Waiting \ {t} /\ Inside' \ {t} = Inside \ {t}
         /\ \A u \in Busy \ {t} : Held(u)' = Held(u) /\ pc'[u] = pc[u]
         /\ UNION {Held(u)' : u \in Busy' \ {t}} = Others(t)
<1>1. \A u \in Threads \ {t} : pc'[u] = pc[u] \/ (pc[u] = "asleep" /\ pc'[u] = "woken")
  BY DEF OthersQuiet
<1>2. /\ Busy' \ {t} = Busy \ {t} /\ Waiting' \ {t} = Waiting \ {t} /\ Inside' \ {t} = Inside \ {t}
  BY <1>1 DEF Busy, Waiting, Inside, At
<1>3. \A u \in Busy \ {t} : Held(u)' = Held(u) /\ pc'[u] = pc[u]
  BY <1>1 DEF OthersQuiet, Held, Busy, At
<1> QED BY <1>2, <1>3, Zenon DEF Others

\* The parts of the invariant that speak of the other threads' batches stay.
LEMMA OthersKeep ==
  ASSUME IInv, NEW t \in Threads, AtTop(t), OthersQuiet(t), NEW v \in Busy' \ {t}
  PROVE  /\ v \in Busy /\ v # t /\ v \in Threads
         /\ nNow'[v] > 0 /\ Len(batch'[v]) = nNow'[v]
         /\ batch'[v][1] > 0 /\ batch'[v][1] + nNow'[v] - 1 <= Taken
         /\ \A i \in 1..nNow'[v] : batch'[v][i] = batch'[v][1] + i - 1
         /\ ~cancelled => fOk'[v] # None
         /\ fOk'[v] = FALSE => fails \cap 1..added # {}
         /\ fOk'[v] = TRUE =>
              /\ pc'[v] = "work" => \A i \in 1..nNow'[v] : i < next'[v] => batch'[v][i] \in passed
              /\ pc'[v] = "cleanup" /\ ~cancelled => Held(v)' \subseteq passed
<1>1. v \in Busy /\ v # t /\ v \in Threads /\ Held(v)' = Held(v) /\ pc'[v] = pc[v]
  BY QuietSets, Zenon DEF Busy, At
<1>2. batch'[v] = batch[v] /\ nNow'[v] = nNow[v] /\ next'[v] = next[v] /\ fOk'[v] = fOk[v]
  BY <1>1 DEF OthersQuiet
<1>3. nNow'[v] > 0 /\ Len(batch'[v]) = nNow'[v]
  BY <1>1, <1>2, Zenon DEF IInv, TypeOK
<1>4. /\ batch'[v][1] > 0 /\ batch'[v][1] + nNow'[v] - 1 <= Taken
      /\ \A i \in 1..nNow'[v] : batch'[v][i] = batch'[v][1] + i - 1
  BY <1>1, <1>2, Zenon DEF IInv, InOrder
<1>5. /\ ~cancelled => fOk'[v] # None
      /\ fOk'[v] = FALSE => fails \cap 1..added # {}
  BY <1>1, <1>2, Zenon DEF IInv, Truthful
<1>6. fOk'[v] = TRUE =>
        /\ pc'[v] = "work" => \A i \in 1..nNow'[v] : i < next'[v] => batch'[v][i] \in passed
        /\ pc'[v] = "cleanup" /\ ~cancelled => Held(v)' \subseteq passed
  BY <1>1, <1>2, Zenon DEF IInv, Truthful
<1> QED BY <1>1, <1>3, <1>4, <1>5, <1>6, Zenon

\* Where the master is, and what it was told, when another thread is at the top of the loop.
LEMMA MasterAway ==
  ASSUME IInv, NEW t \in Threads, AtTop(t), OthersQuiet(t), t # Master
  PROVE  /\ mQuit' => pc'[Master] = "closed"
         /\ pc'[Master] \in {"leave", "closed"} =>
              pc'[Master] = pc[Master] /\ Todo(t) = 0 /\ (sessions > 0 => Verdict)
<1>0. Master \in Threads \ {t}
  BY DEF Threads
<1>1. pc'[Master] = pc[Master] \/ (pc[Master] = "asleep" /\ pc'[Master] = "woken")
  BY <1>0 DEF OthersQuiet
<1>2. mQuit' => pc'[Master] = "closed"
  <2>1. mQuit' = mQuit
    BY DEF OthersQuiet
  <2>2. mQuit => pc[Master] = "closed"
    BY DEF IInv, Phases
  <2> QED BY <1>1, <2>1, <2>2, Zenon
<1>3. ASSUME pc'[Master] \in {"leave", "closed"}
      PROVE  pc'[Master] = pc[Master] /\ Todo(t) = 0 /\ (sessions > 0 => Verdict)
  <2>1. pc'[Master] = pc[Master]
    BY <1>1, <1>3
  <2>2. nTodo = 0 /\ (sessions > 0 => Verdict)
    BY <1>3, <2>1, Zenon DEF IInv, Phases, Truthful
  <2>3. pc[t] # "cleanup"
    BY <2>2, NothingLeft DEF Busy, At
  <2> QED BY <2>1, <2>2, <2>3, Zenon DEF Todo
<1> QED BY <1>2, <1>3, Zenon

\* A thread finds the queue empty and goes to sleep, or leaves the loop.
LEMMA LeavesTop ==
  ASSUME IInv, NEW t \in Threads, AtTop(t), OthersQuiet(t), Rest(t) = <<>>,
         queue' = <<>>, nTodo' = Todo(t), pc'[t] \in {"asleep", "leave"},
         nIdle' = IF pc'[t] = "asleep" THEN Idle(t) + 1 ELSE Idle(t), nTotal' = Total(t),
         fAllOk' = AllOk(t) \/ (cancelled /\ fAllOk' = None),
         pc'[t] = "leave" => mQuit \/ (t = Master /\ Todo(t) = 0),
         IF t = Master /\ pc'[t] = "leave" THEN result' = fAllOk' /\ (cancelled => fAllOk' = None)
                                          ELSE result' = result
  PROVE  IInv'
<1>0. /\ Busy' = Busy' \ {t} /\ Outstanding' = Others(t) /\ added' = added /\ passed' = passed
      /\ cancelled' = cancelled /\ fails' = fails /\ sessions' = sessions /\ mQuit' = mQuit
  <2>1. t \notin Busy'
    BY DEF Busy, At
  <2>2. Busy' = Busy' \ {t}
    BY <2>1
  <2>3. Outstanding' = UNION {Held(u)' : u \in Busy'}
    BY Zenon DEF Outstanding
  <2>4. Outstanding' = Others(t)
    BY <2>2, <2>3, QuietSets, Zenon
  <2> QED BY <2>2, <2>4, Zenon DEF OthersQuiet
<1>1. Len(Rest(t)) = 0 /\ Len(queue') = 0 /\ Taken' = added /\ Taken <= added /\ added \in Nat
  BY <1>0, Counting DEF Taken
<1>2. nTodo' = Cardinality(Others(t)) /\ Others(t) \subseteq 1..added /\ nTodo' \in 0..added
  <2>1. nTodo' = Cardinality(Others(t)) /\ Cardinality(Others(t)) \in Nat
    BY <1>1, TodoIs, OthersHold
  <2>2. Others(t) \subseteq 1..added
    BY <1>1, OthersHold, Counting
  <2>3. Cardinality(Others(t)) <= added
    BY <1>1, <2>2, ChecksFinite, Zenon
  <2> QED BY <1>1, <2>1, <2>2, <2>3
<1>3. nIdle' = Cardinality(Waiting') /\ nTotal' = Cardinality(Inside')
  <2>1. Waiting' = IF pc'[t] = "asleep" THEN (Waiting \ {t}) \cup {t} ELSE Waiting \ {t}
    <3>1. t \in Waiting' <=> pc'[t] = "asleep"
      BY DEF Waiting, At
    <3> QED BY <3>1, QuietSets, ZenonT(60)
  <2>2. Inside' = (Inside \ {t}) \cup {t}
    <3>1. t \in Inside'
      BY DEF Inside, At
    <3> QED BY <3>1, QuietSets, Zenon
  <2>3. Waiting \ {t} \in SUBSET Threads /\ Inside \ {t} \in SUBSET Threads
    BY DEF Waiting, Inside, At
  <2>4. /\ Cardinality((Waiting \ {t}) \cup {t}) = Cardinality(Waiting \ {t}) + 1
        /\ Cardinality((Inside \ {t}) \cup {t}) = Cardinality(Inside \ {t}) + 1
    BY <2>3, CountWith, SMTT(60), Z3T(60)
  <2> QED BY <2>1, <2>2, <2>4, CountersAre
<1>4. fAllOk' \in {TRUE, FALSE, None} /\ result' \in {TRUE, FALSE, None}
  BY AllOkIs, Zenon DEF IInv, TypeOK
<1>5. TypeOK'
  <2>1. \A v \in Busy' : nNow'[v] > 0 /\ Len(batch'[v]) = nNow'[v]
    BY <1>0, OthersKeep, Zenon
  <2>2. queue' \in Seq(1..added')
    OBVIOUS
  <2>3. passed' \subseteq 1..added'
    BY <1>0, Zenon DEF IInv, TypeOK
  <2> QED BY <1>0, <1>2, <1>3, <1>4, <2>1, <2>2, <2>3, Zenon DEF TypeOK
<1>6. TodoCounts'
  <2>1. nTodo' = Len(queue') + Cardinality(Outstanding')
    BY <1>0, <1>1, <1>2
  <2>2. \A v, u \in Busy' : v # u => Held(v)' \cap Held(u)' = {}
    BY <1>0, QuietSets, Zenon DEF IInv, TodoCounts
  <2> QED BY <2>1, <2>2, Zenon DEF TodoCounts
<1>7. InOrder'
  <2>1. Len(queue') <= added' /\ \A i \in 1..Len(queue') : queue'[i] = Taken' + i
    BY <1>0, <1>1
  <2>2. ASSUME NEW v \in Busy'
        PROVE  /\ batch'[v][1] > 0 /\ batch'[v][1] + nNow'[v] - 1 <= Taken'
               /\ \A i \in 1..nNow'[v] : batch'[v][i] = batch'[v][1] + i - 1
    <3>1. v \in Busy' \ {t}
      BY <1>0
    <3>2. /\ batch'[v][1] > 0 /\ batch'[v][1] + nNow'[v] - 1 <= Taken
          /\ \A i \in 1..nNow'[v] : batch'[v][i] = batch'[v][1] + i - 1
      BY <3>1, OthersKeep, Zenon
    <3>3. batch'[v][1] + nNow'[v] - 1 \in Int
      <4>1. v \in Busy /\ v \in Threads /\ batch'[v] = batch[v] /\ nNow'[v] = nNow[v]
        BY <3>1, OthersKeep, Zenon DEF OthersQuiet
      <4> QED BY <4>1, HeldIs
    <3> QED BY <1>1, <3>2, <3>3, Counting
  <2> QED BY <2>1, <2>2, Zenon DEF InOrder
<1>8. Phases'
  <2>1. CASE t = Master
    <3>1. ~mQuit
      BY <2>1 DEF IInv, Phases, AtTop
    <3>2. \A w \in Worker : pc'[w] \in {"leave", "gone"} => mQuit'
      <4> SUFFICES ASSUME NEW w \in Worker, pc'[w] \in {"leave", "gone"} PROVE FALSE
        OBVIOUS
      <4>1. w \in Threads \ {t}
        BY <2>1, QueueAssumption DEF Threads
      <4>2. pc[w] \in {"leave", "gone"}
        BY <4>1 DEF OthersQuiet
      <4> QED BY <3>1, <4>2 DEF IInv, Phases
    <3> QED BY <1>0, <2>1, <3>1, <3>2 DEF Phases
  <2>2. CASE t # Master
    <3>1. \A w \in Worker : pc'[w] \in {"leave", "gone"} => mQuit'
      <4> SUFFICES ASSUME NEW w \in Worker, pc'[w] \in {"leave", "gone"} PROVE mQuit
        BY <1>0
      <4>1. CASE w = t
        BY <2>2, <4>1
      <4>2. CASE w # t
        <5>1. w \in Threads \ {t}
          BY <4>2 DEF Threads
        <5>2. pc[w] \in {"leave", "gone"}
          BY <5>1 DEF OthersQuiet
        <5> QED BY <5>2 DEF IInv, Phases
      <4> QED BY <4>1, <4>2
    <3>2. pc'[Master] \in {"leave", "closed"} => nTodo' = 0
      BY <2>2, MasterAway
    <3> QED BY <2>2, <3>1, <3>2, MasterAway, Zenon DEF Phases
  <2> QED BY <2>1, <2>2
<1>9. Truthful'
  <2>1. ~cancelled' => fAllOk' # None /\ \A v \in Busy' : fOk'[v] # None
    BY <1>0, AllOkIs, OthersKeep, Zenon
  <2>2. fAllOk' = FALSE \/ (\E v \in Busy' : fOk'[v] = FALSE) => fails' \cap 1..added' # {}
    <3>1. fAllOk' = FALSE => fails \cap 1..added # {}
      BY AllOkIs, QueueAssumption, Zenon
    <3>2. (\E v \in Busy' : fOk'[v] = FALSE) => fails \cap 1..added # {}
      BY <1>0, OthersKeep, Zenon
    <3> QED BY <1>0, <3>1, <3>2, Zenon
  <2>3. ~cancelled /\ fAllOk' = TRUE => 1..added \subseteq passed \cup Others(t)
    <3>1. added - Len(Rest(t)) = added
      BY <1>1
    <3> QED BY <3>1, AllOkIs, Zenon
  <2>4. \A v \in Busy' : fOk'[v] = TRUE =>
          /\ pc'[v] = "work" => \A i \in 1..nNow'[v] : i < next'[v] => batch'[v][i] \in passed'
          /\ pc'[v] = "cleanup" /\ ~cancelled' => Held(v)' \subseteq passed'
    BY <1>0, OthersKeep, Zenon
  <2>5. ASSUME pc'[Master] \in {"leave", "closed"}, sessions' > 0 PROVE Verdict'
    <3>1. CASE t = Master
      <4>1. /\ pc'[t] = "leave" /\ ~mQuit /\ result' = fAllOk' /\ Todo(t) = 0
            /\ cancelled => result' = None
        BY <2>5, <3>1, SMTT(60), Z3T(60) DEF IInv, Phases, AtTop
      <4>2. Others(t) = {}
        <5>1. Cardinality(Others(t)) = 0
          BY <1>2, <4>1
        <5> QED BY <5>1, OthersHold, FS_EmptySet
      <4>3. passed \subseteq 1..added
        BY DEF IInv, TypeOK
      <4>4. ~cancelled /\ result' = TRUE => passed = 1..added
        BY <2>3, <4>1, <4>2, <4>3, Zenon
      <4>5. result' = TRUE => passed' = 1..added'
        <5>1. cancelled => result' # TRUE
          BY <4>1, QueueAssumption, Zenon
        <5> QED BY <1>0, <4>4, <5>1, Zenon
      <4> QED BY <1>0, <2>1, <2>2, <4>1, <4>5, Zenon DEF Verdict
    <3>2. CASE t # Master
      <4>1. Verdict /\ result' = result
        BY <1>0, <2>5, <3>2, MasterAway, Zenon
      <4> QED BY <1>0, <4>1, Zenon DEF Verdict
    <3> QED BY <3>1, <3>2
  <2> QED BY <1>0, <1>1, <2>1, <2>2, <2>3, <2>4, <2>5, Zenon DEF Truthful
<1> QED BY <1>5, <1>6, <1>7, <1>8, <1>9, Zenon DEF IInv, OthersQuiet

\* The threads after a step of t that may notify the master.
LEMMA NotifyIs ==
  ASSUME IInv, NEW t \in Threads, NEW l, l \in {"asleep", "work"}, AtTop(t),
         pc' = Notify(t, [pc EXCEPT ![t] = l])
  PROVE  /\ pc' \in [Threads -> {"closed", "open", "enter", "asleep", "woken",
                                 "work", "cleanup", "leave", "gone"}]
         /\ pc'[t] = l /\ pc'[Master] # "gone" /\ \A w \in Worker : pc'[w] \notin {"closed", "open"}
         /\ \A u \in Threads \ {t} : pc'[u] = pc[u] \/ (pc[u] = "asleep" /\ pc'[u] = "woken")
<1> DEFINE f == [pc EXCEPT ![t] = l]
<1>1. /\ pc \in [Threads -> {"closed", "open", "enter", "asleep", "woken",
                             "work", "cleanup", "leave", "gone"}]
      /\ pc[Master] # "gone" /\ \A w \in Worker : pc[w] \notin {"closed", "open"}
      /\ Master \in Threads /\ Worker \subseteq Threads
  BY DEF IInv, Shape, Threads
<1>2. pc' = f \/ (t # Master /\ f[Master] = "asleep" /\ pc' = [f EXCEPT ![Master] = "woken"])
  BY Zenon DEF Notify, WakeMaster
<1>3. /\ f \in [Threads -> {"closed", "open", "enter", "asleep", "woken",
                            "work", "cleanup", "leave", "gone"}]
      /\ f[t] = l /\ f[Master] # "gone" /\ \A w \in Worker : f[w] \notin {"closed", "open"}
      /\ \A u \in Threads \ {t} : f[u] = pc[u]
  BY <1>1
<1>4. CASE pc' = f
  BY <1>1, <1>3, <1>4, Zenon
<1>5. CASE t # Master /\ f[Master] = "asleep" /\ pc' = [f EXCEPT ![Master] = "woken"]
  <2> HIDE DEF f
  <2> QED BY <1>1, <1>3, <1>5, ZenonT(60)
<1> QED BY <1>2, <1>4, <1>5, Zenon

\* cond.wait(): nothing is queued, and the master still has to wait for others.
LEMMA SleepKeeps ==
  ASSUME IInv, NEW t \in Threads, Sleep(t)
  PROVE  IInv'
<1>1. /\ AtTop(t) /\ Rest(t) = <<>> /\ queue' = <<>> /\ nTodo' = Todo(t) /\ fAllOk' = AllOk(t)
      /\ nTotal' = Total(t) /\ nIdle' = Idle(t) + 1 /\ result' = result
      /\ pc' = Notify(t, [pc EXCEPT ![t] = "asleep"])
      /\ batch' = [batch EXCEPT ![t] = <<>>] /\ nNow' = [nNow EXCEPT ![t] = 0]
      /\ next' = next /\ fOk' = fOk
      /\ UNCHANGED <<mQuit, cancelled, sessions, added, fails, passed>>
  BY Zenon DEF Sleep, CleanUp, session
<1>2. OthersQuiet(t) /\ pc'[t] = "asleep"
  <2>0. batch \in [Threads -> Seq(Nat)] /\ nNow \in [Threads -> Nat]
    BY DEF IInv, Shape
  <2>1. batch' \in [Threads -> Seq(Nat)] /\ nNow' \in [Threads -> Nat]
    BY <1>1, <2>0
  <2>3. Shape'
    BY <1>1, <2>1, NotifyIs, Zenon DEF IInv, Shape
  <2>2. \A u \in Threads \ {t} :
          batch'[u] = batch[u] /\ nNow'[u] = nNow[u] /\ next'[u] = next[u] /\ fOk'[u] = fOk[u]
    BY <1>1 DEF IInv, Shape
  <2> QED BY <1>1, <2>2, <2>3, NotifyIs, Zenon DEF OthersQuiet
<1> QED BY <1>1, <1>2, LeavesTop, Zenon

\* The master leaves Loop with the result, or a worker of a destroyed queue leaves it.
LEMMA LeaveLoopKeeps ==
  ASSUME IInv, NEW t \in Threads, Return(t) \/ Exit(t)
  PROVE  IInv'
<1>1. /\ AtTop(t) /\ Rest(t) = <<>> /\ queue' = <<>> /\ nTodo' = Todo(t)
      /\ nTotal' = Total(t) /\ nIdle' = Idle(t) /\ pc' = [pc EXCEPT ![t] = "leave"]
      /\ next' = next /\ fOk' = fOk
      /\ UNCHANGED <<mQuit, cancelled, sessions, added, fails, passed>>
  BY Zenon DEF Return, Exit, CleanUp, session, local
<1>2. batch' \in [Threads -> Seq(Nat)] /\ nNow' \in [Threads -> Nat]
      /\ \A u \in Threads \ {t} : batch'[u] = batch[u] /\ nNow'[u] = nNow[u]
  <2>1. batch \in [Threads -> Seq(Nat)] /\ nNow \in [Threads -> Nat]
    BY DEF IInv, Shape
  <2>2. CASE batch' = [batch EXCEPT ![t] = <<>>] /\ nNow' = [nNow EXCEPT ![t] = 0]
    BY <2>1, <2>2
  <2>3. CASE batch' = batch /\ nNow' = nNow
    BY <2>1, <2>3, Zenon
  <2> QED BY <2>2, <2>3, Zenon DEF Return, Exit, local
<1>3. pc'[t] = "leave" /\ \A u \in Threads \ {t} : pc'[u] = pc[u]
  BY <1>1 DEF IInv, Shape
<1>4. Shape'
  <2>1. /\ pc' \in [Threads -> {"closed", "open", "enter", "asleep", "woken",
                                "work", "cleanup", "leave", "gone"}]
        /\ pc'[Master] # "gone" /\ \A w \in Worker : pc'[w] \notin {"closed", "open"}
    BY <1>1 DEF IInv, Shape, Threads
  <2> QED BY <1>1, <1>2, <2>1, Zenon DEF IInv, Shape
<1>5. OthersQuiet(t)
  BY <1>1, <1>2, <1>3, <1>4, Zenon DEF OthersQuiet
<1>6. CASE Return(t)
  <2>1. /\ t = Master /\ Todo(t) = 0 /\ result' = Outcome(t) /\ fAllOk' = Outcome(t)
    BY <1>6, Zenon DEF Return, Finished
  <2>2. IF cancelled THEN fAllOk' = None ELSE fAllOk' = AllOk(t)
    BY <2>1, Zenon DEF Outcome
  <2>3. cancelled \in BOOLEAN
    BY DEF IInv, Shape
  <2> QED BY <1>1, <1>3, <1>5, <2>1, <2>2, <2>3, LeavesTop, Zenon
<1>7. CASE Exit(t)
  <2>1. mQuit /\ fAllOk' = AllOk(t) /\ result' = result
    BY <1>7, Zenon DEF Exit
  <2>2. t # Master
    BY <1>1, <2>1 DEF IInv, Phases, AtTop
  <2> QED BY <1>1, <1>3, <1>5, <2>1, <2>2, LeavesTop, Zenon
<1> QED BY <1>6, <1>7

\* The size of a batch is at least one and at most the queue.
LEMMA ShareIs ==
  ASSUME IInv, NEW t \in Threads, AtTop(t), Rest(t) # <<>>
  PROVE  Share(t) \in 1..Len(Rest(t))
<1> DEFINE d == Total(t) + Idle(t) + 1
           fair == Len(Rest(t)) \div d
           most == IF fair < BatchSize THEN fair ELSE BatchSize
<1>1. Len(Rest(t)) \in Nat /\ Len(Rest(t)) > 0
  BY RestIs
<1>2. d \in Nat \ {0}
  <2>1. Idle(t) \in Nat /\ Total(t) \in Nat
    BY CountersAre, Zenon
  <2> QED BY <2>1
<1>3. fair \in Nat /\ fair <= Len(Rest(t))
  <2> HIDE DEF d
  <2> QED BY <1>1, <1>2, DivLess
<1>4. most \in Nat /\ most <= Len(Rest(t))
  <2> HIDE DEF fair
  <2> QED BY <1>1, <1>3, QueueAssumption
<1>5. Share(t) = IF most > 1 THEN most ELSE 1
  BY DEF Share
<1> HIDE DEF most
<1> QED BY <1>1, <1>4, <1>5

\* What is cut off the front of a sequence, and what is left.
LEMMA FrontAndRest ==
  ASSUME NEW D, NEW r \in Seq(D), NEW n \in 1..Len(r)
  PROVE  /\ SubSeq(r, 1, n) \in Seq(D) /\ Len(SubSeq(r, 1, n)) = n
         /\ \A i \in 1..n : SubSeq(r, 1, n)[i] = r[i]
         /\ SubSeq(r, n + 1, Len(r)) \in Seq(D) /\ Len(SubSeq(r, n + 1, Len(r))) = Len(r) - n
         /\ \A i \in 1..(Len(r) - n) : SubSeq(r, n + 1, Len(r))[i] = r[n + i]
<1>1. Len(r) \in Nat /\ n \in Nat /\ 1 <= n /\ n <= Len(r)
  OBVIOUS
<1>2. \A i \in 1..n : r[i] \in D
  BY <1>1
<1>3. \A i \in (n + 1)..Len(r) : r[i] \in D
  BY <1>1
<1>4. /\ SubSeq(r, 1, n) \in Seq(D) /\ Len(SubSeq(r, 1, n)) = n
      /\ \A i \in 1..n : SubSeq(r, 1, n)[i] = r[i]
  BY <1>1, <1>2
<1>5. /\ SubSeq(r, n + 1, Len(r)) \in Seq(D) /\ Len(SubSeq(r, n + 1, Len(r))) = Len(r) - n
      /\ \A i \in 1..(Len(r) - n) : SubSeq(r, n + 1, Len(r))[i] = r[n + i]
  BY <1>1, <1>3
<1> QED BY <1>4, <1>5

\* A thread takes the first checks of the queue.
LEMMA TakeKeeps ==
  ASSUME IInv, NEW t \in Threads, Take(t)
  PROVE  IInv'
<1> DEFINE r == Rest(t)
           n == Share(t)
           lo == added - Len(r)
<1>1. /\ AtTop(t) /\ r # <<>> /\ nTodo' = Todo(t) /\ fAllOk' = AllOk(t)
      /\ nTotal' = Total(t) /\ nIdle' = Idle(t) /\ result' = result
      /\ pc' = Notify(t, [pc EXCEPT ![t] = "work"])
      /\ nNow' = [nNow EXCEPT ![t] = n] /\ batch' = [batch EXCEPT ![t] = SubSeq(r, 1, n)]
      /\ queue' = SubSeq(r, n + 1, Len(r)) /\ next' = [next EXCEPT ![t] = 1]
      /\ fOk' = [fOk EXCEPT ![t] = AllOk(t)]
      /\ UNCHANGED <<mQuit, cancelled, sessions, added, fails, passed>>
  BY Zenon DEF Take, CleanUp, session
<1>2. /\ r \in Seq(1..added) /\ Len(r) \in Nat /\ lo \in Nat /\ Taken <= lo /\ Taken \in Nat
      /\ added \in Nat /\ lo = added - Len(r) /\ \A i \in 1..Len(r) : r[i] = lo + i
  BY RestIs, Counting
<1>3. n \in 1..Len(r)
  BY <1>1, ShareIs
<1> HIDE DEF n, r, lo
<1>4. /\ Len(queue') = Len(r) - n /\ queue' \in Seq(1..added)
      /\ \A i \in 1..(Len(r) - n) : queue'[i] = r[n + i]
      /\ SubSeq(r, 1, n) \in Seq(1..added) /\ Len(SubSeq(r, 1, n)) = n
      /\ \A i \in 1..n : SubSeq(r, 1, n)[i] = r[i]
  <2>1. r \in Seq(1..added)
    BY <1>2
  <2>2. /\ SubSeq(r, 1, n) \in Seq(1..added) /\ Len(SubSeq(r, 1, n)) = n
        /\ \A i \in 1..n : SubSeq(r, 1, n)[i] = r[i]
        /\ SubSeq(r, n + 1, Len(r)) \in Seq(1..added) /\ Len(SubSeq(r, n + 1, Len(r))) = Len(r) - n
        /\ \A i \in 1..(Len(r) - n) : SubSeq(r, n + 1, Len(r))[i] = r[n + i]
    BY <1>3, <2>1, FrontAndRest, Zenon
  <2> QED BY <1>1, <2>2, Zenon
<1>20. /\ AtTop(t) /\ added' = added /\ passed' = passed /\ cancelled' = cancelled /\ fails' = fails
       /\ sessions' = sessions /\ mQuit' = mQuit /\ result' = result /\ fAllOk' = AllOk(t)
       /\ nTodo' = Todo(t)
  BY <1>1, Zenon
<1>5. SubSeq(r, 1, n) \in Seq(Nat)
  BY <1>2, <1>4, SMTT(60), Z3T(60)
<1>6. Shape' /\ pc'[t] = "work"
  <2>0. /\ batch \in [Threads -> Seq(Nat)] /\ nNow \in [Threads -> Nat] /\ next \in [Threads -> Nat \ {0}]
        /\ fOk \in [Threads -> {TRUE, FALSE, None}]
    BY Zenon DEF IInv, Shape
  <2>1. batch' \in [Threads -> Seq(Nat)]
    BY <1>1, <1>5, <2>0
  <2>2. nNow' \in [Threads -> Nat] /\ next' \in [Threads -> Nat \ {0}]
    BY <1>1, <1>3, <2>0
  <2>3. fOk' \in [Threads -> {TRUE, FALSE, None}]
    <3>1. AllOk(t) \in {TRUE, FALSE, None}
      BY <1>1, AllOkIs, Zenon
    <3> QED BY <1>1, <2>0, <3>1, Zenon
  <2> QED BY <1>1, <2>1, <2>2, <2>3, NotifyIs, Zenon DEF IInv, Shape
<1>7. OthersQuiet(t)
  <2>1. \A u \in Threads \ {t} :
          batch'[u] = batch[u] /\ nNow'[u] = nNow[u] /\ next'[u] = next[u] /\ fOk'[u] = fOk[u]
    BY <1>1, Zenon DEF IInv, Shape
  <2> QED BY <1>1, <1>6, <2>1, NotifyIs, Zenon DEF OthersQuiet
<1>8. /\ nNow'[t] = n /\ next'[t] = 1 /\ fOk'[t] = AllOk(t) /\ Len(batch'[t]) = n
      /\ batch'[t] \in Seq(Nat) /\ batch'[t][1] = lo + 1
      /\ \A i \in 1..n : batch'[t][i] = batch'[t][1] + i - 1
  <2>1. nNow'[t] = n /\ next'[t] = 1 /\ batch'[t] = SubSeq(r, 1, n)
    BY <1>1, Zenon DEF IInv, Shape
  <2>2. fOk'[t] = AllOk(t)
    BY <1>1, Zenon DEF IInv, Shape
  <2>3. \A i \in 1..n : batch'[t][i] = lo + i
    BY <1>2, <1>3, <1>4, <2>1
  <2>4. batch'[t][1] = lo + 1
    BY <1>3, <2>3
  <2>5. \A i \in 1..n : batch'[t][i] = batch'[t][1] + i - 1
    BY <1>2, <1>3, <2>3, <2>4
  <2> QED BY <1>4, <1>5, <2>1, <2>2, <2>4, <2>5, Zenon
<1>9. /\ Held(t)' = (lo + 1)..(lo + n) /\ IsFiniteSet(Held(t)') /\ Cardinality(Held(t)') = n
  <2>1. Held(t)' = {batch'[t][i] : i \in 1..Len(batch'[t])}
    BY DEF Held
  <2>2. n \in Nat \ {0} /\ (lo + 1) + n - 1 = lo + n
    BY <1>2, <1>3
  <2> QED BY <1>8, <2>1, <2>2, BatchInterval, ZenonT(60)
<1>10. /\ t \in Busy' /\ Outstanding' = Others(t) \cup Held(t)' /\ Others(t) \cap Held(t)' = {}
       /\ Others(t) \subseteq 1..lo
       /\ Cardinality(Outstanding') = Cardinality(Others(t)) + n
  <2>1. t \in Busy'
    BY <1>6 DEF Busy, At
  <2>2. Outstanding' = UNION {Held(u)' : u \in Busy'}
    BY Zenon DEF Outstanding
  <2>3. Outstanding' = Others(t) \cup Held(t)'
    <3>1. Others(t)' = Others(t)
      BY <1>7, QuietSets, Zenon DEF Others
    <3>2. Outstanding' = Others(t)' \cup Held(t)'
      BY <2>1 DEF Others, Outstanding
    <3> QED BY <3>1, <3>2, Zenon
  <2>4. Others(t) \subseteq 1..lo
    <3>1. Others(t) \subseteq 1..Taken
      BY OthersHold
    <3> QED BY <1>2, <3>1
  <2>5. Others(t) \cap Held(t)' = {}
    BY <1>2, <1>9, <2>4
  <2>6. IsFiniteSet(Others(t)) /\ Cardinality(Others(t)) \in Nat
    BY OthersHold, Zenon
  <2>7. Cardinality(Others(t) \cup Held(t)') = Cardinality(Others(t)) + Cardinality(Held(t)')
    <3>1. IsFiniteSet(Held(t)') /\ Cardinality(Held(t)') \in Nat
      BY <1>9, FS_CardinalityType, Zenon
    <3>2. Cardinality(Others(t) \cup Held(t)')
            = Cardinality(Others(t)) + Cardinality(Held(t)') - Cardinality(Others(t) \cap Held(t)')
      BY <2>6, <3>1, FS_Union, Zenon
    <3>3. Cardinality(Others(t) \cap Held(t)') = 0
      BY <2>5, FS_EmptySet, Zenon
    <3> QED BY <2>6, <3>1, <3>2, <3>3
  <2> QED BY <1>9, <2>1, <2>3, <2>4, <2>5, <2>7
<1>11. /\ Taken' = lo + n /\ lo + n <= added /\ nTodo' = Len(queue') + Cardinality(Outstanding')
       /\ nTodo' \in 0..added
  <2>1. Taken' = lo + n /\ lo + n <= added
    <3>1. Taken' = added - Len(queue')
      BY <1>20, Zenon DEF Taken
    <3> QED BY <1>2, <1>3, <1>4, <3>1
  <2>2. nTodo' = Len(r) + Cardinality(Others(t)) /\ Cardinality(Others(t)) \in Nat
    BY <1>1, TodoIs, OthersHold DEF r
  <2>3. Cardinality(Others(t)) <= lo
    BY <1>2, <1>10, ChecksFinite, Zenon
  <2>4. Len(queue') = Len(r) - n /\ Cardinality(Outstanding') = Cardinality(Others(t)) + n
    BY <1>4, <1>10, Zenon
  <2>5. Len(r) \in Nat /\ lo \in Nat /\ lo = added - Len(r) /\ added \in Nat
    BY <1>2, Zenon
  <2> QED BY <1>3, <2>1, <2>2, <2>3, <2>4, <2>5
<1>12. nIdle' = Cardinality(Waiting') /\ nTotal' = Cardinality(Inside')
  <2>1. Waiting' = Waiting \ {t}
    <3>1. t \notin Waiting'
      BY <1>6 DEF Waiting, At
    <3> QED BY <1>7, <3>1, QuietSets, Zenon
  <2>2. Inside' = (Inside \ {t}) \cup {t}
    <3>1. t \in Inside'
      BY <1>6 DEF Inside, At
    <3> QED BY <1>7, <3>1, QuietSets, Zenon
  <2>3. Inside \ {t} \in SUBSET Threads
    BY DEF Inside, At
  <2>4. Cardinality((Inside \ {t}) \cup {t}) = Cardinality(Inside \ {t}) + 1
    BY <2>3, CountWith
  <2> QED BY <1>1, <2>1, <2>2, <2>4, CountersAre
<1>13. TypeOK'
  <2>1. \A v \in Busy' : nNow'[v] > 0 /\ Len(batch'[v]) = nNow'[v]
    <3>1. \A v \in Busy' \ {t} : nNow'[v] > 0 /\ Len(batch'[v]) = nNow'[v]
      BY <1>20, <1>7, OthersKeep, Zenon
    <3>2. nNow'[t] > 0 /\ Len(batch'[t]) = nNow'[t]
      BY <1>3, <1>8
    <3> QED BY <3>1, <3>2, Zenon
  <2>2. queue' \in Seq(1..added') /\ nTodo' \in 0..added'
    BY <1>20, <1>4, <1>11
  <2>3. passed' \subseteq 1..added' /\ result' \in {TRUE, FALSE, None}
    BY <1>20, Zenon DEF IInv, TypeOK
  <2>4. fAllOk' \in {TRUE, FALSE, None}
    BY <1>20, AllOkIs, Zenon
  <2> QED BY <1>12, <2>1, <2>2, <2>3, <2>4, Zenon DEF TypeOK
<1>14. TodoCounts'
  <2>1. \A v, u \in Busy' \ {t} : v # u => Held(v)' \cap Held(u)' = {}
    BY <1>7, QuietSets, Zenon DEF IInv, TodoCounts
  <2>2. \A v \in Busy' \ {t} : Held(v)' \cap Held(t)' = {}
    <3>1. \A v \in Busy' \ {t} : Held(v)' \subseteq Others(t)
      <4>1. UNION {Held(u)' : u \in Busy' \ {t}} = Others(t)
        BY <1>7, QuietSets, Zenon
      <4> QED BY <4>1
    <3> QED BY <3>1, <1>10, Zenon
  <2>3. \A v, u \in Busy' : v # u => Held(v)' \cap Held(u)' = {}
    BY <2>1, <2>2, Zenon
  <2> QED BY <1>11, <2>3, Zenon DEF TodoCounts
<1>15. InOrder'
  <2>1. Len(queue') <= added' /\ \A i \in 1..Len(queue') : queue'[i] = Taken' + i
    <3>1. Taken' = lo + n /\ Len(queue') = Len(r) - n /\ added' = added
      BY <1>20, <1>4, <1>11, Zenon
    <3>2. \A i \in 1..Len(queue') : queue'[i] = r[n + i]
      BY <1>4, Zenon
    <3>3. \A i \in 1..Len(queue') : n + i \in 1..Len(r)
      BY <1>2, <1>3, <3>1
    <3>4. \A i \in 1..Len(r) : r[i] = lo + i
      BY <1>2, Zenon
    <3>5. \A i \in 1..Len(queue') : queue'[i] = lo + (n + i)
      BY <3>2, <3>3, <3>4, Zenon
    <3>6. lo \in Nat /\ n \in Nat /\ Len(r) \in Nat /\ Len(r) <= added /\ added \in Nat
      BY <1>2, <1>3
    <3> QED BY <3>1, <3>5, <3>6
  <2>2. /\ batch'[t][1] > 0 /\ batch'[t][1] + nNow'[t] - 1 <= Taken'
        /\ \A i \in 1..nNow'[t] : batch'[t][i] = batch'[t][1] + i - 1
    <3>1. \A i \in 1..nNow'[t] : batch'[t][i] = batch'[t][1] + i - 1
      BY <1>8, Zenon
    <3>2. batch'[t][1] = lo + 1 /\ nNow'[t] = n /\ Taken' = lo + n /\ lo \in Nat
      BY <1>2, <1>8, <1>11, Zenon
    <3> QED BY <1>3, <3>1, <3>2
  <2>3. ASSUME NEW v \in Busy' \ {t}
        PROVE  /\ batch'[v][1] > 0 /\ batch'[v][1] + nNow'[v] - 1 <= Taken'
               /\ \A i \in 1..nNow'[v] : batch'[v][i] = batch'[v][1] + i - 1
    <3>1. /\ batch'[v][1] > 0 /\ batch'[v][1] + nNow'[v] - 1 <= Taken
          /\ \A i \in 1..nNow'[v] : batch'[v][i] = batch'[v][1] + i - 1
      BY <1>20, <1>7, OthersKeep, ZenonT(60)
    <3>2. batch'[v][1] + nNow'[v] - 1 \in Int
      <4>1. v \in Busy /\ batch'[v] = batch[v] /\ nNow'[v] = nNow[v]
        BY <1>20, <1>7, OthersKeep, Zenon DEF OthersQuiet
      <4> QED BY <4>1, HeldIs, SMTT(60), Z3T(60)
    <3> QED BY <1>2, <1>3, <1>11, <3>1, <3>2
  <2> QED BY <2>1, <2>2, <2>3, Zenon DEF InOrder
<1>16. Phases'
  <2>1. \A w \in Worker : pc'[w] \in {"leave", "gone"} => mQuit'
    <3> SUFFICES ASSUME NEW w \in Worker, pc'[w] \in {"leave", "gone"} PROVE mQuit
      BY <1>20
    <3>1. w \in Threads \ {t}
      BY <1>6 DEF Threads
    <3>2. pc[w] \in {"leave", "gone"}
      BY <1>7, <3>1 DEF OthersQuiet
    <3> QED BY <3>2 DEF IInv, Phases
  <2>2. CASE t = Master
    <3>1. ~mQuit'
      BY <1>20, <2>2 DEF IInv, Phases, AtTop
    <3> QED BY <1>6, <2>1, <2>2, <3>1 DEF Phases
  <2>3. CASE t # Master
    BY <1>20, <1>7, <2>1, <2>3, MasterAway, Zenon DEF Phases
  <2> QED BY <2>2, <2>3
<1>17. Truthful'
  <2>1. ~cancelled' => fAllOk' # None /\ \A v \in Busy' : fOk'[v] # None
    BY <1>20, <1>7, <1>8, AllOkIs, OthersKeep, Zenon
  <2>2. fAllOk' = FALSE \/ (\E v \in Busy' : fOk'[v] = FALSE) => fails' \cap 1..added' # {}
    <3>1. AllOk(t) = FALSE => fails \cap 1..added # {}
      BY <1>20, AllOkIs, Zenon
    <3>2. \A v \in Busy' \ {t} : fOk'[v] = FALSE => fails \cap 1..added # {}
      BY <1>20, <1>7, OthersKeep, Zenon
    <3> QED BY <1>20, <1>8, <3>1, <3>2, Zenon
  <2>3. ASSUME ~cancelled', fAllOk' = TRUE PROVE 1..Taken' \subseteq passed' \cup Outstanding'
    <3>1. 1..lo \subseteq passed \cup Others(t)
      <4>1. 1..(added - Len(Rest(t))) \subseteq passed \cup Others(t)
        BY <1>20, <2>3, AllOkIs, Zenon
      <4>2. lo = added - Len(Rest(t))
        BY <1>2, Zenon DEF r
      <4> QED BY <4>1, <4>2, Zenon
    <3>2. 1..Taken' \subseteq 1..lo \cup Held(t)'
      BY <1>2, <1>3, <1>9, <1>11, SMTT(60), Z3T(60)
    <3> QED BY <1>20, <1>10, <3>1, <3>2, Zenon
  <2>4. \A v \in Busy' : fOk'[v] = TRUE =>
          /\ pc'[v] = "work" => \A i \in 1..nNow'[v] : i < next'[v] => batch'[v][i] \in passed'
          /\ pc'[v] = "cleanup" /\ ~cancelled' => Held(v)' \subseteq passed'
    <3>1. \A i \in 1..nNow'[t] : ~(i < next'[t])
      BY <1>3, <1>8
    <3>2. pc'[t] # "cleanup"
      BY <1>6
    <3>3. \A v \in Busy' \ {t} : fOk'[v] = TRUE =>
            /\ pc'[v] = "work" => \A i \in 1..nNow'[v] : i < next'[v] => batch'[v][i] \in passed
            /\ pc'[v] = "cleanup" /\ ~cancelled => Held(v)' \subseteq passed
      BY <1>20, <1>7, OthersKeep, Zenon
    <3> QED BY <1>20, <3>1, <3>2, <3>3, Zenon
  <2>5. ASSUME pc'[Master] \in {"leave", "closed"}, sessions' > 0 PROVE Verdict'
    <3>1. t # Master
      BY <1>6, <2>5
    <3>2. Verdict
      BY <1>20, <1>7, <2>5, <3>1, MasterAway, ZenonT(60)
    <3> QED BY <1>20, <3>2, Zenon DEF Verdict
  <2> QED BY <2>1, <2>2, <2>3, <2>4, <2>5, Zenon DEF Truthful
<1> QED BY <1>6, <1>13, <1>14, <1>15, <1>16, <1>17, Zenon DEF IInv


\* A step that moves no check.
LEMMA BatchesStay ==
  ASSUME IInv, Busy' = Busy, batch' = batch, nNow' = nNow, Taken' = Taken
  PROVE  /\ Outstanding' = Outstanding /\ \A u \in Threads : Held(u)' = Held(u)
         /\ \A u \in Busy' : nNow'[u] > 0 /\ Len(batch'[u]) = nNow'[u]
         /\ \A u, v \in Busy' : u # v => Held(u)' \cap Held(v)' = {}
         /\ \A u \in Busy' :
              /\ batch'[u][1] > 0 /\ batch'[u][1] + nNow'[u] - 1 <= Taken'
              /\ \A i \in 1..nNow'[u] : batch'[u][i] = batch'[u][1] + i - 1
<1>1. \A u : Held(u)' = Held(u)
  BY Zenon DEF Held
<1>2. Outstanding' = Outstanding
  BY <1>1, Zenon DEF Outstanding
<1>3. \A u \in Busy' : nNow'[u] > 0 /\ Len(batch'[u]) = nNow'[u]
  BY Zenon DEF IInv, TypeOK
<1>4. \A u, v \in Busy' : u # v => Held(u)' \cap Held(v)' = {}
  BY <1>1, Zenon DEF IInv, TodoCounts
<1>5. \A u \in Busy' :
        /\ batch'[u][1] > 0 /\ batch'[u][1] + nNow'[u] - 1 <= Taken'
        /\ \A i \in 1..nNow'[u] : batch'[u][i] = batch'[u][1] + i - 1
  BY Zenon DEF IInv, InOrder
<1> QED BY <1>1, <1>2, <1>3, <1>4, <1>5, Zenon

\* A step outside the queue.
LEMMA QueueStays ==
  ASSUME IInv, Busy' = Busy, UNCHANGED <<queue, nTodo, added, batch, nNow>>,
         passed' \subseteq 1..added, fAllOk' \in {TRUE, FALSE, None}, result' \in {TRUE, FALSE, None},
         nIdle' = Cardinality(Waiting'), nTotal' = Cardinality(Inside')
  PROVE  /\ TypeOK' /\ TodoCounts' /\ InOrder'
         /\ Outstanding' = Outstanding /\ Taken' = Taken /\ \A u \in Threads : Held(u)' = Held(u)
<1>1. Taken' = Taken
  BY Zenon DEF Taken
<1>2. TypeOK'
  BY <1>1, BatchesStay, Zenon DEF IInv, TypeOK
<1>3. TodoCounts'
  BY <1>1, BatchesStay, Zenon DEF IInv, TodoCounts
<1>4. InOrder'
  <2>1. Len(queue') <= added' /\ \A i \in 1..Len(queue') : queue'[i] = Taken' + i
    BY <1>1, Zenon DEF IInv, InOrder
  <2> QED BY <1>1, <2>1, BatchesStay, Zenon DEF InOrder
<1> QED BY <1>1, <1>2, <1>3, <1>4, BatchesStay, Zenon

\* Waking threads moves nobody in or out of the loop.
Wakes == \A u \in Threads : pc'[u] = pc[u] \/ (pc[u] = "asleep" /\ pc'[u] = "woken")

\* The counters and the batches stay when threads are woken.
LEMMA WakingStays ==
  ASSUME IInv, Wakes
  PROVE  /\ Busy' = Busy /\ Waiting' = Waiting /\ Inside' = Inside
         /\ nIdle = Cardinality(Waiting') /\ nTotal = Cardinality(Inside')
         /\ \A u \in Busy : pc'[u] = pc[u]
         /\ \A u \in Threads : pc'[u] \in {"closed", "leave", "gone"} => pc'[u] = pc[u]
<1>1. Busy' = Busy /\ Waiting' = Waiting /\ Inside' = Inside
  BY DEF Wakes, Busy, Waiting, Inside, At
<1>2. nIdle = Cardinality(Waiting') /\ nTotal = Cardinality(Inside')
  BY <1>1, Zenon DEF IInv, TypeOK
<1>3. \A u \in Busy : pc'[u] = pc[u]
  BY DEF Wakes, Busy, At
<1>4. \A u \in Threads : pc'[u] \in {"closed", "leave", "gone"} => pc'[u] = pc[u]
  BY DEF Wakes
<1> QED BY <1>1, <1>2, <1>3, <1>4, Zenon

\* What fAllOk and fOk say of the threads' checks stays true when they stay where they are.
LEMMA BusyTruthful ==
  ASSUME IInv, Busy' = Busy, \A u \in Busy : pc'[u] = pc[u] /\ Held(u)' = Held(u),
         1..added \subseteq 1..added', batch' = batch, nNow' = nNow, next' = next, fOk' = fOk, passed' = passed,
         fAllOk' = fAllOk, fails' = fails, Outstanding' = Outstanding, Taken' = Taken,
         ~cancelled' => ~cancelled, pc'[Master] \in {"leave", "closed"} /\ sessions' > 0 => Verdict'
  PROVE  Truthful'
<1>1. ~cancelled' => fAllOk' # None /\ \A v \in Busy' : fOk'[v] # None
  BY Zenon DEF IInv, Truthful
<1>2. fAllOk' = FALSE \/ (\E v \in Busy' : fOk'[v] = FALSE) => fails' \cap 1..added' # {}
  BY Zenon DEF IInv, Truthful
<1>3. ~cancelled' /\ fAllOk' = TRUE => 1..Taken' \subseteq passed' \cup Outstanding'
  BY Zenon DEF IInv, Truthful
<1>4. ASSUME NEW v \in Busy', fOk'[v] = TRUE
      PROVE  /\ pc'[v] = "work" => \A i \in 1..nNow'[v] : i < next'[v] => batch'[v][i] \in passed'
             /\ pc'[v] = "cleanup" /\ ~cancelled' => Held(v)' \subseteq passed'
  <2>1. v \in Busy /\ pc'[v] = pc[v] /\ Held(v)' = Held(v)
    BY Zenon
  <2>2. /\ pc[v] = "work" => \A i \in 1..nNow[v] : i < next[v] => batch[v][i] \in passed
        /\ pc[v] = "cleanup" /\ ~cancelled => Held(v) \subseteq passed
    BY <1>4, <2>1, Zenon DEF IInv, Truthful
  <2> QED BY <2>1, <2>2, Zenon
<1> QED BY <1>1, <1>2, <1>3, <1>4, Zenon DEF Truthful

\* A step that does no more than that, or cancels the session, or destroys the queue.
LEMMA WakingKeeps ==
  ASSUME IInv, Wakes, Shape', UNCHANGED <<queue, nTodo, added, batch, nNow>>,
         passed' = passed, fAllOk' = fAllOk, result' = result, nIdle' = nIdle, nTotal' = nTotal,
         next' = next, fOk' = fOk, sessions' = sessions, fails' = fails,
         mQuit' = mQuit \/ (mQuit' = TRUE /\ pc'[Master] = "closed"),
         cancelled' = cancelled \/ cancelled' = TRUE
  PROVE  IInv'
<1>0. Master \in Threads /\ Worker \subseteq Threads /\ 1..added \subseteq 1..added'
  BY Zenon DEF Threads
<1>1. /\ TypeOK' /\ TodoCounts' /\ InOrder'
      /\ Outstanding' = Outstanding /\ Taken' = Taken /\ \A u \in Threads : Held(u)' = Held(u)
  <2>1. passed \subseteq 1..added /\ fAllOk \in {TRUE, FALSE, None} /\ result \in {TRUE, FALSE, None}
    BY Zenon DEF IInv, TypeOK
  <2> QED BY <2>1, QueueStays, WakingStays, Zenon
<1>2. Phases'
  <2>1. mQuit => pc[Master] = "closed"
    BY Zenon DEF IInv, Phases
  <2>2. pc[Master] = "closed" => pc'[Master] = "closed"
    BY <1>0 DEF Wakes
  <2>3. \A w \in Worker : pc'[w] \in {"leave", "gone"} => mQuit
    BY <1>0, WakingStays, Zenon DEF IInv, Phases
  <2>4. pc'[Master] \in {"leave", "closed"} => nTodo = 0
    BY <1>0, WakingStays, Zenon DEF IInv, Phases
  <2>5. mQuit => mQuit'
    BY Zenon
  <2>7. nTodo' = nTodo
    OBVIOUS
  <2>6. mQuit' => pc'[Master] = "closed"
    BY <2>1, <2>2, Zenon
  <2> QED BY <2>3, <2>4, <2>5, <2>6, <2>7, Zenon DEF Phases
<1>3. Truthful'
  <2>0. /\ Busy' = Busy /\ Busy \subseteq Threads /\ (~cancelled' => ~cancelled)
        /\ \A u \in Busy' : pc'[u] = pc[u] /\ Held(u)' = Held(u)
    <3>1. Busy \subseteq Threads
      BY Zenon DEF Busy, At
    <3>2. Busy' = Busy /\ \A u \in Busy : pc'[u] = pc[u]
      BY WakingStays, Zenon
    <3>3. ~cancelled' => ~cancelled
      BY Zenon
    <3> QED BY <1>1, <3>1, <3>2, <3>3, Zenon
  <2>5. pc'[Master] \in {"leave", "closed"} /\ sessions' > 0 => Verdict'
    <3>1. pc'[Master] \in {"leave", "closed"} => pc'[Master] = pc[Master]
      BY <1>0, WakingStays, Zenon
    <3>2. pc'[Master] \in {"leave", "closed"} /\ sessions' > 0 => Verdict
      BY <3>1, ZenonT(60) DEF IInv, Truthful
    <3> QED BY <2>0, <3>2, Zenon DEF Verdict
  <2> QED BY <1>0, <1>1, <2>0, <2>5, BusyTruthful, Zenon
<1> QED BY <1>1, <1>2, <1>3, Zenon DEF IInv

\* A sleeping thread wakes for no reason.
LEMMA SpuriousKeeps ==
  ASSUME IInv, NEW t \in Threads, Spurious(t)
  PROVE  IInv'
<1>1. /\ pc[t] = "asleep" /\ pc' = [pc EXCEPT ![t] = "woken"] /\ UNCHANGED <<shared, session, passed, local, result>>
  BY Zenon DEF Spurious
<1>2. /\ UNCHANGED <<queue, nTodo, added, batch, nNow>>
      /\ passed' = passed /\ fAllOk' = fAllOk /\ result' = result
      /\ nIdle' = nIdle /\ nTotal' = nTotal /\ mQuit' = mQuit /\ next' = next /\ fOk' = fOk
      /\ cancelled' = cancelled /\ sessions' = sessions /\ fails' = fails
  BY <1>1, Zenon DEF shared, session, local
<1>3. /\ Wakes /\ Shape'
  <2>1. /\ pc \in [Threads -> {"closed", "open", "enter", "asleep", "woken",
                               "work", "cleanup", "leave", "gone"}]
        /\ Master \in Threads /\ Worker \subseteq Threads
    BY Zenon DEF IInv, Shape, Threads
  <2>2. Wakes
    BY <1>1, <2>1 DEF Wakes
  <2>3. /\ pc' \in [Threads -> {"closed", "open", "enter", "asleep", "woken",
                                "work", "cleanup", "leave", "gone"}]
        /\ pc'[Master] # "gone" /\ \A w \in Worker : pc'[w] \notin {"closed", "open"}
    BY <1>1, <2>1 DEF IInv, Shape
  <2> QED BY <1>2, <2>2, <2>3, Zenon DEF IInv, Shape
<1> QED BY <1>2, <1>3, WakingKeeps, Zenon

\* The pool, the owner or a shutdown cancels the session, and the queue is destroyed.
LEMMA CancelKeeps ==
  ASSUME IInv, Cancel
  PROVE  IInv'
<1>1. /\ UNCHANGED <<queue, nTodo, added, batch, nNow>>
      /\ passed' = passed /\ fAllOk' = fAllOk /\ result' = result
      /\ nIdle' = nIdle /\ nTotal' = nTotal /\ mQuit' = mQuit /\ next' = next /\ fOk' = fOk
      /\ cancelled' = TRUE /\ sessions' = sessions /\ fails' = fails /\ pc' = pc
  BY Zenon DEF Cancel, shared, local
<1>2. Wakes /\ Shape'
  BY <1>1, Zenon DEF Wakes, IInv, Shape
<1> QED BY <1>1, <1>2, WakingKeeps, Zenon

\* ~CCheckQueue tells the workers to leave.
LEMMA QuitKeeps ==
  ASSUME IInv, Quit
  PROVE  IInv'
<1>1. /\ UNCHANGED <<queue, nTodo, added, batch, nNow>>
      /\ passed' = passed /\ fAllOk' = fAllOk /\ result' = result
      /\ nIdle' = nIdle /\ nTotal' = nTotal /\ mQuit' = TRUE /\ next' = next /\ fOk' = fOk
      /\ cancelled' = cancelled /\ sessions' = sessions /\ fails' = fails /\ pc[Master] = "closed"
      /\ pc' = [t \in Threads |-> IF t \in Worker /\ pc[t] = "asleep" THEN "woken" ELSE pc[t]]
  BY Zenon DEF Quit, session, local
<1>2. /\ pc' \in [Threads -> {"closed", "open", "enter", "asleep", "woken",
                              "work", "cleanup", "leave", "gone"}]
      /\ pc'[Master] = "closed" /\ \A w \in Worker : pc'[w] \notin {"closed", "open"}
      /\ Wakes
  BY <1>1 DEF IInv, Shape, Threads, Wakes
<1>3. Shape'
  BY <1>1, <1>2, Zenon DEF IInv, Shape
<1> QED BY <1>1, <1>2, <1>3, WakingKeeps, Zenon

\* Wait() enters the loop.
LEMMA WaitKeeps ==
  ASSUME IInv, Wait
  PROVE  IInv'
<1>1. /\ UNCHANGED <<queue, nTodo, added, batch, nNow>>
      /\ passed' = passed /\ fAllOk' = fAllOk /\ result' = result
      /\ nIdle' = nIdle /\ nTotal' = nTotal /\ mQuit' = mQuit /\ next' = next /\ fOk' = fOk
      /\ cancelled' = cancelled /\ sessions' = sessions /\ fails' = fails
      /\ pc[Master] = "open" /\ pc' = [pc EXCEPT ![Master] = "enter"]
  BY Zenon DEF Wait, shared, session, local
<1>2. /\ pc' \in [Threads -> {"closed", "open", "enter", "asleep", "woken",
                              "work", "cleanup", "leave", "gone"}]
      /\ pc'[Master] = "enter" /\ \A u \in Threads \ {Master} : pc'[u] = pc[u]
      /\ Worker \subseteq Threads \ {Master}
  BY <1>1, QueueAssumption DEF IInv, Shape, Threads
<1>3. Busy' = Busy /\ Waiting' = Waiting /\ Inside' = Inside /\ \A u \in Busy : pc'[u] = pc[u]
  BY <1>1, <1>2 DEF Busy, Waiting, Inside, At
<1>4. Shape'
  BY <1>1, <1>2, Zenon DEF IInv, Shape
<1>5. /\ TypeOK' /\ TodoCounts' /\ InOrder'
      /\ Outstanding' = Outstanding /\ Taken' = Taken /\ \A u \in Threads : Held(u)' = Held(u)
  <2>1. /\ passed \subseteq 1..added /\ fAllOk \in {TRUE, FALSE, None} /\ result \in {TRUE, FALSE, None}
        /\ nIdle = Cardinality(Waiting) /\ nTotal = Cardinality(Inside)
    BY Zenon DEF IInv, TypeOK
  <2> QED BY <1>1, <1>3, <2>1, QueueStays, Zenon
<1>6. Phases'
  <2>1. ~mQuit
    BY <1>1 DEF IInv, Phases
  <2>2. \A w \in Worker : pc'[w] \in {"leave", "gone"} => mQuit
    BY <1>2, Zenon DEF IInv, Phases
  <2> QED BY <1>1, <1>2, <2>1, <2>2, SMTT(60), Z3T(60) DEF Phases
<1>7. Truthful'
  <2>1. \A u \in Busy : Held(u)' = Held(u)
    BY <1>5, Zenon DEF Busy, At
  <2>2. pc'[Master] \notin {"leave", "closed"}
    BY <1>2
  <2>3. 1..added \subseteq 1..added'
    BY <1>1, Zenon
  <2> QED BY <1>1, <1>3, <1>5, <2>1, <2>2, <2>3, BusyTruthful, Zenon
<1> QED BY <1>4, <1>5, <1>6, <1>7, Zenon DEF IInv

\* A session starts on an idle queue.
LEMMA StartKeeps ==
  ASSUME IInv, StartCheckingSession
  PROVE  IInv'
<1>1. /\ queue' = queue /\ nTodo' = nTodo /\ nIdle' = nIdle /\ nTotal' = nTotal /\ mQuit' = mQuit
      /\ batch' = batch /\ next' = next /\ nNow' = nNow /\ fOk' = fOk
      /\ fAllOk' = TRUE /\ cancelled' = FALSE /\ added' = 0 /\ passed' = {} /\ result' = None
      /\ pc[Master] = "closed" /\ pc' = [pc EXCEPT ![Master] = "open"]
      /\ sessions' = sessions + 1 /\ ~mQuit /\ nTodo = 0
  BY Zenon DEF StartCheckingSession, local, IsIdle
<1>2. /\ pc' \in [Threads -> {"closed", "open", "enter", "asleep", "woken",
                              "work", "cleanup", "leave", "gone"}]
      /\ pc'[Master] = "open" /\ \A u \in Threads \ {Master} : pc'[u] = pc[u]
      /\ Worker \subseteq Threads \ {Master}
  BY <1>1, QueueAssumption, SMTT(60), Z3T(60) DEF IInv, Shape, Threads
<1>3. Busy' = Busy /\ Waiting' = Waiting /\ Inside' = Inside
  BY <1>1, <1>2 DEF Busy, Waiting, Inside, At
<1>4. Shape'
  <2>1. sessions' \in Nat /\ added' \in Nat
    BY <1>1 DEF IInv, Shape
  <2> QED BY <1>1, <1>2, <2>1, ZenonT(60) DEF IInv, Shape
<1>5. Busy' = {} /\ queue' = <<>> /\ Len(queue') = 0 /\ Taken' = 0
  <2>1. Busy = {} /\ queue = <<>> /\ Len(queue) = 0
    BY <1>1, NothingLeft
  <2>2. added' = 0 /\ queue' = queue
    BY <1>1, Zenon
  <2>3. Taken' = added' - Len(queue')
    BY Zenon DEF Taken
  <2> QED BY <1>3, <2>1, <2>2, <2>3
<1>6. Outstanding' = {} /\ Cardinality(Outstanding') = 0
  <2>1. Outstanding' = {}
    BY <1>5 DEF Outstanding
  <2> QED BY <2>1, FS_EmptySet
<1>7. TypeOK'
  <2>1. queue' \in Seq(1..added') /\ nTodo' \in 0..added' /\ passed' \subseteq 1..added'
    BY <1>1, <1>5
  <2>2. nIdle' = Cardinality(Waiting') /\ nTotal' = Cardinality(Inside')
    BY <1>1, <1>3, Zenon DEF IInv, TypeOK
  <2> QED BY <1>1, <1>5, <2>1, <2>2, Zenon DEF TypeOK
<1>8. TodoCounts'
  <2>1. nTodo' = Len(queue') + Cardinality(Outstanding')
    BY <1>1, <1>5, <1>6
  <2> QED BY <1>5, <2>1, Zenon DEF TodoCounts
<1>9. InOrder'
  <2>1. Len(queue') <= added' /\ \A i \in 1..Len(queue') : queue'[i] = Taken' + i
    BY <1>1, <1>5
  <2> QED BY <1>5, <2>1, Zenon DEF InOrder
<1>10. Phases'
  <2>1. \A w \in Worker : pc'[w] \in {"leave", "gone"} => mQuit
    BY <1>2, Zenon DEF IInv, Phases
  <2>2. pc'[Master] \notin {"leave", "closed"}
    BY <1>2
  <2> QED BY <1>1, <2>1, <2>2, Zenon DEF Phases
<1>11. Truthful'
  <2>1. TRUE # None
    BY QueueAssumption, Zenon
  <2>2. 1..Taken' = {}
    BY <1>5
  <2>3. pc'[Master] \notin {"leave", "closed"}
    BY <1>2
  <2> QED BY <1>1, <1>5, <2>1, <2>2, <2>3, Zenon DEF Truthful
<1> QED BY <1>4, <1>7, <1>8, <1>9, <1>10, <1>11, ZenonT(60) DEF IInv

\* What Add appends to the queue.
LEMMA Concatenated ==
  ASSUME NEW S, NEW s \in Seq(S), NEW m \in Seq(S)
  PROVE  /\ s \o m \in Seq(S) /\ Len(s \o m) = Len(s) + Len(m)
         /\ \A i \in 1..(Len(s) + Len(m)) : (s \o m)[i] = IF i <= Len(s) THEN s[i] ELSE m[i - Len(s)]
OBVIOUS

\* The queue after Add holds the added checks in order, behind the others.
LEMMA Appended ==
  ASSUME NEW a \in Nat, NEW s \in Seq(1..a), NEW k \in Nat, NEW r, r = s \o [i \in 1..k |-> a + i]
  PROVE  /\ r \in Seq(1..(a + k)) /\ Len(r) = Len(s) + k
         /\ \A i \in 1..(Len(s) + k) : r[i] = IF i <= Len(s) THEN s[i] ELSE a + (i - Len(s))
<1> DEFINE m == [i \in 1..k |-> a + i]
<1>1. m \in Seq(1..(a + k)) /\ Len(m) = k /\ \A i \in 1..k : m[i] = a + i
  <2>1. \A i \in 1..k : a + i \in 1..(a + k)
    OBVIOUS
  <2> QED BY <2>1
<1>2. s \in Seq(1..(a + k))
  <2>1. 1..a \subseteq 1..(a + k)
    OBVIOUS
  <2> QED BY <2>1
<1>3. r = s \o m
  OBVIOUS
<1> HIDE DEF m
<1>4. /\ r \in Seq(1..(a + k)) /\ Len(r) = Len(s) + k
      /\ \A i \in 1..(Len(s) + k) : r[i] = IF i <= Len(s) THEN s[i] ELSE m[i - Len(s)]
  <2>1. /\ s \o m \in Seq(1..(a + k)) /\ Len(s \o m) = Len(s) + Len(m)
        /\ \A i \in 1..(Len(s) + Len(m)) : (s \o m)[i] = IF i <= Len(s) THEN s[i] ELSE m[i - Len(s)]
    <3>1. m \in Seq(1..(a + k))
      BY <1>1
    <3> QED BY <3>1, <1>2, Concatenated, ZenonT(60)
  <2>2. Len(m) = k
    BY <1>1
  <2> QED BY <1>3, <2>1, <2>2, Zenon
<1>5. \A i \in 1..(Len(s) + k) : ~(i <= Len(s)) => i - Len(s) \in 1..k
  OBVIOUS
<1> QED BY <1>1, <1>4, <1>5, ZenonT(60)

\* Add pushes k checks behind the others and wakes workers.
LEMMA AddKeeps ==
  ASSUME IInv, NEW k \in 0..2, Add(k)
  PROVE  IInv'
<1>1. /\ queue' = queue \o [i \in 1..k |-> added + i] /\ nTodo' = nTodo + k /\ added' = added + k
      /\ nIdle' = nIdle /\ nTotal' = nTotal /\ fAllOk' = fAllOk /\ mQuit' = mQuit
      /\ cancelled' = cancelled /\ sessions' = sessions /\ fails' = fails /\ passed' = passed
      /\ batch' = batch /\ next' = next /\ nNow' = nNow /\ fOk' = fOk /\ result' = result
      /\ pc[Master] = "open"
  BY Zenon DEF Add, local
<1>2. PICK S \in SUBSET {w \in Worker : pc[w] = "asleep"} :
        pc' = [t \in Threads |-> IF t \in S THEN "woken" ELSE pc[t]]
  <2>1. PICK S \in IF k = 1 /\ {w \in Worker : pc[w] = "asleep"} # {}
                   THEN {{w} : w \in {w \in Worker : pc[w] = "asleep"}} ELSE {{w \in Worker : pc[w] = "asleep"}} :
          pc' = [t \in Threads |-> IF t \in S THEN "woken" ELSE pc[t]]
    BY Zenon DEF Add
  <2>2. S \in SUBSET {w \in Worker : pc[w] = "asleep"}
    BY <2>1, SMTT(60), Z3T(60)
  <2> QED BY <2>1, <2>2, Zenon
<1>3. /\ pc' \in [Threads -> {"closed", "open", "enter", "asleep", "woken",
                              "work", "cleanup", "leave", "gone"}]
      /\ pc'[Master] = "open" /\ \A w \in Worker : pc'[w] \notin {"closed", "open"}
      /\ Wakes
  BY <1>1, <1>2, QueueAssumption, SMTT(60), Z3T(60) DEF IInv, Shape, Threads, Wakes
<1>4. k \in Nat /\ added \in Nat /\ added' \in Nat /\ Len(queue) \in Nat /\ Len(queue) <= added
  BY <1>1, Counting, SMTT(60), Z3T(60) DEF Taken
<1>5. Shape'
  BY <1>1, <1>3, <1>4, Zenon DEF IInv, Shape
<1>6. /\ queue' \in Seq(1..added') /\ Len(queue') = Len(queue) + k
      /\ \A i \in 1..(Len(queue) + k) : queue'[i] = IF i <= Len(queue) THEN queue[i] ELSE added + (i - Len(queue))
  <2>1. queue \in Seq(1..added)
    BY DEF IInv, TypeOK
  <2>2. queue' = queue \o [i \in 1..k |-> added + i] /\ added' = added + k
    BY <1>1, Zenon
  <2>3. /\ queue' \in Seq(1..(added + k)) /\ Len(queue') = Len(queue) + k
        /\ \A i \in 1..(Len(queue) + k) : queue'[i] = IF i <= Len(queue) THEN queue[i] ELSE added + (i - Len(queue))
    BY <1>4, <2>1, <2>2, Appended, SMT
  <2> QED BY <2>2, <2>3
<1>7. Taken' = Taken /\ Taken = added - Len(queue)
  <2>1. Taken' = added' - Len(queue') /\ Taken = added - Len(queue) /\ added' = added + k
    BY <1>1, Zenon DEF Taken
  <2> QED BY <1>4, <1>6, <2>1
<1>8. /\ Busy' = Busy /\ nIdle' = Cardinality(Waiting') /\ nTotal' = Cardinality(Inside')
      /\ \A u \in Busy : pc'[u] = pc[u]
  BY <1>1, <1>3, WakingStays, Zenon
<1>9. \A u \in Busy : Held(u)' = Held(u)
  BY <1>1, Zenon DEF Held
<1>10. TypeOK'
  <2>1. nTodo' \in 0..added' /\ added' \in Nat
    <3>1. nTodo \in 0..added
      BY DEF IInv, TypeOK
    <3> QED BY <1>1, <1>4, <3>1
  <2>2. passed' \subseteq 1..added'
    <3>1. passed \subseteq 1..added
      BY DEF IInv, TypeOK
    <3>2. 1..added \subseteq 1..added'
      BY <1>1, <1>4
    <3> QED BY <1>1, <3>1, <3>2, ZenonT(60)
  <2>3. fAllOk' \in {TRUE, FALSE, None} /\ result' \in {TRUE, FALSE, None}
    BY <1>1, Zenon DEF IInv, TypeOK
  <2>4. \A u \in Busy' : nNow'[u] > 0 /\ Len(batch'[u]) = nNow'[u]
    BY <1>1, <1>7, <1>8, BatchesStay, Zenon
  <2> QED BY <1>6, <1>8, <2>1, <2>2, <2>3, <2>4, ZenonT(60) DEF TypeOK
<1>11. TodoCounts' /\ Outstanding' = Outstanding
  <2>1. Outstanding' = Outstanding /\ \A u, v \in Busy' : u # v => Held(u)' \cap Held(v)' = {}
    BY <1>1, <1>7, <1>8, BatchesStay, Zenon
  <2>2. nTodo' = Len(queue') + Cardinality(Outstanding')
    <3>1. nTodo = Len(queue) + Cardinality(Outstanding) /\ Cardinality(Outstanding) \in Nat
      BY Counting
    <3>2. nTodo' = nTodo + k /\ Cardinality(Outstanding') = Cardinality(Outstanding)
      BY <1>1, <2>1, Zenon
    <3> QED BY <1>4, <1>6, <3>1, <3>2
  <2> QED BY <2>1, <2>2, Zenon DEF TodoCounts
<1>12. InOrder'
  <2>1. Len(queue') <= added'
    BY <1>1, <1>4, <1>6
  <2>2. ASSUME NEW i \in 1..Len(queue') PROVE queue'[i] = Taken' + i
    <3>1. queue'[i] = IF i <= Len(queue) THEN queue[i] ELSE added + (i - Len(queue))
      BY <1>6, Zenon
    <3>2. CASE i <= Len(queue)
      <4>1. i \in 1..Len(queue)
        BY <1>4, <1>6, <3>2
      <4>2. queue[i] = Taken + i
        BY <4>1, Zenon DEF IInv, InOrder
      <4> QED BY <1>7, <3>1, <3>2, <4>2, Zenon
    <3>3. CASE ~(i <= Len(queue))
      <4>1. queue'[i] = added + (i - Len(queue)) /\ i \in Nat
        BY <1>4, <1>6, <3>1, <3>3
      <4> QED BY <1>4, <1>7, <4>1
    <3> QED BY <3>2, <3>3
  <2>3. \A u \in Busy' :
          /\ batch'[u][1] > 0 /\ batch'[u][1] + nNow'[u] - 1 <= Taken'
          /\ \A i \in 1..nNow'[u] : batch'[u][i] = batch'[u][1] + i - 1
    BY <1>1, <1>7, <1>8, BatchesStay, Zenon
  <2> QED BY <2>1, <2>2, <2>3, ZenonT(60) DEF InOrder
<1>13. Phases'
  <2>1. ~mQuit
    BY <1>1 DEF IInv, Phases
  <2>2. \A w \in Worker : pc'[w] \in {"leave", "gone"} => mQuit
    <3>1. Worker \subseteq Threads
      BY DEF Threads
    <3> QED BY <1>3, <3>1, WakingStays, Zenon DEF IInv, Phases
  <2>3. pc'[Master] \notin {"leave", "closed"}
    BY <1>3
  <2> QED BY <1>1, <2>1, <2>2, <2>3, ZenonT(60) DEF Phases
<1>14. Truthful'
  <2>1. pc'[Master] \notin {"leave", "closed"}
    BY <1>3
  <2>2. 1..added \subseteq 1..added'
    BY <1>1, <1>4
  <2> QED BY <1>1, <1>7, <1>8, <1>9, <1>11, <2>1, <2>2, BusyTruthful, ZenonT(60)
<1> QED BY <1>5, <1>10, <1>11, <1>12, <1>13, <1>14, ZenonT(60) DEF IInv


\* ~CTotalScopeGuard: a thread leaves the loop.
LEMMA LeaveKeeps ==
  ASSUME IInv, NEW t \in Threads, Leave(t)
  PROVE  IInv'
<1>1. /\ queue' = queue /\ nTodo' = nTodo /\ nIdle' = nIdle /\ nTotal' = nTotal - 1 /\ fAllOk' = fAllOk
      /\ mQuit' = mQuit /\ cancelled' = cancelled /\ sessions' = sessions /\ added' = added
      /\ fails' = fails /\ passed' = passed /\ result' = result
      /\ batch' = batch /\ next' = next /\ nNow' = nNow /\ fOk' = fOk
      /\ pc[t] = "leave" /\ pc' = [pc EXCEPT ![t] = IF t = Master THEN "closed" ELSE "gone"]
  BY Zenon DEF Leave, session, local
<1>2. /\ pc' \in [Threads -> {"closed", "open", "enter", "asleep", "woken",
                              "work", "cleanup", "leave", "gone"}]
      /\ pc'[t] = (IF t = Master THEN "closed" ELSE "gone") /\ \A u \in Threads \ {t} : pc'[u] = pc[u]
      /\ pc'[Master] # "gone" /\ \A w \in Worker : pc'[w] \notin {"closed", "open"}
      /\ Master \in Threads /\ Worker \subseteq Threads
  BY <1>1, QueueAssumption, SMTT(60), Z3T(60) DEF IInv, Shape, Threads
<1>3. /\ Busy' = Busy /\ Waiting' = Waiting /\ Inside' = Inside \ {t} /\ t \in Inside
      /\ \A u \in Busy : pc'[u] = pc[u]
  BY <1>1, <1>2 DEF Busy, Waiting, Inside, At
<1>4. Shape'
  BY <1>1, <1>2, Zenon DEF IInv, Shape
<1>5. nIdle' = Cardinality(Waiting') /\ nTotal' = Cardinality(Inside')
  <2>1. nIdle = Cardinality(Waiting) /\ nTotal = Cardinality(Inside)
    BY Zenon DEF IInv, TypeOK
  <2>2. Inside \in SUBSET Threads
    BY DEF Inside, At
  <2>3. Cardinality(Inside \ {t}) = Cardinality(Inside) - 1
    BY <1>3, <2>2, CountWithout
  <2> QED BY <1>1, <1>3, <2>1, <2>3, Zenon
<1>6. /\ TypeOK' /\ TodoCounts' /\ InOrder'
      /\ Outstanding' = Outstanding /\ Taken' = Taken /\ \A u \in Threads : Held(u)' = Held(u)
  <2>1. /\ passed \subseteq 1..added /\ fAllOk \in {TRUE, FALSE, None} /\ result \in {TRUE, FALSE, None}
    BY Zenon DEF IInv, TypeOK
  <2> QED BY <1>1, <1>3, <1>5, <2>1, QueueStays, ZenonT(60)
<1>7. Phases'
  <2>1. pc'[Master] \in {"leave", "closed"} => pc[Master] \in {"leave", "closed"}
    BY <1>1, <1>2, Zenon
  <2>2. \A w \in Worker : pc'[w] \in {"leave", "gone"} => pc[w] \in {"leave", "gone"}
    BY <1>1, <1>2, Zenon
  <2>3. mQuit => pc'[Master] = "closed"
    <3>1. mQuit => pc[Master] = "closed"
      BY DEF IInv, Phases
    <3> QED BY <1>2, <3>1, Zenon
  <2> QED BY <1>1, <2>1, <2>2, <2>3, Zenon DEF IInv, Phases
<1>8. Truthful'
  <2>1. \A u \in Busy : Held(u)' = Held(u)
    BY <1>6, Zenon DEF Busy, At
  <2>2. pc'[Master] \in {"leave", "closed"} /\ sessions' > 0 => Verdict'
    <3>1. pc'[Master] \in {"leave", "closed"} => pc[Master] \in {"leave", "closed"}
      BY <1>1, <1>2, Zenon
    <3>2. pc'[Master] \in {"leave", "closed"} /\ sessions' > 0 => Verdict
      BY <1>1, <3>1, Zenon DEF IInv, Truthful
    <3> QED BY <1>1, <3>2, Zenon DEF Verdict
  <2>3. 1..added \subseteq 1..added'
    BY <1>1, Zenon
  <2> QED BY <1>1, <1>3, <1>6, <2>1, <2>2, <2>3, BusyTruthful, Zenon
<1> QED BY <1>4, <1>6, <1>7, <1>8, Zenon DEF IInv

\* A thread runs a check of its batch, or stops running it: what is said of its batch is
\* enough.
LEMMA RunningKeeps ==
  ASSUME IInv, NEW t \in Threads, pc[t] = "work", Shape', pc'[t] \in {"work", "cleanup"},
         \A u \in Threads \ {t} : pc'[u] = pc[u] /\ next'[u] = next[u] /\ fOk'[u] = fOk[u],
         UNCHANGED <<queue, nTodo, added, batch, nNow>>, fAllOk' = fAllOk, result' = result,
         nIdle' = nIdle, nTotal' = nTotal, mQuit' = mQuit, cancelled' = cancelled,
         sessions' = sessions, fails' = fails, passed \subseteq passed', passed' \subseteq 1..added,
         ~cancelled => fOk'[t] # None,
         fOk'[t] = FALSE => fails \cap 1..added # {},
         fOk'[t] = TRUE =>
           /\ pc'[t] = "work" => \A i \in 1..nNow[t] : i < next'[t] => batch[t][i] \in passed'
           /\ pc'[t] = "cleanup" /\ ~cancelled => Held(t) \subseteq passed'
  PROVE  IInv'
<1>1. /\ Busy' = Busy /\ Waiting' = Waiting /\ Inside' = Inside /\ t \in Busy /\ Busy \subseteq Threads
  BY DEF Busy, Waiting, Inside, At
<1>2. /\ TypeOK' /\ TodoCounts' /\ InOrder'
      /\ Outstanding' = Outstanding /\ Taken' = Taken /\ \A u \in Threads : Held(u)' = Held(u)
  <2>1. /\ fAllOk \in {TRUE, FALSE, None} /\ result \in {TRUE, FALSE, None}
        /\ nIdle = Cardinality(Waiting) /\ nTotal = Cardinality(Inside)
    BY Zenon DEF IInv, TypeOK
  <2> QED BY <1>1, <2>1, QueueStays, Zenon
<1>3. pc[Master] \notin {"leave", "closed"} /\ pc'[Master] \notin {"leave", "closed"} /\ ~mQuit
  <2>1. nTodo # 0
    BY <1>1, NothingLeft
  <2>2. pc[Master] \notin {"leave", "closed"}
    BY <2>1, ZenonT(60) DEF IInv, Phases
  <2>3. Master \in Threads
    BY DEF Threads
  <2>4. ~mQuit
    BY <2>2 DEF IInv, Phases
  <2> QED BY <2>2, <2>3, <2>4, SMTT(60), Z3T(60)
<1>4. Phases'
  <2>1. \A w \in Worker : pc'[w] \in {"leave", "gone"} => mQuit
    <3> SUFFICES ASSUME NEW w \in Worker, pc'[w] \in {"leave", "gone"} PROVE mQuit
      OBVIOUS
    <3>1. w \in Threads \ {t}
      BY DEF Threads
    <3>2. pc[w] \in {"leave", "gone"}
      BY <3>1
    <3> QED BY <3>2, ZenonT(60) DEF IInv, Phases
  <2> QED BY <1>3, <2>1, Zenon DEF Phases
<1>5. Truthful'
  <2>1. ~cancelled' => fAllOk' # None /\ \A v \in Busy' : fOk'[v] # None
    BY <1>1, Zenon DEF IInv, Truthful
  <2>2. fAllOk' = FALSE \/ (\E v \in Busy' : fOk'[v] = FALSE) => fails' \cap 1..added' # {}
    <3>1. fails' \cap 1..added' = fails \cap 1..added
      OBVIOUS
    <3>2. fAllOk = FALSE => fails \cap 1..added # {}
      BY Zenon DEF IInv, Truthful
    <3>3. \A v \in Busy \ {t} : fOk'[v] = FALSE => fails \cap 1..added # {}
      BY <1>1, ZenonT(60) DEF IInv, Truthful
    <3> QED BY <1>1, <3>1, <3>2, <3>3, ZenonT(60)
  <2>3. ~cancelled' /\ fAllOk' = TRUE => 1..Taken' \subseteq passed' \cup Outstanding'
    BY <1>2, ZenonT(60) DEF IInv, Truthful
  <2>4. ASSUME NEW v \in Busy', fOk'[v] = TRUE
        PROVE  /\ pc'[v] = "work" => \A i \in 1..nNow'[v] : i < next'[v] => batch'[v][i] \in passed'
               /\ pc'[v] = "cleanup" /\ ~cancelled' => Held(v)' \subseteq passed'
    <3>0. batch' = batch /\ nNow' = nNow
      OBVIOUS
    <3>1. CASE v = t
      BY <1>1, <1>2, <2>4, <3>0, <3>1, Zenon
    <3>2. CASE v # t
      <4>1. v \in Threads \ {t} /\ v \in Busy /\ fOk[v] = TRUE /\ next'[v] = next[v] /\ pc'[v] = pc[v]
        BY <1>1, <2>4, <3>2, Zenon
      <4>2. /\ pc[v] = "work" => \A i \in 1..nNow[v] : i < next[v] => batch[v][i] \in passed
            /\ pc[v] = "cleanup" /\ ~cancelled => Held(v) \subseteq passed
        BY <4>1, ZenonT(60) DEF IInv, Truthful
      <4> QED BY <1>2, <3>0, <4>1, <4>2, Zenon
    <3> QED BY <3>1, <3>2, SMTT(60), Z3T(60)
  <2> QED BY <1>3, <2>1, <2>2, <2>3, <2>4, ZenonT(60) DEF Truthful
<1> QED BY <1>2, <1>4, <1>5, ZenonT(60) DEF IInv


\* A running thread, its batch and the rest of the state.
LEMMA Running ==
  ASSUME IInv, NEW t \in Threads, pc[t] = "work"
  PROVE  /\ t \in Busy /\ Held(t) \subseteq 1..added /\ Len(batch[t]) = nNow[t] /\ nNow[t] \in Nat
         /\ next[t] \in Nat \ {0} /\ passed \subseteq 1..added
         /\ ~cancelled => fOk[t] # None
         /\ fOk[t] = FALSE => fails \cap 1..added # {}
         /\ fOk[t] = TRUE => \A i \in 1..nNow[t] : i < next[t] => batch[t][i] \in passed
<1>1. t \in Busy
  BY DEF Busy, At
<1>2. Held(t) \subseteq 1..added
  <2>1. Held(t) \subseteq 1..Taken
    BY <1>1, HeldIs
  <2> QED BY <2>1, Counting
<1>3. Len(batch[t]) = nNow[t] /\ nNow[t] \in Nat
  BY <1>1, HeldIs
<1>4. next[t] \in Nat \ {0}
  BY DEF IInv, Shape
<1>5. passed \subseteq 1..added
  BY Zenon DEF IInv, TypeOK
<1> QED BY <1>1, <1>2, <1>3, <1>4, <1>5, ZenonT(60) DEF IInv, Truthful

\* Outside the lock, a thread runs the next check of its batch or gives the batch up.
LEMMA RunKeeps ==
  ASSUME IInv, NEW t \in Threads, Run(t)
  PROVE  IInv'
<1>1. /\ pc[t] = "work" /\ UNCHANGED <<queue, nTodo, added, batch, nNow>> /\ fAllOk' = fAllOk /\ result' = result
      /\ nIdle' = nIdle /\ nTotal' = nTotal /\ mQuit' = mQuit /\ cancelled' = cancelled
      /\ sessions' = sessions /\ fails' = fails
  BY Zenon DEF Run, shared, session
<1>2. /\ pc \in [Threads -> {"closed", "open", "enter", "asleep", "woken",
                             "work", "cleanup", "leave", "gone"}]
      /\ next \in [Threads -> Nat \ {0}] /\ fOk \in [Threads -> {TRUE, FALSE, None}]
      /\ Master \in Threads /\ Worker \subseteq Threads
      /\ pc[Master] # "gone" /\ \A w \in Worker : pc[w] \notin {"closed", "open"}
  BY Zenon DEF IInv, Shape, Threads
<1>3. CASE next[t] > Len(batch[t]) \/ fOk[t] # TRUE \/ cancelled
  <2>1. /\ pc' = [pc EXCEPT ![t] = "cleanup"] /\ next' = [next EXCEPT ![t] = 1]
        /\ fOk' = fOk /\ passed' = passed
    BY <1>3, Zenon DEF Run
  <2>2. /\ pc' \in [Threads -> {"closed", "open", "enter", "asleep", "woken",
                                "work", "cleanup", "leave", "gone"}]
        /\ pc'[t] = "cleanup" /\ \A u \in Threads \ {t} : pc'[u] = pc[u]
        /\ pc'[Master] # "gone" /\ \A w \in Worker : pc'[w] \notin {"closed", "open"}
    BY <1>2, <2>1
  <2>3. next' \in [Threads -> Nat \ {0}] /\ \A u \in Threads \ {t} : next'[u] = next[u]
    BY <1>2, <2>1
  <2>4. Shape'
    BY <1>1, <2>1, <2>2, <2>3, ZenonT(60) DEF IInv, Shape
  <2>5. ASSUME fOk[t] = TRUE, ~cancelled PROVE Held(t) \subseteq passed
    <3>1. next[t] > Len(batch[t])
      BY <1>3, <2>5, Zenon
    <3>2. \A i \in 1..nNow[t] : i < next[t] => batch[t][i] \in passed
      BY <1>1, <2>5, Running, Zenon
    <3>3. Len(batch[t]) = nNow[t] /\ nNow[t] \in Nat /\ next[t] \in Nat \ {0}
      BY <1>1, Running, Zenon
    <3>4. \A i \in 1..nNow[t] : i < next[t]
      BY <3>1, <3>3
    <3>5. \A i \in 1..Len(batch[t]) : batch[t][i] \in passed
      BY <3>2, <3>3, <3>4, Zenon
    <3> QED BY <3>5, Zenon DEF Held
  <2>6. /\ ~cancelled => fOk'[t] # None
        /\ fOk'[t] = FALSE => fails \cap 1..added # {}
        /\ passed \subseteq passed' /\ passed' \subseteq 1..added
        /\ pc'[t] # "work" /\ pc'[t] \in {"work", "cleanup"}
    BY <1>1, <2>1, <2>2, Running, Zenon
  <2>7. fOk'[t] = TRUE =>
          /\ pc'[t] = "work" => \A i \in 1..nNow[t] : i < next'[t] => batch[t][i] \in passed'
          /\ pc'[t] = "cleanup" /\ ~cancelled => Held(t) \subseteq passed'
    BY <2>1, <2>5, <2>6, Zenon
  <2>8. \A u \in Threads \ {t} : pc'[u] = pc[u] /\ next'[u] = next[u] /\ fOk'[u] = fOk[u]
    BY <2>1, <2>2, <2>3, Zenon
  <2> QED BY <1>1, <2>4, <2>6, <2>7, <2>8, RunningKeeps, Zenon
<1>4. CASE ~(next[t] > Len(batch[t]) \/ fOk[t] # TRUE \/ cancelled)
  <2> DEFINE c == batch[t][next[t]]
  <2>1. /\ next' = [next EXCEPT ![t] = next[t] + 1] /\ pc' = pc
        /\ fOk' = [fOk EXCEPT ![t] = c \notin fails] /\ passed' = passed \cup ({c} \ fails)
    BY <1>4, Zenon DEF Run
  <2>2. c \in Held(t) /\ fOk[t] = TRUE
    <3>1. Len(batch[t]) = nNow[t] /\ nNow[t] \in Nat /\ next[t] \in Nat \ {0}
      BY <1>1, Running, Zenon
    <3>4. ~(next[t] > Len(batch[t]))
      BY <1>4, Zenon
    <3>2. next[t] \in 1..Len(batch[t])
      BY <3>1, <3>4
    <3>3. fOk[t] = TRUE
      BY <1>4, Zenon
    <3> QED BY <3>2, <3>3, Zenon DEF Held
  <2> HIDE DEF c
  <2>3. c \in 1..added /\ passed \subseteq passed' /\ passed' \subseteq 1..added
    BY <1>1, <2>1, <2>2, Running, Zenon
  <2>4. /\ fOk' \in [Threads -> {TRUE, FALSE, None}] /\ \A u \in Threads \ {t} : fOk'[u] = fOk[u]
        /\ fOk'[t] = (c \notin fails)
    <3>1. (c \notin fails) \in {TRUE, FALSE, None}
      BY Zenon
    <3> QED BY <1>2, <2>1, <3>1, Zenon
  <2>5. next' \in [Threads -> Nat \ {0}] /\ next'[t] = next[t] + 1 /\ \A u \in Threads \ {t} : next'[u] = next[u]
    BY <1>2, <2>1
  <2>6. Shape'
    BY <1>1, <1>2, <2>1, <2>4, <2>5, ZenonT(60) DEF IInv, Shape
  <2>7. /\ fOk'[t] # None /\ (fOk'[t] = FALSE => fails \cap 1..added # {})
        /\ fOk'[t] = TRUE => c \in passed'
    <3>1. fOk'[t] # None
      BY <2>4, QueueAssumption, Zenon
    <3>2. fOk'[t] = FALSE => c \in fails
      BY <2>4, Zenon
    <3>3. fOk'[t] = TRUE => c \notin fails
      BY <2>4, Zenon
    <3> QED BY <2>1, <2>3, <3>1, <3>2, <3>3, Zenon
  <2>8. ASSUME fOk'[t] = TRUE, NEW i \in 1..nNow[t], i < next'[t] PROVE batch[t][i] \in passed'
    <3>1. i < next[t] \/ i = next[t]
      <4>1. next[t] \in Nat \ {0} /\ nNow[t] \in Nat
        BY <1>1, Running, Zenon
      <4>2. i < next[t] + 1
        BY <2>5, <2>8, Zenon
      <4> QED BY <4>1, <4>2
    <3>2. i < next[t] => batch[t][i] \in passed
      BY <1>1, <2>2, Running, Zenon
    <3>3. i = next[t] => batch[t][i] \in passed'
      BY <2>7, <2>8, Zenon DEF c
    <3> QED BY <2>3, <3>1, <3>2, <3>3, ZenonT(60)
  <2>9. pc'[t] = "work" /\ \A u \in Threads \ {t} : pc'[u] = pc[u] /\ next'[u] = next[u] /\ fOk'[u] = fOk[u]
    BY <1>1, <2>1, <2>4, <2>5, ZenonT(60)
  <2>10. pc'[t] # "cleanup" /\ pc'[t] \in {"work", "cleanup"}
    BY <2>9
  <2>11. fOk'[t] = TRUE =>
          /\ pc'[t] = "work" => \A i \in 1..nNow[t] : i < next'[t] => batch[t][i] \in passed'
          /\ pc'[t] = "cleanup" /\ ~cancelled => Held(t) \subseteq passed'
    BY <2>8, <2>10, Zenon
  <2> QED BY <1>1, <2>3, <2>6, <2>7, <2>9, <2>10, <2>11, RunningKeeps, ZenonT(60)
<1> QED BY <1>3, <1>4, Zenon


\* A check that stops because the session was cancelled.
LEMMA RunCancelledKeeps ==
  ASSUME IInv, NEW t \in Threads, RunCancelled(t)
  PROVE  IInv'
<1>1. /\ pc[t] = "work" /\ UNCHANGED <<queue, nTodo, added, batch, nNow>> /\ fAllOk' = fAllOk /\ result' = result
      /\ nIdle' = nIdle /\ nTotal' = nTotal /\ mQuit' = mQuit /\ cancelled' = cancelled
      /\ sessions' = sessions /\ fails' = fails /\ passed' = passed /\ cancelled
      /\ pc' = [pc EXCEPT ![t] = "cleanup"] /\ next' = [next EXCEPT ![t] = 1]
      /\ fOk' = [fOk EXCEPT ![t] = None]
  BY Zenon DEF RunCancelled, shared, session
<1>2. /\ pc \in [Threads -> {"closed", "open", "enter", "asleep", "woken",
                             "work", "cleanup", "leave", "gone"}]
      /\ next \in [Threads -> Nat \ {0}] /\ fOk \in [Threads -> {TRUE, FALSE, None}]
      /\ Master \in Threads /\ Worker \subseteq Threads
      /\ pc[Master] # "gone" /\ \A w \in Worker : pc[w] \notin {"closed", "open"}
  BY Zenon DEF IInv, Shape, Threads
<1>3. /\ pc' \in [Threads -> {"closed", "open", "enter", "asleep", "woken",
                              "work", "cleanup", "leave", "gone"}]
      /\ pc'[t] = "cleanup" /\ \A u \in Threads \ {t} : pc'[u] = pc[u]
      /\ pc'[Master] # "gone" /\ \A w \in Worker : pc'[w] \notin {"closed", "open"}
  <2>1. pc' = [pc EXCEPT ![t] = "cleanup"]
    BY <1>1, Zenon
  <2> QED BY <1>2, <2>1
<1>4. next' \in [Threads -> Nat \ {0}] /\ \A u \in Threads \ {t} : next'[u] = next[u]
  <2>1. next' = [next EXCEPT ![t] = 1]
    BY <1>1, Zenon
  <2> QED BY <1>2, <2>1
<1>5. /\ fOk' \in [Threads -> {TRUE, FALSE, None}] /\ fOk'[t] = None
      /\ \A u \in Threads \ {t} : fOk'[u] = fOk[u]
  BY <1>1, <1>2, Zenon
<1>6. Shape'
  BY <1>1, <1>3, <1>4, <1>5, ZenonT(60) DEF IInv, Shape
<1>7. fOk'[t] # TRUE /\ fOk'[t] # FALSE /\ pc'[t] \in {"work", "cleanup"}
  BY <1>3, <1>5, QueueAssumption, Zenon
<1>8. passed \subseteq passed' /\ passed' \subseteq 1..added
  BY <1>1, Running, Zenon
<1>9. \A u \in Threads \ {t} : pc'[u] = pc[u] /\ next'[u] = next[u] /\ fOk'[u] = fOk[u]
  BY <1>3, <1>4, <1>5, Zenon
<1> QED BY <1>1, <1>6, <1>7, <1>8, <1>9, RunningKeeps, ZenonT(60)

\* A new queue has no check, no session and its workers on their way in.
LEMMA InitHolds ==
  ASSUME Init
  PROVE  IInv
<1>0. /\ queue = <<>> /\ nTodo = 0 /\ nIdle = 0 /\ nTotal = 0 /\ added = 0 /\ sessions = 0
      /\ passed = {} /\ result = None /\ fAllOk = TRUE /\ mQuit = FALSE /\ cancelled = FALSE
      /\ pc = [t \in Threads |-> IF t = Master THEN "closed" ELSE "enter"]
      /\ batch = [t \in Threads |-> <<>>] /\ next = [t \in Threads |-> 1] /\ nNow = [t \in Threads |-> 0]
      /\ fOk = [t \in Threads |-> TRUE]
  BY Zenon DEF Init
<1>1. /\ \A t \in Threads : pc[t] = IF t = Master THEN "closed" ELSE "enter"
      /\ pc \in [Threads -> {"closed", "open", "enter", "asleep", "woken",
                             "work", "cleanup", "leave", "gone"}]
      /\ batch \in [Threads -> Seq(Nat)] /\ next \in [Threads -> Nat \ {0}] /\ nNow \in [Threads -> Nat]
  <2>1. /\ pc = [t \in Threads |-> IF t = Master THEN "closed" ELSE "enter"]
        /\ batch = [t \in Threads |-> <<>>] /\ next = [t \in Threads |-> 1] /\ nNow = [t \in Threads |-> 0]
    BY <1>0, Zenon
  <2> QED BY <2>1
<1>2. Master \in Threads /\ Worker \subseteq Threads /\ Master \notin Worker
  BY QueueAssumption DEF Threads
<1>3. Shape
  <2>1. fOk \in [Threads -> {TRUE, FALSE, None}]
    BY <1>0, Zenon
  <2>2. pc[Master] # "gone" /\ \A w \in Worker : pc[w] \notin {"closed", "open"}
    BY <1>1, <1>2, Zenon
  <2>3. added \in Nat /\ sessions \in Nat
    <3>1. added = 0 /\ sessions = 0
      BY <1>0, Zenon
    <3> QED BY <3>1
  <2> QED BY <1>0, <1>1, <2>1, <2>2, <2>3, Zenon DEF Shape
<1>4. Busy = {} /\ Waiting = {} /\ Inside = {}
  BY <1>1, Zenon DEF Busy, Waiting, Inside, At
<1>5. Outstanding = {} /\ Len(queue) = 0 /\ Taken = 0 /\ 1..0 = {} /\ Cardinality({}) = 0
  <2>1. queue = <<>> /\ added = 0
    BY <1>0, Zenon
  <2>2. Cardinality({}) = 0
    BY FS_EmptySet
  <2>3. Outstanding = {}
    BY <1>4 DEF Outstanding
  <2>4. Len(queue) = 0 /\ 1..0 = {}
    BY <2>1
  <2>5. Taken = 0
    <3>1. Taken = added - Len(queue)
      BY Zenon DEF Taken
    <3> QED BY <2>1, <2>4, <3>1
  <2> QED BY <2>2, <2>3, <2>4, <2>5, Zenon
<1>6. TypeOK
  <2>1. queue \in Seq(1..added) /\ nTodo \in 0..added
    <3>1. queue = <<>> /\ added = 0 /\ nTodo = 0
      BY <1>0, Zenon
    <3> QED BY <3>1
  <2> QED BY <1>0, <1>4, <1>5, <2>1, Zenon DEF TypeOK
<1>7. TodoCounts
  <2>1. nTodo = 0 /\ Len(queue) = 0 /\ Cardinality(Outstanding) = 0
    BY <1>0, <1>5, Zenon
  <2>2. nTodo = Len(queue) + Cardinality(Outstanding)
    BY <2>1
  <2> QED BY <1>4, <2>2, Zenon DEF TodoCounts
<1>8. InOrder
  <2>1. Len(queue) = 0 /\ added = 0
    BY <1>0, <1>5, Zenon
  <2>2. Len(queue) <= added /\ \A i \in 1..Len(queue) : queue[i] = Taken + i
    BY <2>1
  <2> QED BY <1>4, <2>2, Zenon DEF InOrder
<1>9. Phases
  <2>1. \A w \in Worker : pc[w] \notin {"leave", "gone"}
    BY <1>1, <1>2, Zenon
  <2> QED BY <1>0, <2>1, Zenon DEF Phases
<1>10. Truthful
  <2>1. ~(sessions > 0)
    <3>1. sessions = 0
      BY <1>0, Zenon
    <3> QED BY <3>1
  <2>2. TRUE # None
    BY QueueAssumption, Zenon
  <2> QED BY <1>0, <1>4, <1>5, <2>1, <2>2, ZenonT(60) DEF Truthful
<1> QED BY <1>3, <1>6, <1>7, <1>8, <1>9, <1>10, ZenonT(60) DEF IInv

\* A step that changes nothing keeps the invariant.
LEMMA StutterKeeps ==
  ASSUME IInv, UNCHANGED vars
  PROVE  IInv'
<1>1. /\ UNCHANGED <<queue, nTodo, added, batch, nNow>>
      /\ passed' = passed /\ fAllOk' = fAllOk /\ result' = result
      /\ nIdle' = nIdle /\ nTotal' = nTotal /\ mQuit' = mQuit /\ next' = next /\ fOk' = fOk
      /\ cancelled' = cancelled /\ sessions' = sessions /\ fails' = fails /\ pc' = pc
  BY Zenon DEF vars, shared, session, local
<1>2. Wakes /\ Shape'
  BY <1>1, Zenon DEF Wakes, IInv, Shape
<1> QED BY <1>1, <1>2, WakingKeeps, Zenon

\* Every step of the master, of a worker and of whoever cancels keeps the invariant.
LEMMA NextKeeps ==
  ASSUME IInv, [Next]_vars
  PROVE  IInv'
<1>1. ASSUME NEW t \in Threads, Step(t) \/ Spurious(t) PROVE IInv'
  BY <1>1, SleepKeeps, TakeKeeps, LeaveLoopKeeps, LeaveKeeps, RunKeeps, RunCancelledKeeps,
     SpuriousKeeps, ZenonT(60) DEF Step
<1> QED BY <1>1, StartKeeps, AddKeeps, WaitKeeps, CancelKeeps, QuitKeeps, StutterKeeps, ZenonT(60) DEF Next

\* What the invariant says of a queue at rest.
LEMMA InvariantSuffices ==
  ASSUME IInv
  PROVE  TypeOK /\ TodoCounts /\ ReturnedIdle /\ ResultSound
<1>1. ResultSound
  BY Zenon DEF IInv, Truthful, ResultSound
<1>2. ASSUME pc[Master] = "closed", ~mQuit PROVE IsIdle
  <2>1. nTodo = 0
    BY <1>2, Zenon DEF IInv, Phases
  <2>2. Busy = {}
    BY <2>1, NothingLeft
  <2>3. \A u \in Threads : pc[u] # "leave"
    BY <1>2 DEF IInv, Phases, Threads
  <2>4. Inside = Waiting
    BY <2>2, <2>3 DEF Inside, Waiting, Busy, At
  <2>5. nTotal = nIdle
    BY <2>4, Zenon DEF IInv, TypeOK
  <2> QED BY <2>1, <2>5, Zenon DEF IsIdle
<1> QED BY <1>1, <1>2, Zenon DEF IInv, ReturnedIdle

\* The invariant holds in every state of a check queue.
THEOREM QueueInvariance == Spec => []IInv
<1>1. Init => IInv
  BY InitHolds
<1>2. IInv /\ [Next]_vars => IInv'
  BY NextKeeps
<1> QED BY <1>1, <1>2, PTL DEF Spec

\* Wait() returns success only if every check of the session was run and passed, failure only
\* if one failed, nothing only after a cancellation; nTodo counts the outstanding checks, and
\* the queue goes back to its pool idle.
THEOREM ResultIsSound == Spec => []QueueResultSound
<1>1. IInv => QueueResultSound
  BY InvariantSuffices DEF QueueResultSound
<1> QED BY <1>1, QueueInvariance, PTL
=============================================================================
