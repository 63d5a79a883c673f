--------------------------- MODULE CheckQueuePool ---------------------------
(***************************************************************************)
(* CCheckQueuePool (src/src/checkqueuepool.h): threads that validate       *)
(* blocks borrow a CCheckQueue for the scripts of one block.  When all are *)
(* lent, a request terminates the lent one with the least work, if that is *)
(* less than its own, and waits.  The pool is destroyed at shutdown.       *)
(* A CCheckQueue is reduced to whether checks are outstanding; module      *)
(* CheckQueue has the rest.                                                *)
(***************************************************************************)
EXTENDS Integers, FiniteSets

CONSTANTS Thread, Queue, None,
          Work,            \* nChainWork of the tips that are validated
          MaxGets          \* bound: queues taken

VARIABLES
  idle,        \* mIdleQueues (interchangeable)
  queueOf,     \* the queue that the guard of a thread owns: mRunningCheckers
  work,        \* mValue
  since,       \* mValidationStartTime, in the order of taking
  terminated,  \* mPrematureCheckerTerminationSource
  pc,          \* where each thread is
  todo,        \* checks of the thread's queue are outstanding
  clock,       \* queues taken so far
  pool         \* "up", "closing" (its destructor runs) or "gone"

vars == <<idle, queueOf, work, since, terminated, pc, todo, clock, pool>>

Init ==
  /\ idle = Queue /\ queueOf = [t \in Thread |-> None]
  /\ work = [t \in Thread |-> 0] /\ since = [t \in Thread |-> 0]
  /\ terminated = [t \in Thread |-> FALSE] /\ todo = [t \in Thread |-> FALSE]
  /\ pc = [t \in Thread |-> "out"] /\ clock = 0 /\ pool = "up"

Running == {t \in Thread : queueOf[t] # None}
At(l) == {t \in Thread : pc[t] = l}

\* GetChecker's search: least work, then the earliest start.
IsWorst(w) ==
  /\ w \in Running
  /\ \A r \in Running : work[w] < work[r] \/ (work[w] = work[r] /\ since[w] <= since[r])

\* Mutant: the queue stays in the list of idle ones.
TakeKept(t, v) ==
  \E q \in idle :
    /\ queueOf' = [queueOf EXCEPT ![t] = q] /\ idle' = idle
    /\ work' = [work EXCEPT ![t] = v] /\ since' = [since EXCEPT ![t] = clock]
    /\ terminated' = [terminated EXCEPT ![t] = FALSE]
    /\ clock' = clock + 1 /\ pc' = [pc EXCEPT ![t] = "open"]

\* The end of GetChecker: an idle queue becomes a running checker.
Take(t, v) ==
  \E q \in idle :
    /\ queueOf' = [queueOf EXCEPT ![t] = q] /\ idle' = idle \ {q}
    /\ work' = [work EXCEPT ![t] = v] /\ since' = [since EXCEPT ![t] = clock]
    /\ terminated' = [terminated EXCEPT ![t] = FALSE]
    /\ clock' = clock + 1 /\ pc' = [pc EXCEPT ![t] = "open"]

\* GetChecker, up to the wait on mIdleQueuesCV.
GetChecker(t, v) ==
  /\ pc[t] = "out" /\ clock + Cardinality(At("asleep") \cup At("woken")) < MaxGets
  /\ pool = "up"
  /\ \/ idle # {} /\ Take(t, v)
     \/ /\ idle = {}
        /\ terminated' = [r \in Thread |-> terminated[r] \/ (IsWorst(r) /\ work[r] < v)]
        /\ work' = [work EXCEPT ![t] = v] /\ pc' = [pc EXCEPT ![t] = "asleep"]
        /\ UNCHANGED <<idle, queueOf, since, clock>>
  /\ UNCHANGED <<todo, pool>>

\* A notified (or spuriously woken) thread evaluates the predicate of the wait.
WakeUp(t) ==
  /\ pc[t] = "woken"
  /\ \/ idle # {} /\ Take(t, work[t])
     \/ /\ idle = {} /\ pc' = [pc EXCEPT ![t] = "asleep"]
        /\ UNCHANGED <<idle, queueOf, work, since, terminated, clock>>
  /\ UNCHANGED <<todo, pool>>

Spurious(t) ==
  /\ pc[t] = "asleep" /\ pc' = [pc EXCEPT ![t] = "woken"]
  /\ UNCHANGED <<idle, queueOf, work, since, terminated, todo, clock, pool>>

\* CCheckQueueScopeGuard::Add.
Add(t) ==
  /\ pc[t] = "open"
  /\ todo' = [todo EXCEPT ![t] = TRUE]
  /\ UNCHANGED <<idle, queueOf, work, since, terminated, pc, clock, pool>>

\* The workers of the queue are done, or drain it because it was terminated.
ChecksDone(t) ==
  /\ queueOf[t] # None /\ todo[t]
  /\ todo' = [todo EXCEPT ![t] = FALSE]
  /\ UNCHANGED <<idle, queueOf, work, since, terminated, pc, clock, pool>>

\* Wait() of the guard, or its destructor: the master joins the queue.
Join(t) ==
  /\ pc[t] = "open" /\ pc' = [pc EXCEPT ![t] = "joined"]
  /\ UNCHANGED <<idle, queueOf, work, since, terminated, todo, clock, pool>>

Joined(t) ==
  /\ pc[t] = "joined" /\ ~todo[t] /\ pc' = [pc EXCEPT ![t] = "return"]
  /\ UNCHANGED <<idle, queueOf, work, since, terminated, todo, clock, pool>>

\* Mutant: nobody is notified.
ReturnSilently(t) ==
  /\ pc[t] = "return"
  /\ idle' = idle \cup {queueOf[t]} /\ queueOf' = [queueOf EXCEPT ![t] = None]
  /\ pc' = [pc EXCEPT ![t] = "out"]
  /\ UNCHANGED <<work, since, terminated, todo, clock, pool>>

\* ReturnQueueToPool, with notify_one.
ReturnQueueToPool(t) ==
  /\ pc[t] = "return"
  /\ idle' = idle \cup {queueOf[t]} /\ queueOf' = [queueOf EXCEPT ![t] = None]
  /\ \/ At("asleep") = {} /\ pc' = [pc EXCEPT ![t] = "out"]
     \/ \E w \in At("asleep") : pc' = [pc EXCEPT ![t] = "out", ![w] = "woken"]
  /\ UNCHANGED <<work, since, terminated, todo, clock, pool>>

\* ~CCheckQueuePool: terminate what runs, then poll until nothing does.  Shutdown has
\* stopped the threads that call GetChecker before.
BeginDestroy ==
  /\ pool = "up"
  /\ At("asleep") \cup At("woken") = {}
  /\ pool' = "closing"
  /\ terminated' = [t \in Thread |-> terminated[t] \/ t \in Running]
  /\ UNCHANGED <<idle, queueOf, work, since, pc, todo, clock>>

EndDestroy ==
  /\ pool = "closing" /\ Running = {} /\ pool' = "gone"
  /\ UNCHANGED <<idle, queueOf, work, since, terminated, pc, todo, clock>>

Step(t) ==
  \/ \E v \in Work : GetChecker(t, v)
  \/ WakeUp(t) \/ Spurious(t) \/ Add(t) \/ ChecksDone(t) \/ Join(t) \/ Joined(t)
  \/ ReturnQueueToPool(t)

Next == (\E t \in Thread : Step(t)) \/ BeginDestroy \/ EndDestroy

Spec == Init /\ [][Next]_vars

\* What a scheduled thread does not put off for ever: a wake-up, the end of its checks and of
\* its guard (ConnectBlock always ends it).  Each is enabled while it is due and takes the
\* thread on, so weak fairness is []<>~Due(t).
Due(t) == <<pc[t] = "woken", todo[t], pc[t] = "open", pc[t] = "joined" /\ ~todo[t], pc[t] = "return">>
-----------------------------------------------------------------------------
TypeOK ==
  /\ idle \subseteq Queue /\ queueOf \in [Thread -> Queue \cup {None}]
  /\ work \in [Thread -> Nat] /\ since \in [Thread -> Nat] /\ clock \in Nat
  /\ terminated \in [Thread -> BOOLEAN] /\ todo \in [Thread -> BOOLEAN]
  /\ pc \in [Thread -> {"out", "asleep", "woken", "open", "joined", "return"}]
  /\ pool \in {"up", "closing", "gone"}

(* Every queue is either idle or lent to exactly one guard, so the         *)
(* assertions of GetChecker (something runs when nothing is idle) and of   *)
(* ReturnQueueToPool (the queue was running and has no work) hold.         *)
QueuesPartitioned ==
  /\ \A t \in Thread : queueOf[t] # None <=> pc[t] \in {"open", "joined", "return"}
  /\ \A t \in Thread : queueOf[t] \notin idle /\ (pc[t] \in {"out", "return"} => ~todo[t])
  /\ \A t, u \in Running : queueOf[t] = queueOf[u] => t = u
  /\ Queue = idle \cup {queueOf[t] : t \in Running}

(* As many notified threads as idle queues while anyone sleeps in          *)
(* GetChecker: with notify_one, late arrivals that take a queue first and  *)
(* spurious wake-ups, no thread sleeps next to an idle queue.              *)
NoLostWakeup == At("asleep") # {} => Cardinality(At("woken")) >= Cardinality(idle)

(* Nobody waits in GetChecker.                                             *)
NobodyWaits == At("asleep") \cup At("woken") = {}
=============================================================================
