------------------------------ MODULE Threads ------------------------------
(***************************************************************************)
(* Components with threads of their own, side by side: the pool of check   *)
(* queues, one thread pool and the scheduler.  They share no state.        *)
(***************************************************************************)
EXTENDS Integers, FiniteSets, Sequences

CONSTANTS Thread, Queue, NoQueue, Work, MaxGets,    \* of the pool of check queues
          High, Low, Submitted, Urgent, MaxPauses,  \* of the thread pool
          Service, Timed, Every, Delta, MaxTime     \* of the scheduler: its threads, its tasks

\* Threads and queues are finitely many, "no queue" is none of them, and "none" is no task.
\* The scheduler has a service thread (AppInitMain starts one).
ASSUME ThreadsAssumption ==
  /\ IsFiniteSet(Thread) /\ IsFiniteSet(Queue) /\ NoQueue \notin Queue
  /\ Work \subseteq Nat /\ MaxGets \in Nat
  /\ IsFiniteSet(High \cup Low) /\ Urgent \subseteq Submitted /\ "none" \notin Submitted
  /\ MaxPauses \in Nat
  /\ Service # {} /\ "none" \notin Timed /\ Delta \in Nat /\ MaxTime \in Nat

VARIABLES
  pIdle, pQueueOf, pWork, pSince, pTerminated, pPc, pTodo, pClock, pPool,
  tStd, tNonStd, tRunning, tPaused, tPc, tJob, tFut, tPauses,
  sQueue, sNow, sStop, sDrain, sPc, sUntil, sJob, sState

P == INSTANCE CheckQueuePool WITH
       None <- NoQueue,
       idle <- pIdle, queueOf <- pQueueOf, work <- pWork, since <- pSince,
       terminated <- pTerminated, pc <- pPc, todo <- pTodo, clock <- pClock, pool <- pPool

T == INSTANCE ThreadPool WITH
       Task <- Submitted, std <- tStd, nonStd <- tNonStd, mRunning <- tRunning,
       mPaused <- tPaused, pc <- tPc, job <- tJob, fut <- tFut, pauses <- tPauses

S == INSTANCE Scheduler WITH
       Thread <- Service, Task <- Timed, taskQueue <- sQueue, now <- sNow,
       stopRequested <- sStop, stopWhenEmpty <- sDrain, pc <- sPc, until <- sUntil,
       job <- sJob, state <- sState
-----------------------------------------------------------------------------
(* GetChecker and ReturnQueueToPool lend every queue to one guard at a     *)
(* time and lose none: their assertions hold.                              *)
QueuesPartitioned == P!TypeOK /\ P!QueuesPartitioned

(* No thread sleeps in GetChecker next to an idle queue: notify_one, late  *)
(* arrivals and spurious wake-ups lose no wake-up.                         *)
NoLostWakeup == P!NoLostWakeup

(* No worker of the thread pool sleeps beside a task it was notified of:   *)
(* submit's notify_one, pause and run lose no wake-up.                     *)
NoTaskForgotten == T!TypeOK /\ T!NoLostWakeup

(* No service thread of the scheduler sleeps past a task that is due (a    *)
(* task inserted before the one being waited for), and the tasks stay in   *)
(* order, each given to one thread at a time.                              *)
NoOversleep == S!TypeOK /\ S!TasksOnce /\ S!NoOversleep
=============================================================================
