----------------------------- MODULE ThreadPool -----------------------------
(***************************************************************************)
(* CThreadPool<CDualQueueAdaptor> (src/src/threadpool.h, threadpoolT.h):   *)
(* workers of high and low priority, a queue for each kind of task, pause  *)
(* and run, and a destructor that abandons what is still queued.  With one *)
(* kind of task and of thread it is CThreadPool<CQueueAdaptor>.            *)
(***************************************************************************)
EXTENDS Integers, FiniteSets, Sequences

CONSTANTS High, Low,       \* workers by ThreadPriority
          Task,            \* tasks that are submitted, each once
          Urgent,          \* the tasks of CTask::Priority::High; the others are Low
          MaxPauses        \* bound: times the pool is paused

Workers == High \cup Low

VARIABLES
  std, nonStd,             \* mStdTasks, mNonStdTasks
  mRunning, mPaused,
  pc,                      \* "top" (before the wait), "asleep", "woken", "busy" or "end"
  job,                     \* the task a busy worker runs
  fut,                     \* the future of each task
  pauses                   \* times the pool was paused

vars == <<std, nonStd, mRunning, mPaused, pc, job, fut, pauses>>

NoTask == "none"
At(l) == {w \in Workers : pc[w] = l}
Queued == Len(std) + Len(nonStd)

Init ==
  /\ std = <<>> /\ nonStd = <<>> /\ mRunning = TRUE /\ mPaused = FALSE
  /\ pc = [w \in Workers |-> "top"] /\ job = [w \in Workers |-> NoTask]
  /\ fut = [t \in Task |-> "new"] /\ pauses = 0

\* Mutant: nobody is notified.
SubmitSilently(t) ==
  /\ fut[t] = "new" /\ mRunning
  /\ fut' = [fut EXCEPT ![t] = "pending"]
  /\ std' = IF t \in Urgent THEN Append(std, t) ELSE std
  /\ nonStd' = IF t \in Urgent THEN nonStd ELSE Append(nonStd, t)
  /\ UNCHANGED <<pc, mRunning, mPaused, job, pauses>>

\* submit; it throws on a pool that is stopping.
Submit(t) ==
  /\ fut[t] = "new"
  /\ \/ /\ ~mRunning /\ fut' = [fut EXCEPT ![t] = "refused"] /\ UNCHANGED <<std, nonStd, pc>>
     \/ /\ mRunning /\ fut' = [fut EXCEPT ![t] = "pending"]
        /\ std' = IF t \in Urgent THEN Append(std, t) ELSE std
        /\ nonStd' = IF t \in Urgent THEN nonStd ELSE Append(nonStd, t)
        /\ \/ At("asleep") = {} /\ pc' = pc
           \/ \E w \in At("asleep") : pc' = [pc EXCEPT ![w] = "woken"]
  /\ UNCHANGED <<mRunning, mPaused, job, pauses>>

\* CDualQueueAdaptor::pop: which queue a worker is served from.
Pop(w) ==
  IF w \in High THEN IF std # <<>> THEN "std" ELSE "nonStd"
                ELSE IF nonStd # <<>> THEN "nonStd" ELSE "std"

\* worker(): the critical section with the wait, on entry and after a wake-up.
WorkerLoop(w) ==
  /\ pc[w] \in {"top", "woken"}
  /\ \/ ~mRunning /\ pc' = [pc EXCEPT ![w] = "end"] /\ UNCHANGED <<std, nonStd, job>>
     \/ /\ mRunning /\ (Queued = 0 \/ mPaused) /\ pc' = [pc EXCEPT ![w] = "asleep"]
        /\ UNCHANGED <<std, nonStd, job>>
     \/ /\ mRunning /\ Queued > 0 /\ ~mPaused
        /\ pc' = [pc EXCEPT ![w] = "busy"]
        /\ IF Pop(w) = "std"
           THEN job' = [job EXCEPT ![w] = Head(std)] /\ std' = Tail(std) /\ UNCHANGED nonStd
           ELSE job' = [job EXCEPT ![w] = Head(nonStd)] /\ nonStd' = Tail(nonStd) /\ UNCHANGED std
  /\ UNCHANGED <<mRunning, mPaused, fut, pauses>>

Spurious(w) ==
  /\ pc[w] = "asleep" /\ pc' = [pc EXCEPT ![w] = "woken"]
  /\ UNCHANGED <<std, nonStd, mRunning, mPaused, job, fut, pauses>>

\* The task ends; an exception goes to its future too (packaged_task).
Done(w) ==
  /\ pc[w] = "busy" /\ fut' = [fut EXCEPT ![job[w]] = "ready"]
  /\ job' = [job EXCEPT ![w] = NoTask]
  /\ pc' = [pc EXCEPT ![w] = IF mRunning THEN "top" ELSE "end"]
  /\ UNCHANGED <<std, nonStd, mRunning, mPaused, pauses>>

Pause ==
  /\ ~mPaused /\ pauses < MaxPauses /\ mPaused' = TRUE /\ pauses' = pauses + 1
  /\ UNCHANGED <<std, nonStd, mRunning, pc, job, fut>>

Run ==
  /\ mPaused /\ mPaused' = FALSE
  /\ pc' = [w \in Workers |-> IF pc[w] = "asleep" THEN "woken" ELSE pc[w]]
  /\ UNCHANGED <<std, nonStd, mRunning, job, fut, pauses>>

\* ~CThreadPool.
Destroy ==
  /\ mRunning /\ mRunning' = FALSE
  /\ pc' = [w \in Workers |-> IF pc[w] = "asleep" THEN "woken" ELSE pc[w]]
  /\ UNCHANGED <<std, nonStd, mPaused, job, fut, pauses>>

JoinedNow == ~mRunning /\ \A w \in Workers : pc[w] = "end"

\* All workers are joined; the queues are destroyed with their promises.
Joined ==
  /\ JoinedNow /\ \E t \in Task : fut[t] = "pending"
  /\ std' = <<>> /\ nonStd' = <<>>
  /\ fut' = [t \in Task |-> IF fut[t] = "pending" THEN "broken" ELSE fut[t]]
  /\ UNCHANGED <<mRunning, mPaused, pc, job, pauses>>

Next ==
  \/ \E t \in Task : Submit(t)
  \/ \E w \in Workers : WorkerLoop(w) \/ Spurious(w) \/ Done(w)
  \/ Pause \/ Run \/ Destroy \/ Joined

Spec == Init /\ [][Next]_vars

\* Workers are scheduled, tasks end, and whoever pauses the pool runs it again.
Due(w) == <<pc[w] \in {"top", "woken"}, pc[w] = "busy", mPaused,
           JoinedNow /\ \E t \in Task : fut[t] = "pending">>
-----------------------------------------------------------------------------
TypeOK ==
  /\ std \in Seq(Urgent) /\ nonStd \in Seq(Task \ Urgent)
  /\ mRunning \in BOOLEAN /\ mPaused \in BOOLEAN /\ pauses \in 0..MaxPauses
  /\ pc \in [Workers -> {"top", "asleep", "woken", "busy", "end"}]
  /\ job \in [Workers -> Task \cup {NoTask}] /\ \A w \in Workers : job[w] # NoTask <=> pc[w] = "busy"
  /\ fut \in [Task -> {"new", "refused", "pending", "ready", "broken"}]

(* While the pool runs and some worker sleeps, there are as many workers   *)
(* on their way to the queue as tasks in it: submit's notify_one and run's *)
(* notify_all lose no task between a pause and a wake-up.                  *)
Coming == At("woken") \cup At("top")
NoLostWakeup == mRunning /\ ~mPaused /\ At("asleep") # {} => Cardinality(Coming) >= Queued

(* No caller waits for a future (the task was run, or its promise broken   *)
(* with the pool), and ~CThreadPool has joined every worker.               *)
Settled == (\A t \in Task : fut[t] # "pending") /\ (~mRunning => \A w \in Workers : pc[w] = "end")
=============================================================================
