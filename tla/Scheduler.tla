------------------------------ MODULE Scheduler ------------------------------
(***************************************************************************)
(* CScheduler (src/src/scheduler.cpp): service threads run tasks at or     *)
(* after their time.  taskQueue is ordered by time, and by insertion for   *)
(* equal times; a task that repeats is scheduled again when it has run.    *)
(***************************************************************************)
EXTENDS Integers, FiniteSets, Sequences

CONSTANTS Thread,
          Task, Every,     \* tasks; those of scheduleEvery
          Delta,           \* their period
          MaxTime          \* bound: the clock

VARIABLES
  taskQueue,               \* sequence of [task, time], sorted by time
  now,                     \* system_clock
  stopRequested, stopWhenEmpty,
  pc,                      \* "top", "wait", "timed", "woken", "late", "run" or "end"
  until,                   \* timeToWaitFor of a thread in wait_until
  job,                     \* the queue entry a thread runs
  state                    \* of each task: "new", "queued", "running" or "done"

vars == <<taskQueue, now, stopRequested, stopWhenEmpty, pc, until, job, state>>

NoJob == [task |-> "none", time |-> 0]
Empty == taskQueue = <<>>
ShouldStop == stopRequested \/ (stopWhenEmpty /\ Empty)
At(S) == {t \in Thread : pc[t] \in S}

Init ==
  /\ taskQueue = <<>> /\ now = 0 /\ stopRequested = FALSE /\ stopWhenEmpty = FALSE
  /\ pc = [t \in Thread |-> "top"] /\ until = [t \in Thread |-> 0]
  /\ job = [t \in Thread |-> NoJob] /\ state = [k \in Task |-> "new"]

\* std::multimap::insert: after the entries of the same time.
Insert(q, e) ==
  LET n == CHOOSE n \in 0..Len(q) : /\ \A i \in 1..n : q[i].time <= e.time
                                    /\ \A i \in (n + 1)..Len(q) : q[i].time > e.time
  IN  [i \in 1..(Len(q) + 1) |-> IF i <= n THEN q[i] ELSE IF i = n + 1 THEN e ELSE q[i - 1]]

\* newTaskScheduled.notify_one() by a thread that leaves f itself.
NotifyOne(f) ==
  IF {t \in Thread : f[t] \in {"wait", "timed"}} = {} THEN {f}
  ELSE {[f EXCEPT ![w] = "woken"] : w \in {t \in Thread : f[t] \in {"wait", "timed"}}}

\* Mutant: no thread is notified.
ScheduleSilently(k, d) ==
  /\ state[k] = "new" /\ now + d <= MaxTime /\ ~stopRequested /\ ~stopWhenEmpty
  /\ taskQueue' = Insert(taskQueue, [task |-> k, time |-> now + d])
  /\ state' = [state EXCEPT ![k] = "queued"]
  /\ UNCHANGED <<now, stopRequested, stopWhenEmpty, pc, until, job>>

\* scheduleFromNow and scheduleEvery; callers do so before the scheduler is stopped.
Schedule(k, d) ==
  /\ state[k] = "new" /\ now + d <= MaxTime /\ ~stopRequested /\ ~stopWhenEmpty
  /\ taskQueue' = Insert(taskQueue, [task |-> k, time |-> now + d])
  /\ state' = [state EXCEPT ![k] = "queued"]
  /\ pc' \in NotifyOne(pc)
  /\ UNCHANGED <<now, stopRequested, stopWhenEmpty, until, job>>

\* serviceQueue under the lock: end, wait for a task, or wait for the first one's time.
Evaluate(t) ==
  /\ pc[t] \in {"top", "woken"}
  /\ \/ ShouldStop /\ pc' \in NotifyOne([pc EXCEPT ![t] = "end"]) /\ UNCHANGED until
     \/ ~ShouldStop /\ Empty /\ pc' = [pc EXCEPT ![t] = "wait"] /\ UNCHANGED until
     \/ /\ ~ShouldStop /\ ~Empty
        /\ pc' = [pc EXCEPT ![t] = "timed"]
        /\ until' = [until EXCEPT ![t] = Head(taskQueue).time]
  /\ UNCHANGED <<taskQueue, now, stopRequested, stopWhenEmpty, job, state>>

\* wait_until times out; the lock is taken again later.
TimeOut(t) ==
  /\ pc[t] = "timed" /\ until[t] <= now
  /\ pc' = [pc EXCEPT ![t] = "late"]
  /\ UNCHANGED <<taskQueue, now, stopRequested, stopWhenEmpty, until, job, state>>

Spurious(t) ==
  /\ pc[t] \in {"wait", "timed"} /\ pc' = [pc EXCEPT ![t] = "woken"]
  /\ UNCHANGED <<taskQueue, now, stopRequested, stopWhenEmpty, until, job, state>>

\* After the time-out: whatever is first now is taken.
Take(t) ==
  /\ pc[t] = "late"
  /\ \/ /\ ShouldStop \/ Empty
        /\ pc' = [pc EXCEPT ![t] = "top"] /\ UNCHANGED <<taskQueue, job, state>>
     \/ /\ ~ShouldStop /\ ~Empty
        /\ job' = [job EXCEPT ![t] = Head(taskQueue)]
        /\ taskQueue' = Tail(taskQueue)
        /\ state' = [state EXCEPT ![Head(taskQueue).task] = "running"]
        /\ pc' = [pc EXCEPT ![t] = "run"]
  /\ UNCHANGED <<now, stopRequested, stopWhenEmpty, until>>

\* f() returns; Repeat schedules itself again (not beyond the bound of the clock).
Finish(t) ==
  /\ pc[t] = "run"
  /\ LET k == job[t].task
         top == [pc EXCEPT ![t] = "top"]
     IN  IF k \in Every /\ now + Delta <= MaxTime
         THEN /\ taskQueue' = Insert(taskQueue, [task |-> k, time |-> now + Delta])
              /\ state' = [state EXCEPT ![k] = "queued"] /\ pc' \in NotifyOne(top)
         ELSE /\ state' = [state EXCEPT ![k] = "done"] /\ pc' = top /\ UNCHANGED taskQueue
  /\ job' = [job EXCEPT ![t] = NoJob]
  /\ UNCHANGED <<now, stopRequested, stopWhenEmpty, until>>

\* Mutant: the threads are not notified.
StopSilently(drain) ==
  /\ ~stopRequested /\ ~stopWhenEmpty
  /\ stopRequested' = ~drain /\ stopWhenEmpty' = drain
  /\ UNCHANGED <<taskQueue, now, pc, until, job, state>>

\* stop(drain), with notify_all; its wait for the threads is not modelled.
Stop(drain) ==
  /\ ~stopRequested /\ ~stopWhenEmpty
  /\ stopRequested' = ~drain /\ stopWhenEmpty' = drain
  /\ pc' = [t \in Thread |-> IF pc[t] \in {"wait", "timed"} THEN "woken" ELSE pc[t]]
  /\ UNCHANGED <<taskQueue, now, until, job, state>>

Tick ==
  /\ now < MaxTime /\ now' = now + 1
  /\ UNCHANGED <<taskQueue, stopRequested, stopWhenEmpty, pc, until, job, state>>

Next ==
  \/ \E k \in Task, d \in 0..2 : Schedule(k, d)
  \/ \E t \in Thread : Evaluate(t) \/ TimeOut(t) \/ Spurious(t) \/ Take(t) \/ Finish(t)
  \/ \E drain \in BOOLEAN : Stop(drain)
  \/ Tick

Spec == Init /\ [][Next]_vars

\* Threads are scheduled, tasks end, and time passes.
Due(t) == <<pc[t] \in {"top", "woken"}, pc[t] = "late", pc[t] = "run">>

\* A wait that is due again and again times out: strong fairness of TimeOut(t).
Overdue(t) == pc[t] = "timed" /\ until[t] <= now
-----------------------------------------------------------------------------
Entry == [task : Task, time : 0..MaxTime]

TypeOK ==
  /\ taskQueue \in Seq(Entry) /\ job \in [Thread -> Entry \cup {NoJob}]
  /\ state \in [Task -> {"new", "queued", "running", "done"}]
  /\ now \in 0..MaxTime /\ until \in [Thread -> 0..MaxTime]
  /\ pc \in [Thread -> {"top", "wait", "timed", "woken", "late", "run", "end"}]

(* A task is in the queue once, or run by one thread, or neither; and the  *)
(* queue is ordered by time, so the first entry is the one that is due     *)
(* first.                                                                  *)
TasksOnce ==
  /\ \A i, j \in DOMAIN taskQueue :
       i < j => taskQueue[i].task # taskQueue[j].task /\ taskQueue[i].time <= taskQueue[j].time
  /\ \A k \in Task : state[k] = "queued" <=> (\E i \in DOMAIN taskQueue : taskQueue[i].task = k)
  /\ \A t \in Thread : job[t] # NoJob <=> pc[t] = "run"
  /\ \A k \in Task : state[k] = "running" <=> (\E t \in At({"run"}) : job[t].task = k)
  /\ \A t, u \in At({"run"}) : job[t].task = job[u].task => t = u

(* When every service thread sleeps, one of them wakes no later than the   *)
(* first task is due, also when an earlier task was inserted meanwhile.    *)
NoOversleep ==
  (~Empty /\ ~ShouldStop /\ \A t \in Thread : pc[t] \in {"wait", "timed"}) =>
    \E t \in Thread : pc[t] = "timed" /\ until[t] <= Head(taskQueue).time

(* Every scheduled task was run, unless the scheduler was told to stop at  *)
(* once; after stop(drain) all threads have ended and left no task behind. *)
Settled ==
  /\ stopRequested \/ \A k \in Task : state[k] # "queued"
  /\ stopWhenEmpty => (\A t \in Thread : pc[t] = "end") /\ Empty
=============================================================================
