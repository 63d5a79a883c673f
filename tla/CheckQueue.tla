----------------------------- MODULE CheckQueue -----------------------------
(***************************************************************************)
(* CCheckQueue (src/src/checkqueue.h): a master thread adds the script     *)
(* checks of one block, workers run them in batches, and the master joins  *)
(* in until all are done.  The session may be cancelled at any time.       *)
(* The checks of a session are 1, 2, ...; each passes or fails.            *)
(***************************************************************************)
EXTENDS Integers, FiniteSets, Sequences

CONSTANTS Worker, Master,
          None,         \* an empty optional
          BatchSize,    \* nBatchSize
          Failing,      \* which checks of a session may fail: sets of checks
          MaxChecks,    \* bound: checks of one session
          MaxSessions   \* bound: sessions

\* The threads are finitely many, the master is none of the workers and an empty optional is
\* no truth value.
ASSUME QueueAssumption ==
  IsFiniteSet(Worker) /\ Master \notin Worker /\ BatchSize \in Nat /\ None \notin BOOLEAN

Threads == Worker \cup {Master}

VARIABLES
  queue,      \* the checks not taken yet
  nTodo, nIdle, nTotal, fAllOk, mQuit,
  cancelled,  \* mSessionToken
  sessions,   \* sessions started
  added,      \* checks added in this session
  fails,      \* the checks of this session that fail
  passed,     \* those that were run and passed
  pc,         \* where each thread is
  batch,      \* vChecks, until the clean-up has counted them off
  next,       \* the check of the batch a thread runs next
  nNow,       \* size of the batch taken
  fOk,
  result      \* what Wait() returned

shared == <<queue, nTodo, nIdle, nTotal, fAllOk, mQuit>>
session == <<cancelled, sessions, added, fails>>
local == <<batch, next, nNow, fOk>>
vars == <<shared, session, passed, pc, local, result>>

Init ==
  /\ queue = <<>> /\ nTodo = 0 /\ nIdle = 0 /\ nTotal = 0 /\ fAllOk = TRUE /\ mQuit = FALSE
  /\ cancelled = FALSE /\ sessions = 0 /\ added = 0 /\ fails = {} /\ passed = {}
  /\ pc = [t \in Threads |-> IF t = Master THEN "closed" ELSE "enter"]
  /\ batch = [t \in Threads |-> <<>>] /\ next = [t \in Threads |-> 1] /\ nNow = [t \in Threads |-> 0]
  /\ fOk = [t \in Threads |-> TRUE] /\ result = None

IsIdle == nTotal = nIdle /\ nTodo = 0

\* condMaster.notify_one(); only the master waits there.
WakeMaster(f) == IF f[Master] = "asleep" THEN [f EXCEPT ![Master] = "woken"] ELSE f
-----------------------------------------------------------------------------
(* The master's calls.                                                     *)

\* StartCheckingSession throws unless IsIdle(): see ReturnedIdle.
StartCheckingSession ==
  /\ pc[Master] = "closed" /\ IsIdle /\ ~mQuit /\ sessions < MaxSessions
  /\ sessions' = sessions + 1
  /\ cancelled' = FALSE /\ fAllOk' = TRUE
  /\ fails' \in Failing /\ added' = 0 /\ passed' = {} /\ result' = None
  /\ pc' = [pc EXCEPT ![Master] = "open"]
  /\ UNCHANGED <<queue, nTodo, nIdle, nTotal, mQuit, local>>

\* Add pushes k checks and wakes one worker, or all of them.
Add(k) ==
  /\ pc[Master] = "open" /\ added + k <= MaxChecks
  /\ queue' = queue \o [i \in 1..k |-> added + i]
  /\ nTodo' = nTodo + k /\ added' = added + k
  /\ LET waiting == {w \in Worker : pc[w] = "asleep"}
     IN  \E S \in IF k = 1 /\ waiting # {} THEN {{w} : w \in waiting} ELSE {waiting} :
           pc' = [t \in Threads |-> IF t \in S THEN "woken" ELSE pc[t]]
  /\ UNCHANGED <<nIdle, nTotal, fAllOk, mQuit, cancelled, sessions, fails, passed, local, result>>

\* Wait() enters Loop(true).
Wait ==
  /\ pc[Master] = "open"
  /\ pc' = [pc EXCEPT ![Master] = "enter"]
  /\ UNCHANGED <<shared, session, passed, local, result>>

\* The pool, the owner's scope or a shutdown cancels the session.
Cancel ==
  /\ pc[Master] # "closed" /\ ~cancelled
  /\ cancelled' = TRUE
  /\ UNCHANGED <<shared, sessions, added, fails, passed, pc, local, result>>

\* ~CCheckQueue; the pool waits until no checker is running.
Quit ==
  /\ pc[Master] = "closed" /\ ~mQuit
  /\ mQuit' = TRUE
  /\ pc' = [t \in Threads |-> IF t \in Worker /\ pc[t] = "asleep" THEN "woken" ELSE pc[t]]
  /\ UNCHANGED <<queue, nTodo, nIdle, nTotal, fAllOk, session, passed, local, result>>
-----------------------------------------------------------------------------
(* Loop: one critical section, from the top of the loop (after a batch, or  *)
(* on entry, or on waking up) to the next batch, the next wait or the end.  *)

AtTop(t) == pc[t] \in {"enter", "cleanup", "woken"}

\* What the clean-up after a batch leaves.
AllOk(t) == IF pc[t] # "cleanup" THEN fAllOk
            ELSE IF fAllOk = None \/ fOk[t] = None THEN None ELSE fAllOk /\ fOk[t]
Rest(t) == IF pc[t] = "cleanup" /\ cancelled THEN <<>> ELSE queue

Todo(t) == IF pc[t] = "cleanup" THEN nTodo - nNow[t] - (Len(queue) - Len(Rest(t))) ELSE nTodo
Total(t) == IF pc[t] = "enter" THEN nTotal + 1 ELSE nTotal

Idle(t) == IF pc[t] = "woken" THEN nIdle - 1 ELSE nIdle

\* Mutant: the master is not told.
NotifyNobody(t, f) == f

\* A worker that finished the last check tells the master.
Notify(t, f) == IF pc[t] = "cleanup" /\ Todo(t) = 0 /\ t # Master THEN WakeMaster(f) ELSE f

CleanUp(t) ==
  /\ AtTop(t)
  /\ nTodo' = Todo(t)
  /\ UNCHANGED <<mQuit, session, passed>>

\* Mutant: the master leaves as soon as the queue is empty.
FinishedEarly(t) == t = Master

\* The master leaves when nothing is queued or running.
Finished(t) == t = Master /\ Todo(t) = 0

Sleep(t) ==
  /\ CleanUp(t) /\ Rest(t) = <<>> /\ ~mQuit /\ ~Finished(t)
  /\ queue' = <<>> /\ fAllOk' = AllOk(t) /\ nTotal' = Total(t) /\ nIdle' = Idle(t) + 1
  /\ pc' = Notify(t, [pc EXCEPT ![t] = "asleep"])
  /\ batch' = [batch EXCEPT ![t] = <<>>] /\ nNow' = [nNow EXCEPT ![t] = 0]
  /\ UNCHANGED <<next, fOk, result>>

\* The batch gets smaller as the queue does.
Share(t) ==
  LET fair == Len(Rest(t)) \div (Total(t) + Idle(t) + 1)
      most == IF fair < BatchSize THEN fair ELSE BatchSize
  IN  IF most > 1 THEN most ELSE 1

Take(t) ==
  /\ CleanUp(t) /\ Rest(t) # <<>>
  /\ nNow' = [nNow EXCEPT ![t] = Share(t)]
  /\ batch' = [batch EXCEPT ![t] = SubSeq(Rest(t), 1, Share(t))]
  /\ queue' = SubSeq(Rest(t), Share(t) + 1, Len(Rest(t)))
  /\ next' = [next EXCEPT ![t] = 1]
  /\ fAllOk' = AllOk(t) /\ fOk' = [fOk EXCEPT ![t] = AllOk(t)]
  /\ nTotal' = Total(t) /\ nIdle' = Idle(t)
  /\ pc' = Notify(t, [pc EXCEPT ![t] = "work"])
  /\ UNCHANGED result

Outcome(t) == IF cancelled THEN None ELSE AllOk(t)

\* The master has its result.
Return(t) ==
  /\ CleanUp(t) /\ Rest(t) = <<>> /\ ~mQuit /\ Finished(t)
  /\ result' = Outcome(t) /\ fAllOk' = Outcome(t)
  /\ queue' = <<>> /\ nTotal' = Total(t) /\ nIdle' = Idle(t)
  /\ pc' = [pc EXCEPT ![t] = "leave"]
  /\ batch' = [batch EXCEPT ![t] = <<>>] /\ nNow' = [nNow EXCEPT ![t] = 0]
  /\ UNCHANGED <<next, fOk>>

\* The queue is being destroyed.
Exit(t) ==
  /\ CleanUp(t) /\ Rest(t) = <<>> /\ mQuit
  /\ queue' = <<>> /\ fAllOk' = AllOk(t) /\ nTotal' = Total(t) /\ nIdle' = Idle(t)
  /\ pc' = [pc EXCEPT ![t] = "leave"]
  /\ UNCHANGED <<local, result>>

\* ~CTotalScopeGuard, in a critical section of its own.
Leave(t) ==
  /\ pc[t] = "leave"
  /\ nTotal' = nTotal - 1
  /\ pc' = [pc EXCEPT ![t] = IF t = Master THEN "closed" ELSE "gone"]
  /\ UNCHANGED <<queue, nTodo, nIdle, fAllOk, mQuit, session, passed, local, result>>

\* Outside the lock: run the next check of the batch, or give the batch up.  A check of a
\* cancelled session may return an empty optional.
Run(t) ==
  /\ pc[t] = "work"
  /\ IF next[t] > Len(batch[t]) \/ fOk[t] # TRUE \/ cancelled
     THEN /\ pc' = [pc EXCEPT ![t] = "cleanup"]
          /\ next' = [next EXCEPT ![t] = 1]
          /\ UNCHANGED <<fOk, passed>>
     ELSE /\ next' = [next EXCEPT ![t] = @ + 1]
          /\ fOk' = [fOk EXCEPT ![t] = batch[t][next[t]] \notin fails]
          /\ passed' = passed \cup ({batch[t][next[t]]} \ fails)
          /\ pc' = pc
  /\ UNCHANGED <<shared, session, batch, nNow, result>>

\* A check that is running when the session is cancelled stops with an empty optional.
RunCancelled(t) ==
  /\ pc[t] = "work" /\ next[t] <= Len(batch[t]) /\ fOk[t] = TRUE /\ cancelled
  /\ fOk' = [fOk EXCEPT ![t] = None]
  /\ next' = [next EXCEPT ![t] = 1]
  /\ pc' = [pc EXCEPT ![t] = "cleanup"]
  /\ UNCHANGED <<shared, session, passed, batch, nNow, result>>

\* A condition variable may wake a thread for no reason.
Spurious(t) ==
  /\ pc[t] = "asleep"
  /\ pc' = [pc EXCEPT ![t] = "woken"]
  /\ UNCHANGED <<shared, session, passed, local, result>>
-----------------------------------------------------------------------------
Step(t) == Sleep(t) \/ Take(t) \/ Return(t) \/ Exit(t) \/ Leave(t) \/ Run(t) \/ RunCancelled(t)

Next ==
  \/ StartCheckingSession \/ (\E k \in 0..2 : Add(k)) \/ Wait \/ Cancel \/ Quit
  \/ \E t \in Threads : Step(t) \/ Spurious(t)

Spec == Init /\ [][Next]_vars

\* Every thread runs when it can: it leaves the top of the loop, its (finite) batch and the
\* queue.  Nothing wakes a sleeping thread but a notification.
Due(t) == <<AtTop(t), pc[t] = "work", pc[t] = "leave">>
-----------------------------------------------------------------------------
At(L) == {t \in Threads : pc[t] \in L}
Waiting == At({"asleep", "woken"})
Inside == At({"asleep", "woken", "work", "cleanup", "leave"})

\* The threads that hold checks, and the checks a thread and all of them hold.
Busy == At({"work", "cleanup"})
Held(t) == {batch[t][i] : i \in 1..Len(batch[t])}
Outstanding == UNION {Held(t) : t \in Busy}

\* Types, and the counters: nIdle and nTotal count the threads that wait and the threads
\* that are in Loop, and a batch is never empty.
TypeOK ==
  /\ queue \in Seq(1..added) /\ nTodo \in 0..added
  /\ fAllOk \in {TRUE, FALSE, None} /\ result \in {TRUE, FALSE, None}
  /\ passed \subseteq 1..added
  /\ nIdle = Cardinality(Waiting) /\ nTotal = Cardinality(Inside)
  /\ \A t \in Busy : nNow[t] > 0 /\ Len(batch[t]) = nNow[t]

\* nTodo counts the checks that are queued and those in the threads' own batches, each of
\* them once, also when a cancelled session's queue is drained while other threads are
\* still at work.
TodoCounts ==
  /\ nTodo = Len(queue) + Cardinality(Outstanding)
  /\ \A t, u \in Busy : t # u => Held(t) \cap Held(u) = {}

\* What Wait() returned tells the truth: success only if every check added was run and
\* passed, failure only if one failed, and an empty optional only after a cancellation.
Verdict ==
  /\ result = TRUE => passed = 1..added
  /\ result = FALSE => fails \cap 1..added # {}
  /\ result = None => cancelled
ResultSound == pc[Master] = "closed" /\ sessions > 0 => Verdict

\* A queue goes back to the pool idle (the assertion of ReturnQueueToPool, and what
\* StartCheckingSession requires): no worker is left in the session that ended.
ReturnedIdle == pc[Master] = "closed" /\ ~mQuit => IsIdle

(* What Wait() of a check queue returned tells the truth about the checks, *)
(* nTodo counts those outstanding also while a cancelled session drains,   *)
(* and the queue goes back to its pool idle (the pool's assertions).       *)
QueueResultSound == TypeOK /\ TodoCounts /\ ReturnedIdle /\ ResultSound

\* The invariant that carries the proofs.  The checks 1..Taken have left the queue, in order.
Taken == added - Len(queue)

Shape ==
  /\ pc \in [Threads -> {"closed", "open", "enter", "asleep", "woken", "work", "cleanup", "leave", "gone"}]
  /\ pc[Master] # "gone" /\ \A w \in Worker : pc[w] \notin {"closed", "open"}
  /\ batch \in [Threads -> Seq(Nat)] /\ next \in [Threads -> Nat \ {0}] /\ nNow \in [Threads -> Nat]
  /\ fOk \in [Threads -> {TRUE, FALSE, None}]
  /\ cancelled \in BOOLEAN /\ mQuit \in BOOLEAN /\ added \in Nat /\ sessions \in Nat

InOrder ==
  /\ Len(queue) <= added /\ \A i \in 1..Len(queue) : queue[i] = Taken + i
  /\ \A t \in Busy :
       /\ batch[t][1] > 0 /\ batch[t][1] + nNow[t] - 1 <= Taken
       /\ \A i \in 1..nNow[t] : batch[t][i] = batch[t][1] + i - 1

\* Only a queue at rest is destroyed, and only then do its workers leave.
Phases ==
  /\ mQuit => pc[Master] = "closed"
  /\ \A w \in Worker : pc[w] \in {"leave", "gone"} => mQuit
  /\ pc[Master] \in {"leave", "closed"} => nTodo = 0

\* fAllOk and fOk tell the truth about the checks that were run, and result has it from them.
Truthful ==
  /\ ~cancelled => fAllOk # None /\ \A t \in Busy : fOk[t] # None
  /\ fAllOk = FALSE \/ (\E t \in Busy : fOk[t] = FALSE) => fails \cap 1..added # {}
  /\ ~cancelled /\ fAllOk = TRUE => 1..Taken \subseteq passed \cup Outstanding
  /\ \A t \in Busy : fOk[t] = TRUE =>
       /\ pc[t] = "work" => \A i \in 1..nNow[t] : i < next[t] => batch[t][i] \in passed
       /\ pc[t] = "cleanup" /\ ~cancelled => Held(t) \subseteq passed
  /\ pc[Master] \in {"leave", "closed"} /\ sessions > 0 => Verdict

IInv == Shape /\ TypeOK /\ TodoCounts /\ InOrder /\ Phases /\ Truthful

\* Wait() has returned, and a queue that is being destroyed has no worker left.
Settled == pc[Master] \in {"closed", "open"} /\ (mQuit => \A w \in Worker : pc[w] = "gone")
=============================================================================
