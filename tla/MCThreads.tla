----------------------------- MODULE MCThreads -----------------------------
(***************************************************************************)
(* One check queue and the three components of Threads for TLC.  part says *)
(* which one this behaviour runs, and the others stay as they started.     *)
(***************************************************************************)
EXTENDS CheckQueue, Threads

VARIABLE part

\* No check of a session fails, or its second one does.
SecondFails == {{}, {2}}

sVars == <<sQueue, sNow, sStop, sDrain, sPc, sUntil, sJob, sState>>
pVars == <<pIdle, pQueueOf, pWork, pSince, pTerminated, pPc, pTodo, pClock, pPool>>
tVars == <<tStd, tNonStd, tRunning, tPaused, tPc, tJob, tFut, tPauses>>
threads == <<vars, pVars, tVars, sVars, part>>

ThreadsInit ==
  /\ Init /\ P!Init /\ T!Init /\ S!Init
  /\ part \in {"pool", "queue", "threads", "scheduler"}

Only(p) == /\ part = p /\ UNCHANGED part
           /\ p # "pool" => UNCHANGED pVars
           /\ p # "queue" => UNCHANGED vars
           /\ p # "threads" => UNCHANGED tVars
           /\ p # "scheduler" => UNCHANGED sVars

ThreadsNext ==
  \/ Only("pool") /\ P!Next
  \/ Only("queue") /\ Next
  \/ Only("threads") /\ T!Next
  \/ Only("scheduler") /\ S!Next

(* Every thread runs when it can, tasks and checks end, a wait times out,  *)
(* time passes, and whoever pauses the thread pool runs it again.          *)
ThreadsFairness ==
  /\ \A t \in Thread : \A i \in 1..5 : []<>(part = "pool" => ~P!Due(t)[i])
  /\ \A t \in Worker \cup {Master} : \A i \in 1..3 : []<>(part = "queue" => ~Due(t)[i])
  /\ \A w \in High \cup Low : \A i \in 1..4 : []<>(part = "threads" => ~T!Due(w)[i])
  /\ \A t \in Service : \A i \in 1..3 : []<>(part = "scheduler" => ~S!Due(t)[i])
  /\ []<>(part = "scheduler" => sNow = MaxTime)
  /\ \A t \in Service : <>[]~S!Overdue(t) \/ []<>(sPc[t] = "late")

ThreadsSpec == ThreadsInit /\ [][ThreadsNext]_threads /\ ThreadsFairness
-----------------------------------------------------------------------------
(* Again and again nobody waits for a check queue, Wait() on one has       *)
(* returned whenever the session was cancelled, and a queue that is        *)
(* destroyed has lost its workers.                                         *)
ValidationGoesOn == []<>(P!NobodyWaits /\ Settled)

(* Again and again no future is pending, ~CThreadPool has its workers      *)
(* joined, every scheduled task was run and stop(drain) left nothing.      *)
TasksEnd == []<>(T!Settled /\ S!Settled)
=============================================================================
