-------------------------- MODULE ChainStateProofs --------------------------
(***************************************************************************)
(* Proofs about ChainState: whatever the tree of headers, the number of    *)
(* threads and queues, and the RPC calls, no block is validated twice at   *)
(* the same time and no block that breaks a rule is in the active chain.   *)
(***************************************************************************)
EXTENDS ChainStateLemmas
-----------------------------------------------------------------------------
(* The threads.                                                            *)

SameLocals(s) ==
  /\ pc'[s] = pc[s] /\ mostWork'[s] = mostWork[s] /\ conn'[s] = conn[s] /\ oldTip'[s] = oldTip[s]
  /\ parallel'[s] = parallel[s] /\ validating'[s] = validating[s] /\ verdict'[s] = verdict[s]

\* A thread that does not hold cs_main is not disturbed by a step of another.
LEMMA OtherThread ==
  ASSUME NEW s \in Thread, ThreadOK(s), SameLocals(s), world' = world, main # s
  PROVE  ThreadOK(s)'
BY DEF ThreadOK, SameLocals, Working, Locked, Bad

\* A thread that does is not disturbed by a step that leaves tip and cs_main alone.
LEMMA SameThread ==
  ASSUME NEW s \in Thread, ThreadOK(s), SameLocals(s), UNCHANGED <<world, main, tip, validating>>
  PROVE  ThreadOK(s)'
BY DEF ThreadOK, SameLocals, Working, Locked, Bad

\* A thread outside a step has nothing to answer for.
LEMMA IdleThread ==
  ASSUME NEW s \in Thread, pc'[s] \in {"idle", "activate"}, parallel'[s] = FALSE, validating'[s] = Null
  PROVE  ThreadOK(s)'
BY DEF ThreadOK, Working, Locked
\* Two threads do not hold cs_main at once, so a step of t disturbs no other thread.
LEMMA OtherThreads ==
  ASSUME Inv, NEW t \in Thread, main \in {Nobody, t}, world' = world,
         \A s \in Thread \ {t} : SameLocals(s), ThreadOK(t)'
  PROVE  \A s \in Thread : ThreadOK(s)'
<1> SUFFICES ASSUME NEW s \in Thread, s # t PROVE ThreadOK(s)'
  BY Zenon
<1>1. ThreadOK(s) /\ SameLocals(s) /\ main # s
  BY WorldsAssumption, Zenon DEF Inv
<1> QED  BY <1>1, OtherThread, Zenon

\* The functions that the threads' variables are.
Locals ==
  /\ pc \in [Thread -> {"idle", "activate", "find", "checker", "wait", "scripts", "relock"}]
  /\ parallel \in [Thread -> BOOLEAN]
  /\ mostWork \in [Thread -> chainTx \cup {Null}] /\ conn \in [Thread -> Block \cup {Null}]
  /\ DOMAIN oldTip = Thread /\ DOMAIN verdict = Thread
  /\ validating \in [Thread -> Block \cup {Null}]

LEMMA LocalsOfInv == Inv => Locals
BY Zenon DEF Inv, Shape, Locals

LEMMA UnlockNested ==
  ASSUME Inv, NEW t \in Thread, main \in {Nobody, t}, nested' = nested
  PROVE  Unlock(t) \in Thread \cup {Nobody} /\ (nested' => Unlock(t) = Rpc)
BY WorldsAssumption, Zenon DEF Inv, Shape, Unlock, Thread

ThreadsOK == Shape /\ \A s \in Thread : ThreadOK(s)

LEMMA LockMainThreads ==
  ASSUME Inv, NEW t \in Thread, LockMain(t)
  PROVE  ThreadsOK'
<1>0. Locals /\ ThreadOK(t) /\ Shape
  BY LocalsOfInv, Zenon DEF Inv
<1>1. /\ pc' = [pc EXCEPT ![t] = "find"] /\ main' = t /\ main \in {Nobody, t} /\ pc[t] = "activate"
      /\ oldTip' = [oldTip EXCEPT ![t] = tip]
      /\ mostWork' = [mostWork EXCEPT ![t] = IF newTip[t] = tip THEN mostWork[t] ELSE Null]
      /\ UNCHANGED <<chainTx, world, nested, conn, parallel, verdict, validating, err>>
  BY Zenon DEF LockMain, Unlock, index
<1>2. Shape'
  <2>1. mostWork' \in [Thread -> chainTx' \cup {Null}]
    BY <1>0, <1>1 DEF Locals
  <2>2. nested' => main' = Rpc
    BY <1>0, <1>1, WorldsAssumption, Zenon DEF Shape, Thread
  <2> QED  BY <1>0, <1>1, <2>1, <2>2, Zenon DEF Shape
<1>3. \A s \in Thread \ {t} : SameLocals(s)
  BY <1>0, <1>1 DEF SameLocals, Locals
<1>4. ThreadOK(t)'
  BY <1>0, <1>1 DEF ThreadOK, Working, Locked, Locals
<1> QED  BY <1>1, <1>2, <1>3, <1>4, OtherThreads DEF ThreadsOK

\* A step of ActivateBestChain that ends outside ConnectTip.
LEMMA OutsideThreads ==
  ASSUME Inv, NEW t \in Thread, main \in {Nobody, t}, main' \in Thread \cup {Nobody}, nested' \in BOOLEAN, nested' => main' = Rpc,
         NEW v \in {"idle", "activate"}, pc' = [pc EXCEPT ![t] = v],
         mostWork' \in [Thread -> chainTx \cup {Null}], \A s \in Thread \ {t} : mostWork'[s] = mostWork[s],
         conn' \in {conn, [conn EXCEPT ![t] = Null]},
         oldTip' \in {oldTip, [oldTip EXCEPT ![t] = Null]},
         parallel' = [parallel EXCEPT ![t] = FALSE], validating' = [validating EXCEPT ![t] = Null],
         verdict' \in {verdict, [verdict EXCEPT ![t] = Null]},
         UNCHANGED <<chainTx, world>>, err' # "already validating"
  PROVE  ThreadsOK'
<1>0. Locals
  BY LocalsOfInv, Zenon
<1>1. Shape'
  BY <1>0, Zenon DEF Shape, Locals
<1>2. \A s \in Thread \ {t} : SameLocals(s)
  BY <1>0, Zenon DEF SameLocals, Locals
<1>3. ThreadOK(t)'
  <2>1. pc'[t] \in {"idle", "activate"} /\ parallel'[t] = FALSE /\ validating'[t] = Null
    BY <1>0, Zenon DEF Locals
  <2> QED  BY <2>1, IdleThread, Zenon
<1> QED  BY <1>1, <1>2, <1>3, OtherThreads, Zenon DEF ThreadsOK

\* Outside script validation a thread has no block in validation.
LEMMA NotValidating ==
  ASSUME Inv, NEW t \in Thread, pc[t] \notin {"scripts", "relock"}
  PROVE  parallel[t] = FALSE /\ validating[t] = Null /\ parallel = [parallel EXCEPT ![t] = FALSE]
         /\ validating = [validating EXCEPT ![t] = Null]
<1>1. Locals /\ ThreadOK(t)
  BY LocalsOfInv, Zenon DEF Inv
<1>2. parallel[t] = FALSE /\ validating[t] = Null
  BY <1>1 DEF ThreadOK, Locals
<1> QED  BY <1>1, <1>2 DEF Locals

LEMMA LeaveThreads ==
  ASSUME Inv, NEW t \in Thread, Leave(t)
  PROVE  ThreadsOK'
<1>0. Locals /\ ThreadOK(t) /\ Shape
  BY LocalsOfInv, Zenon DEF Inv
<1>1. /\ pc' = [pc EXCEPT ![t] = "idle"] /\ main' = Nobody /\ pc[t] = "find"
      /\ oldTip' = [oldTip EXCEPT ![t] = Null] /\ mostWork' = [mostWork EXCEPT ![t] = Null]
      /\ nested' = IF t = Rpc THEN FALSE ELSE nested
      /\ UNCHANGED <<chainTx, world, conn, parallel, verdict, validating, err>>
  BY Zenon DEF Leave, Found, index
<1>2. main = t
  BY <1>0, <1>1 DEF ThreadOK
<1>3. nested' = FALSE
  BY <1>0, <1>1, <1>2, Zenon DEF Shape
<1>4. mostWork' \in [Thread -> chainTx \cup {Null}] /\ \A s \in Thread \ {t} : mostWork'[s] = mostWork[s]
  BY <1>0, <1>1 DEF Locals
<1>5. parallel' = [parallel EXCEPT ![t] = FALSE] /\ validating' = [validating EXCEPT ![t] = Null]
  BY <1>1, NotValidating, Zenon
<1>6. err' # "already validating"
  BY <1>0, <1>1, Zenon DEF Shape
<1> QED  BY <1>1, <1>2, <1>3, <1>4, <1>5, <1>6, OutsideThreads, Zenon
\* The end of ActivateBestChainStep, by EndStep or by an exception.
LEMMA EndThreads ==
  ASSUME Inv, NEW t \in Thread, main \in {Nobody, t}, main' = Unlock(t), nested' = nested,
         pc' = [pc EXCEPT ![t] = "activate"], NEW m \in chainTx \cup {Null}, mostWork' = [mostWork EXCEPT ![t] = m],
         conn' = [conn EXCEPT ![t] = Null], UNCHANGED <<oldTip, chainTx, world>>,
         parallel' = [parallel EXCEPT ![t] = FALSE], validating' = [validating EXCEPT ![t] = Null],
         verdict' \in {verdict, [verdict EXCEPT ![t] = Null]}, err' # "already validating"
  PROVE  ThreadsOK'
<1>1. main' \in Thread \cup {Nobody} /\ nested' \in BOOLEAN /\ (nested' => main' = Rpc)
  BY UnlockNested, Zenon DEF Inv, Shape
<1>2. mostWork' \in [Thread -> chainTx \cup {Null}] /\ \A s \in Thread \ {t} : mostWork'[s] = mostWork[s]
  BY LocalsOfInv, Zenon DEF Locals
<1> QED  BY <1>1, <1>2, OutsideThreads, Zenon

LEMMA StartStepThreads ==
  ASSUME Inv, NEW t \in Thread, StartStep(t)
  PROVE  ThreadsOK'
<1> DEFINE m == Target(t)
<1>0. Locals /\ ThreadOK(t) /\ Shape /\ IndexInv
  BY LocalsOfInv, Zenon DEF Inv
<1>1. pc[t] = "find" /\ m # Null /\ ~AncestorInValidation(m) /\ tip' = Highest(Ancestors[tip], m)
  BY Zenon DEF StartStep, Found
<1>2. m \in chainTx /\ m \in Block
  BY <1>1, TargetFound, Zenon
<1>3. tip' \in Ancestors[m]
  BY <1>0, <1>1, <1>2, ForkFound, Zenon
<1>4. main = t
  BY <1>0, <1>1 DEF ThreadOK
<1>5. UNCHANGED <<chainTx, world, nested, oldTip, parallel, verdict, validating, err>>
  BY Zenon DEF StartStep, index
<1>6. parallel[t] = FALSE /\ validating[t] = Null /\ parallel' = [parallel EXCEPT ![t] = FALSE]
      /\ validating' = [validating EXCEPT ![t] = Null] /\ err' # "already validating"
  <2>1. pc[t] \notin {"scripts", "relock"}
    BY <1>1
  <2> QED  BY <1>0, <1>5, <2>1, NotValidating, Zenon DEF Shape
<1>7. CASE tip' = m
  <2>1. EndStep(t, m, m, TRUE)
    BY <1>7, Zenon DEF StartStep
  <2> QED  BY <1>2, <1>4, <1>5, <1>6, <2>1, EndThreads, Zenon DEF EndStep
<1>8. CASE tip' # m
  <2>1. /\ mostWork' = [mostWork EXCEPT ![t] = m] /\ conn' = [conn EXCEPT ![t] = After(tip', m)]
        /\ pc' = [pc EXCEPT ![t] = "checker"] /\ main' = t
    BY <1>4, <1>8, Zenon DEF StartStep
  <2>2. After(tip', m) \in Ancestors[m] \ {Genesis} /\ Parent[After(tip', m)] = tip'
    BY <1>2, <1>3, <1>8, AfterFound, Zenon
  <2>3. After(tip', m) \in Block
    BY <1>2, <2>2, Paths, Zenon
  <2>4. \A s \in Thread : validating'[s] \notin Ancestors[m]
    <3>1. Null \notin Ancestors[m]
      BY <1>2, TreeAssumption
    <3> QED  BY <1>1, <1>5, <3>1, Zenon DEF AncestorInValidation, InValidation
  <2> HIDE DEF m
  <2>5. Shape'
    <3>1. mostWork' \in [Thread -> chainTx' \cup {Null}] /\ conn' \in [Thread -> Block \cup {Null}]
          /\ pc' \in [Thread -> {"idle", "activate", "find", "checker", "wait", "scripts", "relock"}]
      BY <1>0, <1>2, <1>5, <2>1, <2>3 DEF Locals
    <3>2. main' \in Thread \cup {Nobody} /\ (nested' => main' = Rpc)
      BY <1>0, <1>4, <1>5, <2>1, Zenon DEF Shape
    <3> QED  BY <1>0, <1>5, <3>1, <3>2, Zenon DEF Shape
  <2>6. \A s \in Thread \ {t} : SameLocals(s)
    BY <1>0, <1>5, <2>1 DEF SameLocals, Locals
  <2>7. ThreadOK(t)'
    <3>1. pc'[t] = "checker" /\ mostWork'[t] = m /\ conn'[t] = After(tip', m) /\ parallel'[t] = FALSE /\ validating'[t] = Null
      BY <1>0, <1>5, <1>6, <2>1, Zenon DEF Locals
    <3> QED  BY <1>2, <2>1, <2>2, <2>4, <3>1 DEF ThreadOK, Working, Locked
  <2> QED  BY <1>4, <1>5, <2>5, <2>6, <2>7, OtherThreads, Zenon DEF ThreadsOK
<1> QED  BY <1>7, <1>8

LEMMA BusyThreads ==
  ASSUME Inv, NEW t \in Thread, GetCheckerBusy(t)
  PROVE  ThreadsOK'
<1>0. Locals /\ ThreadOK(t) /\ Shape
  BY LocalsOfInv, Zenon DEF Inv
<1>1. /\ pc[t] = "checker" /\ pc' = [pc EXCEPT ![t] = "wait"]
      /\ UNCHANGED <<chainTx, tip, world, main, nested, mostWork, conn, oldTip, parallel, verdict, validating, err>>
  BY Zenon DEF GetCheckerBusy, index, local
<1>2. Shape'
  BY <1>0, <1>1, Zenon DEF Shape
<1>3. \A s \in Thread \ {t} : SameLocals(s)
  BY <1>0, <1>1 DEF SameLocals, Locals
<1>4. pc'[t] = "wait"
  BY <1>0, <1>1 DEF Locals
<1>5. ThreadOK(t)' /\ main = t
  BY <1>0, <1>1, <1>4 DEF ThreadOK, Working, Locked
<1> QED  BY <1>1, <1>2, <1>3, <1>5, OtherThreads, Zenon DEF ThreadsOK

LEMMA EnterThreads ==
  ASSUME Inv, NEW t \in Thread, EnterScripts(t)
  PROVE  ThreadsOK'
<1>0. Locals /\ ThreadOK(t) /\ Shape
  BY LocalsOfInv, Zenon DEF Inv
<1>1. pc[t] \in {"checker", "wait"}
  BY Zenon DEF EnterScripts
<1>2. /\ Locked(t) /\ Working(t) /\ main = t /\ validating[t] = Null /\ Parent[conn[t]] = tip
      /\ mostWork[t] \in Block /\ conn[t] \in Ancestors[mostWork[t]] \ {Genesis}
      /\ \A s \in Thread \ {t} : validating[s] \notin Ancestors[mostWork[t]]
  BY <1>0, <1>1 DEF ThreadOK, Working, Locked
<1>3. conn[t] \in Block /\ conn[t] # Null
  BY <1>2, TreeAssumption
<1>4. conn[t] \notin InValidation
  BY <1>2, <1>3, Zenon DEF InValidation
<1>5. /\ validating' = [validating EXCEPT ![t] = conn[t]]
      /\ parallel' = [parallel EXCEPT ![t] = Work[tip] = Work[oldTip[t]]]
      /\ main' = IF parallel'[t] THEN Unlock(t) ELSE t
      /\ pc' = [pc EXCEPT ![t] = "scripts"]
      /\ UNCHANGED <<chainTx, tip, world, nested, mostWork, conn, oldTip, verdict, err>>
  BY <1>4, Zenon DEF EnterScripts, index
<1>6. /\ pc'[t] = "scripts" /\ validating'[t] = conn[t] /\ parallel'[t] = (Work[tip] = Work[oldTip[t]])
      /\ pc' \in [Thread -> {"idle", "activate", "find", "checker", "wait", "scripts", "relock"}]
      /\ validating' \in [Thread -> Block \cup {Null}] /\ parallel' \in [Thread -> BOOLEAN]
  BY <1>0, <1>3, <1>5 DEF Locals
<1>7. main' \in Thread \cup {Nobody} /\ (nested' => main' = Rpc)
  <2>1. Unlock(t) \in Thread \cup {Nobody} /\ (nested' => Unlock(t) = Rpc)
    BY <1>2, <1>5, UnlockNested, Zenon
  <2>2. nested' => t = Rpc
    BY <1>0, <1>2, <1>5, Zenon DEF Shape
  <2> QED  BY <1>5, <2>1, <2>2, Zenon
<1>8. Shape'
  BY <1>0, <1>5, <1>6, <1>7, Zenon DEF Shape
<1>9. \A s \in Thread \ {t} : SameLocals(s)
  BY <1>0, <1>5 DEF SameLocals, Locals
<1>10. ThreadOK(t)'
  <2>1. \A s \in Thread \ {t} : validating'[s] \notin Ancestors[mostWork[t]]
    BY <1>2, <1>9, Zenon DEF SameLocals
  <2> QED  BY <1>2, <1>5, <1>6, <2>1, Zenon DEF ThreadOK, Working, Locked
<1> QED  BY <1>2, <1>5, <1>8, <1>9, <1>10, OtherThreads, Zenon DEF ThreadsOK

LEMMA DoneThreads ==
  ASSUME Inv, NEW t \in Thread, ScriptsDone(t)
  PROVE  ThreadsOK'
<1>0. Locals /\ ThreadOK(t) /\ Shape
  BY LocalsOfInv, Zenon DEF Inv
<1>1. /\ pc[t] = "scripts" /\ pc' = [pc EXCEPT ![t] = "relock"]
      /\ \E v \in {"ok", "bad", "cancelled"} : verdict' = [verdict EXCEPT ![t] = v] /\ (v = "ok" => conn[t] \notin Bad)
      /\ UNCHANGED <<chainTx, tip, world, main, nested, mostWork, conn, oldTip, parallel, validating, err>>
  <2>1. PICK v \in {IF conn[t] \in Bad THEN "bad" ELSE "ok"} \cup {"cancelled"} : verdict' = [verdict EXCEPT ![t] = v]
    BY Zenon DEF ScriptsDone
  <2>2. v \in {"ok", "bad", "cancelled"} /\ (v = "ok" => conn[t] \notin Bad)
    BY <2>1
  <2> QED  BY <2>1, <2>2, Zenon DEF ScriptsDone, index
<1>2. Shape'
  BY <1>0, <1>1, Zenon DEF Shape
<1>3. \A s \in Thread \ {t} : SameLocals(s)
  BY <1>0, <1>1 DEF SameLocals, Locals
<1>4. pc'[t] = "relock" /\ (verdict'[t] = "ok" => conn[t] \notin Bad)
  BY <1>0, <1>1 DEF Locals
<1>5. ThreadOK(t)'
  BY <1>0, <1>1, <1>4 DEF ThreadOK, Working, Locked, Bad
<1>6. \A s \in Thread : ThreadOK(s)
  BY Zenon DEF Inv
<1> QED  BY <1>1, <1>2, <1>3, <1>5, <1>6, SameThread, Zenon DEF ThreadsOK
LEMMA FailThreads ==
  ASSUME Inv, NEW t \in Thread, FailEarly(t) \/ ValidationCancelled(t) \/ ScriptsFailed(t) \/ BestBlockTaken(t)
  PROVE  ThreadsOK'
<1>0. Locals /\ ThreadOK(t) /\ Shape
  BY LocalsOfInv, Zenon DEF Inv
<1>1. /\ pc' = [pc EXCEPT ![t] = "activate"] /\ main' = Unlock(t) /\ mostWork' = [mostWork EXCEPT ![t] = Null]
      /\ conn' = [conn EXCEPT ![t] = Null] /\ UNCHANGED <<chainTx, world, nested, oldTip, err>>
  BY Zenon DEF FailEarly, ValidationCancelled, ScriptsFailed, BestBlockTaken, Relocked, Abandon, InvalidBlockFound, EndStep
<1>2. err' # "already validating"
  BY <1>0, <1>1, Zenon DEF Shape
<1>3. CASE FailEarly(t)
  <2>1. pc[t] \in {"checker", "wait"} /\ UNCHANGED <<parallel, validating, verdict>>
    BY <1>3, Zenon DEF FailEarly
  <2>2. main = t /\ pc[t] \notin {"scripts", "relock"}
    BY <1>0, <2>1 DEF ThreadOK, Locked
  <2> QED  BY <1>1, <1>2, <2>1, <2>2, NotValidating, EndThreads, Zenon
<1>4. CASE ValidationCancelled(t) \/ ScriptsFailed(t) \/ BestBlockTaken(t)
  <2>1. Relocked(t)
    BY <1>4, Zenon DEF ValidationCancelled, ScriptsFailed, BestBlockTaken
  <2> QED  BY <1>1, <1>2, <2>1, EndThreads, Zenon DEF Relocked
<1> QED  BY <1>3, <1>4, Zenon

LEMMA ConnectThreads ==
  ASSUME Inv, NEW t \in Thread, ConnectTip(t)
  PROVE  ThreadsOK'
<1> DEFINE b == conn[t]
           m == mostWork[t]
<1>0. Locals /\ ThreadOK(t) /\ Shape
  BY LocalsOfInv, Zenon DEF Inv
<1>1. Relocked(t) /\ pc[t] = "relock" /\ main \in {Nobody, t}
  BY Zenon DEF ConnectTip, Relocked
<1>2. m \in Block /\ m \in chainTx /\ b \in Ancestors[m] \ {Genesis}
  BY <1>0, <1>1, TreeAssumption DEF ThreadOK, Working, Locals
<1>3. b \in Block \ {Genesis}
  BY <1>2, Paths, Zenon
<1>4. err' # "already validating"
  <2>1. err' \in {"no candidates", err}
    BY Zenon DEF ConnectTip
  <2> QED  BY <1>0, <2>1, Zenon DEF Shape
<1>5. CASE b = m \/ Work[b] > Work[oldTip[t]]
  <2>1. EndStep(t, m, b, TRUE)
    BY <1>5, Zenon DEF ConnectTip
  <2> HIDE DEF b, m
  <2>2. PICK x \in chainTx \cup {Null} : mostWork' = [mostWork EXCEPT ![t] = x]
    BY <1>2, <2>1, Zenon DEF EndStep
  <2>3. /\ pc' = [pc EXCEPT ![t] = "activate"] /\ main' = Unlock(t) /\ conn' = [conn EXCEPT ![t] = Null]
    BY <2>1, Zenon DEF EndStep
  <2> QED  BY <1>1, <1>4, <2>2, <2>3, EndThreads, Zenon DEF Relocked
<1>6. CASE b # m /\ ~(Work[b] > Work[oldTip[t]])
  <2>1. /\ tip' = b /\ conn' = [conn EXCEPT ![t] = After(b, m)] /\ pc' = [pc EXCEPT ![t] = "checker"] /\ main' = t
        /\ mostWork' = mostWork
    BY <1>6, Zenon DEF ConnectTip
  <2>2. parallel[t] = FALSE
    <3>1. Work[b] \in Nat /\ Work[Parent[b]] \in Nat /\ Work[b] > Work[Parent[b]]
      BY <1>3, TreeAssumption
    <3>2. parallel[t] => Work[Parent[b]] = Work[oldTip[t]]
      BY <1>0 DEF ThreadOK
    <3>3. parallel[t] \in BOOLEAN
      BY <1>0 DEF Locals
    <3> HIDE DEF b
    <3> QED  BY <1>6, <3>1, <3>2, <3>3
  <2>3. Locked(t)
    BY <1>1, <2>2 DEF Locked
  <2>4. After(b, m) \in Ancestors[m] \ {Genesis} /\ Parent[After(b, m)] = b
    BY <1>2, <1>6, AfterFound, Zenon
  <2>5. After(b, m) \in Block
    BY <1>2, <2>4, Paths, Zenon
  <2>6. main = t /\ \A s \in Thread \ {t} : validating[s] \notin Ancestors[m]
    BY <1>0, <2>3, Zenon DEF ThreadOK
  <2>7. /\ validating' = [validating EXCEPT ![t] = Null] /\ verdict' = [verdict EXCEPT ![t] = Null]
        /\ parallel' = [parallel EXCEPT ![t] = FALSE] /\ UNCHANGED <<chainTx, world, nested, oldTip>>
    BY <1>1, Zenon DEF Relocked
  <2> HIDE DEF b, m
  <2>8. Shape'
    <3>1. conn' \in [Thread -> Block \cup {Null}] /\ validating' \in [Thread -> Block \cup {Null}]
          /\ parallel' \in [Thread -> BOOLEAN] /\ DOMAIN verdict' = Thread
          /\ pc' \in [Thread -> {"idle", "activate", "find", "checker", "wait", "scripts", "relock"}]
      BY <1>0, <2>1, <2>5, <2>7 DEF Locals
    <3> QED  BY <1>0, <1>4, <2>1, <2>6, <2>7, <3>1, Zenon DEF Shape
  <2>9. \A s \in Thread \ {t} : SameLocals(s)
    BY <1>0, <2>1, <2>7 DEF SameLocals, Locals
  <2>10. ThreadOK(t)'
    <3>1. pc'[t] = "checker" /\ mostWork'[t] = m /\ conn'[t] = After(b, m) /\ parallel'[t] = FALSE /\ validating'[t] = Null
      BY <1>0, <2>1, <2>7 DEF Locals, m
    <3>2. \A s \in Thread \ {t} : validating'[s] \notin Ancestors[m]
      BY <2>6, <2>9, Zenon DEF SameLocals
    <3> QED  BY <1>2, <2>1, <2>4, <3>1, <3>2 DEF ThreadOK, Working, Locked
  <2> QED  BY <2>6, <2>7, <2>8, <2>9, <2>10, OtherThreads, Zenon DEF ThreadsOK
<1> QED  BY <1>5, <1>6, Zenon

\* The RPC calls and the arrivals of blocks.
LEMMA SharedThreads ==
  ASSUME Inv, NEW t \in Thread, main \in {Nobody, t}, main' \in {Nobody, main, Rpc}, nested' \in BOOLEAN, nested' => main' = Rpc,
         pc[t] \notin {"scripts", "relock"}, pc' = [pc EXCEPT ![t] = "activate"], chainTx \subseteq chainTx',
         UNCHANGED <<world, mostWork, conn, oldTip, parallel, verdict, validating>>, err' # "already validating"
  PROVE  ThreadsOK'
<1>0. Locals
  BY LocalsOfInv, Zenon
<1>1. parallel[t] = FALSE /\ validating[t] = Null
  BY NotValidating, Zenon
<1>2. Shape'
  <2>1. mostWork' \in [Thread -> chainTx' \cup {Null}]
    BY <1>0, Zenon DEF Locals
  <2>2. main' \in Thread \cup {Nobody}
    BY Zenon DEF Inv, Shape, Thread
  <2>3. pc' \in [Thread -> {"idle", "activate", "find", "checker", "wait", "scripts", "relock"}]
    BY <1>0, Zenon DEF Locals
  <2> QED  BY <1>0, <2>1, <2>2, <2>3, Zenon DEF Shape, Locals
<1>3. \A s \in Thread \ {t} : SameLocals(s)
  BY <1>0, Zenon DEF SameLocals, Locals
<1>4. ThreadOK(t)'
  <2>1. pc'[t] = "activate"
    BY <1>0, Zenon DEF Locals
  <2> QED  BY <1>1, <2>1, IdleThread, Zenon
<1> QED  BY <1>2, <1>3, <1>4, OtherThreads, Zenon DEF ThreadsOK

\* A step that touches no thread.
LEMMA QuietThreads ==
  ASSUME Inv, chainTx \subseteq chainTx',
         UNCHANGED <<world, main, nested, tip, pc, mostWork, conn, oldTip, parallel, verdict, validating, err>>
  PROVE  ThreadsOK'
<1>1. Shape'
  <2>1. mostWork' \in [Thread -> chainTx' \cup {Null}]
    BY LocalsOfInv DEF Locals
  <2> QED  BY <2>1, Zenon DEF Inv, Shape
<1>2. \A s \in Thread : ThreadOK(s) /\ SameLocals(s)
  BY Zenon DEF Inv, SameLocals
<1> QED  BY <1>1, <1>2, SameThread, Zenon DEF ThreadsOK

LEMMA NextThreads ==
  ASSUME Inv, Next
  PROVE  ThreadsOK'
<1> USE DEF index, counters, local
<1>0. Shape /\ Locals
  BY LocalsOfInv, Zenon DEF Inv
<1>1. ASSUME NEW b \in Block \ {Genesis}, ReceiveBlock(b) \/ RejectBlock(b) \/ AcceptBlock(b) PROVE ThreadsOK'
  <2>1. chainTx \subseteq chainTx'
    BY <1>1, Zenon DEF ReceiveBlock, RejectBlock, AcceptBlock
  <2> QED  BY <1>1, <2>1, QuietThreads, Zenon DEF ReceiveBlock, RejectBlock, AcceptBlock
<1>2. ASSUME NEW b \in Block \ {Genesis}, InvalidateBlock(b) \/ ReconsiderBlock(b) \/ PreciousBlock(b) PROVE ThreadsOK'
  <2>1. /\ pc[Rpc] = "idle" /\ main = Nobody /\ UNCHANGED <<chainTx, world, mostWork, conn, oldTip, parallel, verdict, validating>>
    BY <1>2, Zenon DEF InvalidateBlock, ReconsiderBlock, PreciousBlock, RpcActivate
  <2>2. pc[Rpc] \notin {"scripts", "relock"} /\ Rpc \in Thread /\ main \in {Nobody, Rpc} /\ chainTx \subseteq chainTx'
    BY <2>1 DEF Thread
  <2>3. nested = FALSE
    BY <1>0, <2>1, <2>2, WorldsAssumption, Zenon DEF Shape
  <2>4. CASE pc' = [pc EXCEPT ![Rpc] = "activate"]
    <3>1. main' \in {Nobody, main, Rpc} /\ nested' \in BOOLEAN /\ (nested' => main' = Rpc)
      BY <1>2, <2>1, <2>3, Zenon DEF InvalidateBlock, ReconsiderBlock, PreciousBlock
    <3>2. err' # "already validating"
      <4>1. err' \in {err, "no candidates"}
        BY <1>2, Zenon DEF InvalidateBlock, ReconsiderBlock, PreciousBlock
      <4> QED  BY <1>0, <4>1, Zenon DEF Shape
    <3> QED  BY <2>1, <2>2, <2>4, <3>1, <3>2, SharedThreads, Zenon
  <2>5. CASE pc' # [pc EXCEPT ![Rpc] = "activate"]
    <3>1. UNCHANGED <<pc, err, tip, main, nested>>
      BY <1>2, <2>5, Zenon DEF InvalidateBlock, ReconsiderBlock, PreciousBlock
    <3> QED  BY <2>1, <2>2, <3>1, QuietThreads, Zenon
  <2> QED  BY <2>4, <2>5
<1>3. ASSUME NEW t \in Worker, NEW b \in todo, StartActivation(t, b) PROVE ThreadsOK'
  <2>1. /\ pc[t] = "idle" /\ pc' = [pc EXCEPT ![t] = "activate"]
        /\ UNCHANGED <<chainTx, world, main, nested, tip, mostWork, conn, oldTip, parallel, verdict, validating, err>>
    BY <1>3, Zenon DEF StartActivation
  <2>2. t \in Thread /\ pc[t] \notin {"scripts", "relock"}
    BY <1>3, <2>1 DEF Thread
  <2>3. parallel'[t] = FALSE /\ validating'[t] = Null
    BY <2>1, <2>2, NotValidating, Zenon
  <2>4. pc'[t] \in {"idle", "activate"}
    BY <1>0, <2>1, <2>2 DEF Locals
  <2>5. ThreadOK(t)'
    BY <2>2, <2>3, <2>4, IdleThread, Zenon
  <2>6. \A s \in Thread \ {t} : SameLocals(s) /\ ThreadOK(s)
    BY <1>0, <2>1, Zenon DEF SameLocals, Locals, Inv
  <2>7. Shape'
    BY <1>0, <2>1, <2>2, Zenon DEF Shape
  <2> QED  BY <2>1, <2>5, <2>6, <2>7, SameThread, Zenon DEF ThreadsOK
<1>4. ASSUME NEW t \in Thread, Step(t) PROVE ThreadsOK'
  <2>1. CASE DropCandidate(t)
    <3>1. UNCHANGED <<chainTx, world, main, nested, tip, pc, mostWork, conn, oldTip, parallel, verdict, validating, err>>
      BY <2>1, Zenon DEF DropCandidate
    <3> QED  BY <3>1, QuietThreads
  <2> QED  BY <1>4, <2>1, LockMainThreads, LeaveThreads, StartStepThreads, BusyThreads, EnterThreads, DoneThreads,
                 FailThreads, ConnectThreads, Zenon DEF Step
<1>5. CASE Done
  BY <1>5, QuietThreads DEF Done, vars
<1> QED  BY <1>1, <1>2, <1>3, <1>4, <1>5, Zenon DEF Next, Arrive, Accepted, RpcCall
-----------------------------------------------------------------------------
(* The active chain.                                                       *)

\* The tip goes down its own path, or up to a block that was found good.
LEMMA TipMoves ==
  ASSUME Inv, Next
  PROVE  \/ tip' \in Ancestors[tip]
         \/ tip' \in Block \ {Genesis} /\ Parent[tip'] = tip /\ tip' \notin Bad
<1> USE DEF index, counters, local
<1>0. tip \in Block /\ tip \in Ancestors[tip] /\ IndexInv
  BY Paths DEF Inv, IndexInv
<1>1. CASE tip' = tip
  BY <1>0, <1>1
<1>2. ASSUME NEW b \in Block \ {Genesis}, ReceiveBlock(b) \/ RejectBlock(b) \/ AcceptBlock(b) PROVE tip' = tip
  BY <1>2, Zenon DEF ReceiveBlock, RejectBlock, AcceptBlock
<1>3. ASSUME NEW b \in Block \ {Genesis}, InvalidateBlock(b) \/ ReconsiderBlock(b) \/ PreciousBlock(b) PROVE tip' \in Ancestors[tip]
  <2>1. tip' = tip \/ (b \in Ancestors[tip] /\ tip' = Parent[b])
    BY <1>3, Zenon DEF InvalidateBlock, ReconsiderBlock, PreciousBlock
  <2> QED  BY <1>0, <1>3, <2>1, ParentOnPath, Zenon
<1>4. ASSUME NEW t \in Worker, NEW b \in todo, StartActivation(t, b) PROVE tip' = tip
  BY <1>4, Zenon DEF StartActivation
<1>5. ASSUME NEW t \in Thread, StartStep(t) PROVE tip' \in Ancestors[tip]
  <2>1. Target(t) # Null /\ tip' = Highest(Ancestors[tip], Target(t))
    BY <1>5, Zenon DEF StartStep
  <2> QED  BY <1>0, <2>1, TargetFound, ForkFound, Zenon
<1>6. ASSUME NEW t \in Thread, ConnectTip(t)
      PROVE  tip' \in Block \ {Genesis} /\ Parent[tip'] = tip /\ tip' \notin Bad
  <2>1. pc[t] = "relock" /\ verdict[t] = "ok" /\ ~TipMoved(t) /\ tip' = conn[t]
    BY <1>6, Zenon DEF ConnectTip, Relocked
  <2>2. ThreadOK(t) /\ Locals
    BY LocalsOfInv, Zenon DEF Inv
  <2>3. conn[t] \in Block \ {Genesis}
    BY <2>1, ConnIsLinked DEF Working
  <2>4. conn[t] \notin Bad
    BY <2>1, <2>2, Zenon DEF ThreadOK
  <2>5. Parent[conn[t]] = tip
    BY <2>1, <2>2 DEF ThreadOK, TipMoved, Locked, Locals
  <2> QED  BY <2>1, <2>3, <2>4, <2>5, Zenon
<1>7. ASSUME NEW t \in Thread, Step(t), ~StartStep(t), ~ConnectTip(t) PROVE tip' = tip
  <2>1. CASE LockMain(t) \/ DropCandidate(t) \/ Leave(t) \/ GetCheckerBusy(t) \/ FailEarly(t) \/ EnterScripts(t)
    BY <2>1, Zenon DEF LockMain, DropCandidate, Leave, GetCheckerBusy, FailEarly, EnterScripts
  <2>2. CASE ScriptsDone(t) \/ ValidationCancelled(t) \/ ScriptsFailed(t) \/ BestBlockTaken(t)
    BY <2>2, Zenon DEF ScriptsDone, ValidationCancelled, ScriptsFailed, BestBlockTaken
  <2> QED  BY <1>7, <2>1, <2>2, Zenon DEF Step
<1>8. CASE Done
  BY <1>1, <1>8, Zenon DEF Done, vars
<1> QED  BY <1>1, <1>2, <1>3, <1>4, <1>5, <1>6, <1>7, <1>8, Zenon DEF Next, Arrive, Accepted, RpcCall

LEMMA NextBad ==
  ASSUME Inv, Next, world' = world
  PROVE  BadNeverActive'
<1>0. tip \in Block /\ Ancestors[tip] \cap Bad = {} /\ Bad' = Bad
  BY Zenon DEF Inv, IndexInv, BadNeverActive, Bad
<1>1. CASE tip' \in Ancestors[tip]
  BY <1>0, <1>1, Paths, Zenon DEF BadNeverActive
<1>2. CASE tip' \in Block \ {Genesis} /\ Parent[tip'] = tip /\ tip' \notin Bad
  <2>1. Ancestors[tip'] = Ancestors[tip] \cup {tip'}
    BY <1>2, TreeAssumption
  <2> QED  BY <1>0, <1>2, <2>1 DEF BadNeverActive
<1> QED  BY <1>1, <1>2, TipMoves

\* The invariant holds in every state.
THEOREM ChainInvariant == Spec => []Inv
<1>1. ASSUME Inv, [Next]_vars PROVE Inv'
  <2>1. CASE UNCHANGED vars
    <3>1. IndexInv' /\ ClockInv'
      BY <1>1, <2>1 DEF Inv, IndexInv, ClockInv, Timed, vars, index, counters
    <3>2. RunningInv'
      BY <1>1, <2>1, RunningFrame DEF Inv, vars, index
    <3>3. ThreadsOK'
      BY <1>1, <2>1, QuietThreads DEF vars, index, local
    <3>4. BadNeverActive'
      BY <1>1, <2>1, Zenon DEF Inv, BadNeverActive, Bad, vars
    <3> QED  BY <3>1, <3>2, <3>3, <3>4, Zenon DEF Inv, ThreadsOK
  <2>2. CASE Next
    <3>1. world' = world
      <4> USE DEF index, counters, local
      <4>1. \A b \in Block \ {Genesis} : ReceiveBlock(b) \/ RejectBlock(b) \/ AcceptBlock(b) => world' = world
        BY Zenon DEF ReceiveBlock, RejectBlock, AcceptBlock
      <4>2. \A b \in Block \ {Genesis} : InvalidateBlock(b) \/ ReconsiderBlock(b) \/ PreciousBlock(b) => world' = world
        BY Zenon DEF InvalidateBlock, ReconsiderBlock, PreciousBlock, RpcActivate
      <4>3. \A t \in Worker : \A b \in todo : StartActivation(t, b) => world' = world
        BY Zenon DEF StartActivation
      <4>4. \A t \in Thread : LockMain(t) \/ DropCandidate(t) \/ Leave(t) \/ StartStep(t) \/ GetCheckerBusy(t) \/ FailEarly(t) => world' = world
        BY Zenon DEF LockMain, DropCandidate, Leave, StartStep, GetCheckerBusy, FailEarly
      <4>5. \A t \in Thread : EnterScripts(t) \/ ScriptsDone(t) \/ ValidationCancelled(t) \/ ScriptsFailed(t) \/ BestBlockTaken(t) \/ ConnectTip(t) => world' = world
        BY Zenon DEF EnterScripts, ScriptsDone, ValidationCancelled, ScriptsFailed, BestBlockTaken, ConnectTip, Relocked
      <4>6. Done => world' = world
        BY DEF Done, vars
      <4> QED  BY <2>2, <4>1, <4>2, <4>3, <4>4, <4>5, <4>6, Zenon DEF Next, Arrive, Accepted, RpcCall, Step
    <3> QED  BY <1>1, <2>2, <3>1, NextIndex, NextClock, NextRunning, NextThreads, NextBad, Zenon DEF Inv, ThreadsOK
  <2> QED  BY <1>1, <2>1, <2>2, Zenon
<1> QED  BY <1>1, InitInv, PTL DEF Spec

\* However validations race, are cancelled and fail, and whatever the RPC thread calls, no block
\* that breaks a rule, and no block above one, is ever in the active chain (ConnectTip).
THEOREM BadStaysOut == Spec => []BadNeverActive
<1>1. Inv => BadNeverActive
  BY Zenon DEF Inv
<1> QED  BY <1>1, ChainInvariant, PTL

\* No block is validated by two threads at the same time (CBlockValidationStatus, "if this
\* happens we have a bug"), and the threads hold cs_main wherever AssertLockHeld says so.
THEOREM ValidatedAtMostOnce == Spec => []ValidatedOnce
<1>1. Inv => ValidatedOnce
  <2> SUFFICES ASSUME Inv PROVE TypeOK /\ err # "already validating"
    BY Zenon DEF ValidatedOnce
  <2>1. DOMAIN running = 1..Len(running)
    BY Zenon, LenProperties DEF Inv, RunningInv
  <2>2. ASSUME NEW t \in Thread
        PROVE  /\ pc[t] \in {"find", "checker", "wait"} => main = t
               /\ pc[t] \in {"scripts", "relock"} <=> validating[t] # Null
               /\ validating[t] # Null => validating[t] = conn[t] /\ (main = t \/ parallel[t])
    <3>1. ThreadOK(t) /\ Locals
      BY LocalsOfInv, Zenon DEF Inv
    <3>2. pc[t] \in {"scripts", "relock"} => conn[t] # Null
      BY ConnIsLinked, TreeAssumption DEF Working
    <3> QED  BY <3>1, <3>2 DEF ThreadOK, Working, Locked, Locals
  <2>3. \A t \in Thread : pc[t] = "scripts" <=> \E i \in DOMAIN running : running[i].by = t
    BY <2>1, Zenon DEF Inv, RunningInv
  <2>4. /\ {Genesis} \subseteq chainTx /\ chainTx \subseteq data /\ data \subseteq Block
        /\ unlinked \subseteq data \ chainTx /\ invalid \subseteq Block
        /\ scripts \subseteq chainTx /\ candidates \subseteq chainTx /\ tip \in chainTx
        /\ valTime \in [Block -> 0..Never] /\ seqId \in [Block -> Int]
        /\ incoming \in Block \cup {Null} /\ todo \subseteq data /\ world \in Worlds
    BY DEF Inv, IndexInv, ClockInv
  <2>5. /\ main \in Thread \cup {Nobody} /\ nested \in BOOLEAN /\ err # "already validating"
        /\ pc \in [Thread -> {"idle", "activate", "find", "checker", "wait", "scripts", "relock"}]
    BY Zenon DEF Inv, Shape
  <2>6. Len(running) <= world.queues
    BY Zenon DEF Inv, RunningInv
  <2> QED  BY <2>2, <2>3, <2>4, <2>5, <2>6, Zenon DEF TypeOK
<1> QED  BY <1>1, ChainInvariant, PTL
=============================================================================
