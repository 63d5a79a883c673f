----------------------------- MODULE ChainState -----------------------------
(***************************************************************************)
(* Choosing and activating the best chain while blocks are validated in    *)
(* parallel (src/src/validation.cpp, src/src/blockvalidation.h,            *)
(* src/src/checkqueuepool.h).                                              *)
(*                                                                         *)
(* Every thread that has a new block runs ActivateBestChain.  It works     *)
(* under cs_main, but gives cs_main up while the scripts of a block that   *)
(* would become the new tip are checked; it also needs one of the few      *)
(* script check queues, and may wait for one with cs_main held.  The RPC   *)
(* thread invalidates, reconsiders and favours blocks in between.          *)
(*                                                                         *)
(* All headers are known from the start (headers-first download).  Blocks  *)
(* are requested ones; pruning and shutdown are left out.                  *)
(***************************************************************************)
EXTENDS Integers, FiniteSets, Sequences

CONSTANTS Block, Genesis, Parent, Ancestors,   \* the tree of headers
          Work,         \* nChainWork
          Address,      \* of the CBlockIndex objects
          Worker, Rpc,  \* the threads that activate chains
          Nobody, Null,
          Worlds,       \* what may happen: the blocks that peers send, those of them that
                        \* validation rejects, the RPC calls (each once) and the number of
                        \* script check queues, GetMaxParallelBlocks()
          TtorDistance  \* MIN_TTOR_VALIDATION_DISTANCE

Thread == Worker \cup {Rpc}
Descendants(b) == {d \in Block : b \in Ancestors[d]}
Height(b) == Cardinality(Ancestors[b])
Never == Cardinality(Block) + 1      \* SteadyClockTimePoint::max()

ASSUME TreeAssumption ==
  /\ IsFiniteSet(Block) /\ Genesis \in Block /\ Null \notin Block
  /\ Parent \in [Block \ {Genesis} -> Block] /\ Ancestors \in [Block -> SUBSET Block]
  /\ Ancestors[Genesis] = {Genesis}
  /\ \A b \in Block \ {Genesis} : Ancestors[b] = Ancestors[Parent[b]] \cup {b}
  /\ Work \in [Block -> Nat] /\ \A b \in Block \ {Genesis} : Work[b] > Work[Parent[b]]
  /\ Address \in [Block -> Nat] /\ \A b, c \in Block : Address[b] = Address[c] => b = c

ASSUME WorldsAssumption ==
  /\ Rpc \notin Worker /\ Nobody \notin Thread
  /\ \A w \in Worlds : /\ w.queues \in Nat \ {0}
                       /\ w.blocks \subseteq Block \ {Genesis} /\ w.bad \subseteq w.blocks
                       /\ w.calls \subseteq {"invalidate", "reconsider", "precious"} \X (Block \ {Genesis})

VARIABLES
  data,        \* blocks with BLOCK_HAVE_DATA
  chainTx,     \* blocks with nChainTx set
  unlinked,    \* mapBlocksUnlinked: b stands for the pair (pprev, b)
  invalid,     \* blocks with a failure flag
  scripts,     \* blocks of validity SCRIPTS (they have undo data)
  valTime,     \* mValidationCompletionTime
  seqId,       \* nSequenceId
  candidates,  \* setBlockIndexCandidates
  tip,         \* chainActive.Tip()
  clock,       \* steady_clock, in validations completed
  nextSeq, reverseSeq, lastPrecious,   \* the sequence counters
  incoming,    \* the block the message handler is processing
  todo,        \* blocks accepted, whose activation no thread has taken up
  world,       \* which of Worlds this is
  calls,       \* RPC calls still to come
  main,        \* who holds cs_main
  nested,      \* InvalidateBlock holds cs_main around ActivateBestChain
  pc, pblock, mostWork, newTip, oldTip,    \* ActivateBestChain, per thread
  conn,        \* the block ConnectTip works on
  parallel,    \* parallelBlockValidation
  verdict,     \* what control.Wait() returned
  running,     \* mRunningCheckers, oldest first
  validating,  \* mCurrentlyValidatingBlocks, by thread
  err          \* a failed assertion

index == <<data, chainTx, unlinked, invalid, scripts, valTime, seqId>>
counters == <<clock, nextSeq, reverseSeq, lastPrecious>>
local == <<pblock, mostWork, newTip, oldTip, conn, parallel, verdict>>
vars == <<index, candidates, tip, counters, incoming, todo, world, calls, main, nested, pc, local,
          running, validating, err>>

\* The blocks that validation rejects.
Bad == world.bad

\* CBlockIndexWorkComparator: x sorts before y, that is, x is worse, when the validation
\* times are vt and the sequence ids sq.
WorseWith(vt, sq, x, y) ==
  \/ Work[x] < Work[y]
  \/ Work[x] = Work[y] /\ vt[x] > vt[y]
  \/ Work[x] = Work[y] /\ vt[x] = vt[y] /\ sq[x] > sq[y]
  \/ Work[x] = Work[y] /\ vt[x] = vt[y] /\ sq[x] = sq[y] /\ Address[x] > Address[y]

Worse(x, y) == WorseWith(valTime, seqId, x, y)

Init ==
  /\ data = {Genesis} /\ chainTx = {Genesis} /\ unlinked = {}
  /\ invalid = {} /\ scripts = {}
  /\ valTime = [b \in Block |-> Never] /\ seqId = [b \in Block |-> 0]
  /\ candidates = {Genesis} /\ tip = Genesis
  /\ clock = 1 /\ nextSeq = 1 /\ reverseSeq = -1 /\ lastPrecious = 0
  /\ incoming = Null /\ todo = {}
  /\ world \in Worlds /\ calls = world.calls
  /\ main = Nobody /\ nested = FALSE
  /\ pc = [t \in Thread |-> "idle"] /\ pblock = [t \in Thread |-> Null]
  /\ mostWork = [t \in Thread |-> Null] /\ newTip = [t \in Thread |-> Null]
  /\ oldTip = [t \in Thread |-> Null] /\ conn = [t \in Thread |-> Null]
  /\ parallel = [t \in Thread |-> FALSE] /\ verdict = [t \in Thread |-> Null]
  /\ running = <<>> /\ validating = [t \in Thread |-> Null] /\ err = "none"
-----------------------------------------------------------------------------
(* Blocks arrive.                                                          *)

\* The blocks whose transactions are all there once b has arrived.
Linked(b) ==
  {d \in Descendants(b) : \A x \in Descendants(b) : x \in Ancestors[d] => x = b \/ x \in unlinked}

\* ProcessNewBlockWithAsyncBestChainActivation first looks up the previous block, gives
\* cs_main up to run CheckBlock, and takes it again for AcceptBlock.
ReceiveBlock(b) ==
  /\ main = Nobody /\ incoming = Null
  /\ b \in world.blocks \ (data \cup invalid) /\ Parent[b] \notin invalid
  /\ incoming' = b
  /\ UNCHANGED <<index, candidates, tip, counters, todo, world, calls, main, nested, pc, local,
                 running, validating, err>>

\* The block is refused: CheckBlock fails before AcceptBlock (nothing is flagged), its
\* header was flagged meanwhile, ContextualCheckBlock fails, or (far below the tip) its
\* transactions are out of order.
RejectBlock(b) ==
  /\ main = Nobody /\ incoming = b /\ incoming' = Null
  /\ \/ b \in invalid \cup Bad /\ UNCHANGED invalid
     \/ b \in Bad \ invalid /\ invalid' = invalid \cup {b}
     \/ /\ b \in Bad \ invalid /\ Height(tip) - Height(b) >= TtorDistance
        /\ invalid' = invalid \cup Descendants(b)
  /\ candidates' = candidates \ (invalid' \ invalid)
  /\ UNCHANGED <<data, chainTx, unlinked, scripts, valTime, seqId, tip, counters,
                 todo, world, calls, main, nested, pc, local, running, validating, err>>

\* Mutant: only the block itself is tried as a candidate.
NewCandidatesFirst(b, sq) == {x \in {b} : ~WorseWith(valTime, sq, x, tip)}

NewCandidates(b, sq) == {x \in Linked(b) : ~WorseWith(valTime, sq, x, tip)}

\* AcceptBlock and ReceivedBlockTransactions: the block, and the blocks that waited for
\* it, get their sequence ids in breadth-first order and become candidates unless they
\* are worse than the tip.  The activation is left to a worker.
AcceptBlock(b) ==
  /\ main = Nobody /\ incoming = b /\ incoming' = Null /\ b \notin invalid
  /\ data' = data \cup {b}
  /\ todo' = todo \cup {b}
  /\ IF Parent[b] \in chainTx
     THEN /\ chainTx' = chainTx \cup Linked(b)
          /\ unlinked' = unlinked \ Linked(b)
          /\ \E order \in [Linked(b) -> nextSeq..(nextSeq + Cardinality(Linked(b)) - 1)] :
               /\ \A x, y \in Linked(b) : x # y =>
                    /\ order[x] # order[y]
                    /\ Height(x) < Height(y) => order[x] < order[y]
               /\ seqId' = [x \in Block |-> IF x \in Linked(b) THEN order[x] ELSE seqId[x]]
          /\ nextSeq' = nextSeq + Cardinality(Linked(b))
          /\ candidates' = candidates \cup NewCandidates(b, seqId')
     ELSE /\ unlinked' = IF Parent[b] \in invalid THEN unlinked ELSE unlinked \cup {b}
          /\ UNCHANGED <<chainTx, seqId, nextSeq, candidates>>
  /\ UNCHANGED <<invalid, scripts, valTime, tip, clock, reverseSeq, lastPrecious, world, calls, main,
                 nested, pc, local, running, validating, err>>

\* A worker of the block validation pool takes up an activation.
StartActivation(t, b) ==
  /\ t \in Worker /\ pc[t] = "idle" /\ b \in todo
  /\ todo' = todo \ {b}
  /\ pc' = [pc EXCEPT ![t] = "activate"]
  /\ pblock' = [pblock EXCEPT ![t] = b]
  /\ UNCHANGED <<index, candidates, tip, counters, incoming, world, calls, main, nested, mostWork, newTip,
                 oldTip, conn, parallel, verdict, running, validating, err>>
-----------------------------------------------------------------------------
(* ActivateBestChain.                                                      *)

\* The end of the cs_main scope: InvalidateBlock keeps its own hold on the lock.
Unlock(t) == IF t = Rpc /\ nested THEN t ELSE Nobody

\* The top of the loop: take cs_main; the cached target is good while the tip is ours.
LockMain(t) ==
  /\ pc[t] = "activate" /\ main \in {Nobody, Unlock(t)}
  /\ main' = t
  /\ pc' = [pc EXCEPT ![t] = "find"]
  /\ oldTip' = [oldTip EXCEPT ![t] = tip]
  /\ mostWork' = [mostWork EXCEPT ![t] = IF newTip[t] = tip THEN @ ELSE Null]
  /\ UNCHANGED <<index, candidates, tip, counters, incoming, todo, world, calls, nested, pblock, newTip, conn,
                 parallel, verdict, running, validating, err>>

BestCandidate == CHOOSE c \in candidates : \A d \in candidates : ~Worse(c, d)

\* Highest block of S on the path to c.
Highest(S, c) == CHOOSE x \in S \cap Ancestors[c] : S \cap Ancestors[c] \subseteq Ancestors[x]

\* The blocks that separate c from the active chain and have a failure flag.
Spoilt(c) == (Ancestors[c] \ Ancestors[tip]) \cap invalid

\* FindMostWorkChain, one round: the best candidate has a failed block on its path, so the
\* path above that block is marked (InvalidateChain) and dropped.
DropCandidate(t) ==
  /\ pc[t] = "find" /\ mostWork[t] = Null
  /\ candidates # {} /\ Spoilt(BestCandidate) # {}
  /\ LET gone == Descendants(Highest(Spoilt(BestCandidate), BestCandidate))
     IN  invalid' = invalid \cup gone /\ candidates' = candidates \ gone
  /\ UNCHANGED <<data, chainTx, unlinked, scripts, valTime, seqId, tip, counters, incoming, todo, world, calls,
                 main, nested, pc, local, running, validating, err>>

\* Mutant: the previous block is not compared with the tip.
ConsiderAnywhere(t, c) ==
  LET b == pblock[t]
  IN  IF b # Null /\ Work[c] <= Work[b] /\ b \in chainTx \ invalid THEN b ELSE c

\* ConsiderBlockForMostWorkChain: prefer the thread's own block when it extends the tip
\* and has as much work.
Consider(t, c) ==
  LET b == pblock[t]
  IN  IF b # Null /\ Parent[b] = tip /\ Work[c] <= Work[b] /\ b \in chainTx \ invalid
      THEN b ELSE c

\* The chain tip this round aims for, Null when there is none.
Target(t) == IF mostWork[t] # Null THEN mostWork[t]
             ELSE IF candidates = {} THEN Null ELSE Consider(t, BestCandidate)

\* FindMostWorkChain has no more to drop.
Found(t) == pc[t] = "find" /\ (mostWork[t] # Null \/ candidates = {} \/ Spoilt(BestCandidate) = {})

InValidation == {validating[t] : t \in Thread} \ {Null}

\* Mutant: looks at the blocks below b only.
AncestorInValidationStrict(b) == InValidation \cap (Ancestors[b] \ {b}) # {}

AncestorInValidation(b) == InValidation \cap Ancestors[b] # {}

NSiblingsInValidation(b) ==
  Cardinality({x \in InValidation : Height(x) = Height(b)}) >= world.queues

\* Nothing to do, or others are already at it: leave the loop.
Leave(t) ==
  /\ Found(t)
  /\ LET m == Target(t)
     IN  \/ m = Null
         \/ mostWork[t] = Null /\ m = tip
         \/ m # Null /\ (AncestorInValidation(m) \/ NSiblingsInValidation(m))
  /\ main' = Nobody
  /\ nested' = IF t = Rpc THEN FALSE ELSE nested
  /\ pc' = [pc EXCEPT ![t] = "idle"]
  /\ pblock' = [pblock EXCEPT ![t] = Null] /\ mostWork' = [mostWork EXCEPT ![t] = Null]
  /\ newTip' = [newTip EXCEPT ![t] = Null] /\ oldTip' = [oldTip EXCEPT ![t] = Null]
  /\ UNCHANGED <<index, candidates, tip, counters, incoming, todo, world, calls, conn, parallel, verdict,
                 running, validating, err>>

\* The block after x on the path to m.
After(x, m) == CHOOSE c \in Ancestors[m] \ {Genesis} : Parent[c] = x

\* ActivateBestChainStep ends with the chain at x; the target m stays cached while there
\* is more to do on its path.
EndStep(t, m, x, keep) ==
  /\ pc' = [pc EXCEPT ![t] = "activate"]
  /\ main' = Unlock(t)
  /\ newTip' = [newTip EXCEPT ![t] = x]
  /\ mostWork' = [mostWork EXCEPT ![t] = IF keep /\ m # x THEN m ELSE Null]
  /\ conn' = [conn EXCEPT ![t] = Null]

\* ActivateBestChainStep begins: DisconnectTip down to the fork, under cs_main throughout.
StartStep(t) ==
  /\ Found(t)
  /\ LET m == Target(t)
     IN  /\ m \notin {Null, tip} /\ ~AncestorInValidation(m) /\ ~NSiblingsInValidation(m)
         /\ tip' = Highest(Ancestors[tip], m)
         /\ IF tip' = m
            THEN EndStep(t, m, m, TRUE)
            ELSE /\ mostWork' = [mostWork EXCEPT ![t] = m]
                 /\ conn' = [conn EXCEPT ![t] = After(tip', m)]
                 /\ pc' = [pc EXCEPT ![t] = "checker"]
                 /\ UNCHANGED <<main, newTip>>
  /\ UNCHANGED <<index, candidates, counters, incoming, todo, world, calls, nested, pblock, oldTip,
                 parallel, verdict, running, validating, err>>
-----------------------------------------------------------------------------
(* ConnectTip and ConnectBlock.                                            *)

\* GetChecker finds no idle queue: the running checker with the least work, the oldest
\* of them, is cancelled if its work is less than ours.  The wait keeps cs_main.
Worst == CHOOSE i \in DOMAIN running : \A j \in DOMAIN running :
           running[i].value < running[j].value \/ (running[i].value = running[j].value /\ i <= j)

GetCheckerBusy(t) ==
  /\ pc[t] = "checker" /\ Len(running) = world.queues
  /\ running' = IF running[Worst].value < Work[mostWork[t]]
                THEN [running EXCEPT ![Worst].cancelled = TRUE] ELSE running
  /\ pc' = [pc EXCEPT ![t] = "wait"]
  /\ UNCHANGED <<index, candidates, tip, counters, incoming, todo, world, calls, main, nested, local, validating, err>>

\* Mutant: an exception ends the activation.
AbandonLoop(t) ==
  /\ pc' = [pc EXCEPT ![t] = "idle"]
  /\ main' = Unlock(t)
  /\ mostWork' = [mostWork EXCEPT ![t] = Null]
  /\ conn' = [conn EXCEPT ![t] = Null]
  /\ UNCHANGED newTip

\* An exception leaves the step: the cached target is cleared and the loop goes round.
Abandon(t) ==
  /\ pc' = [pc EXCEPT ![t] = "activate"]
  /\ main' = Unlock(t)
  /\ mostWork' = [mostWork EXCEPT ![t] = Null]
  /\ conn' = [conn EXCEPT ![t] = Null]
  /\ UNCHANGED newTip

\* Mutant: the failure is taken for a corrupted message.
InvalidBlockFoundCorrupt(t) ==
  /\ UNCHANGED <<invalid, candidates>>
  /\ EndStep(t, mostWork[t], tip, FALSE)

\* InvalidBlockFound: flag the block, drop it, and end the step with fInvalidFound.
InvalidBlockFound(t) ==
  /\ invalid' = invalid \cup {conn[t]}
  /\ candidates' = candidates \ {conn[t]}
  /\ EndStep(t, mostWork[t], tip, FALSE)

\* ConnectBlock rejects the block before its scripts are run; the queue goes back unused.
FailEarly(t) ==
  /\ pc[t] \in {"checker", "wait"} /\ Len(running) < world.queues
  /\ conn[t] \in Bad
  /\ InvalidBlockFound(t)
  /\ UNCHANGED <<data, chainTx, unlinked, scripts, valTime, seqId, tip, counters, incoming, todo, world, calls,
                 nested, pblock, oldTip, parallel, verdict, running, validating, err>>

\* ConnectBlock up to control.Wait(): take a queue, register the block, and release
\* cs_main when the block would outgrow the tip the step began with.
EnterScripts(t) ==
  /\ pc[t] \in {"checker", "wait"} /\ Len(running) < world.queues
  /\ IF conn[t] \in InValidation
     THEN /\ err' = "already validating" /\ Abandon(t)
          /\ UNCHANGED <<running, validating, parallel>>
     ELSE /\ running' = Append(running, [by |-> t, value |-> Work[mostWork[t]], cancelled |-> FALSE])
          /\ validating' = [validating EXCEPT ![t] = conn[t]]
          /\ parallel' = [parallel EXCEPT ![t] = Work[tip] = Work[oldTip[t]]]
          /\ main' = IF parallel'[t] THEN Unlock(t) ELSE t
          /\ pc' = [pc EXCEPT ![t] = "scripts"]
          /\ UNCHANGED <<err, mostWork, newTip, conn>>
  /\ UNCHANGED <<index, candidates, tip, counters, incoming, todo, world, calls, nested, pblock,
                 oldTip, verdict>>

\* mRunningCheckers without its i-th entry.
Without(i) == SubSeq(running, 1, i - 1) \o SubSeq(running, i + 1, Len(running))

\* Mutant: that the check was not cancelled is taken for its success.
ScriptsDoneUnread(t) ==
  /\ pc[t] = "scripts"
  /\ \E i \in DOMAIN running :
       /\ running[i].by = t
       /\ verdict' = [verdict EXCEPT ![t] = IF running[i].cancelled THEN "cancelled" ELSE "ok"]
       /\ running' = Without(i)
  /\ pc' = [pc EXCEPT ![t] = "relock"]
  /\ UNCHANGED <<index, candidates, tip, counters, incoming, todo, world, calls, main, nested, pblock,
                 mostWork, newTip, oldTip, conn, parallel, validating, err>>

\* control.Wait() returns: the queue goes back to the pool before cs_main is taken again.
\* A cancelled check may still have finished first.
ScriptsDone(t) ==
  /\ pc[t] = "scripts"
  /\ \E i \in DOMAIN running :
       /\ running[i].by = t
       /\ \E v \in {IF conn[t] \in Bad THEN "bad" ELSE "ok"} \cup
                   (IF running[i].cancelled THEN {"cancelled"} ELSE {}) :
            verdict' = [verdict EXCEPT ![t] = v]
       /\ running' = Without(i)
  /\ pc' = [pc EXCEPT ![t] = "relock"]
  /\ UNCHANGED <<index, candidates, tip, counters, incoming, todo, world, calls, main, nested, pblock,
                 mostWork, newTip, oldTip, conn, parallel, validating, err>>

\* RaiseValidity(SCRIPTS): stamps the block the first time, and never one that has failed.
RaiseScripts(b) ==
  IF b \in scripts \cup invalid
  THEN UNCHANGED <<scripts, valTime, clock>>
  ELSE /\ scripts' = scripts \cup {b}
       /\ valTime' = [valTime EXCEPT ![b] = IF @ = Never THEN clock ELSE @]
       /\ clock' = IF valTime[b] = Never THEN clock + 1 ELSE clock

\* Mutant: the block is taken out for its new validation time and not put back.
ReinsertedNot(b) == candidates \ {b}

\* The block is put back among the candidates, whether its validity was raised or not.
Reinserted(b) == IF b \in scripts \ invalid THEN candidates ELSE candidates \cup {b}

\* cs_main is held again and the block leaves the set of blocks in validation.
Relocked(t) ==
  /\ pc[t] = "relock" /\ main \in {Nobody, t}
  /\ validating' = [validating EXCEPT ![t] = Null]
  /\ verdict' = [verdict EXCEPT ![t] = Null]
  /\ parallel' = [parallel EXCEPT ![t] = FALSE]
  /\ UNCHANGED <<data, chainTx, unlinked, seqId, nextSeq, reverseSeq, lastPrecious, incoming,
                 todo, world, calls, nested, pblock, oldTip, running>>

\* CBlockValidationCancellation.
ValidationCancelled(t) ==
  /\ Relocked(t) /\ verdict[t] = "cancelled"
  /\ Abandon(t)
  /\ UNCHANGED <<invalid, scripts, valTime, candidates, tip, clock, err>>

\* A script failed.
ScriptsFailed(t) ==
  /\ Relocked(t) /\ verdict[t] = "bad"
  /\ InvalidBlockFound(t)
  /\ UNCHANGED <<scripts, valTime, tip, clock, err>>

\* The tip moved while cs_main was free: CBestBlockAttachmentCancellation.
TipMoved(t) == parallel[t] /\ tip # Parent[conn[t]]

BestBlockTaken(t) ==
  /\ Relocked(t) /\ verdict[t] = "ok" /\ TipMoved(t)
  /\ RaiseScripts(conn[t])
  /\ candidates' = Reinserted(conn[t])
  /\ Abandon(t)
  /\ UNCHANGED <<invalid, tip, err>>

\* UpdateTip, then PruneBlockIndexCandidates; the step goes on until the chain has more
\* work than it had when the step began.
ConnectTip(t) ==
  /\ Relocked(t) /\ verdict[t] = "ok" /\ ~TipMoved(t)
  /\ LET b == conn[t]
         m == mostWork[t]
     IN  /\ RaiseScripts(b)
         /\ tip' = b
         /\ candidates' = {c \in Reinserted(b) : ~WorseWith(valTime', seqId, c, b)}
         /\ err' = IF candidates' = {} THEN "no candidates" ELSE err
         /\ IF b = m \/ Work[b] > Work[oldTip[t]]
            THEN EndStep(t, m, b, TRUE)
            ELSE /\ conn' = [conn EXCEPT ![t] = After(b, m)]
                 /\ pc' = [pc EXCEPT ![t] = "checker"]
                 /\ main' = t
                 /\ UNCHANGED <<mostWork, newTip>>
  /\ UNCHANGED invalid
-----------------------------------------------------------------------------
(* The RPC thread.                                                         *)

\* An RPC call goes on to ActivateBestChain.
RpcActivate(name, b) ==
  /\ pc[Rpc] = "idle" /\ main = Nobody /\ <<name, b>> \in calls
  /\ calls' = calls \ {<<name, b>>}
  /\ UNCHANGED <<data, chainTx, unlinked, scripts, clock, nextSeq, incoming, todo, world, local,
                 running, validating>>

\* InvalidateBlock: fail b and what is above it (on the active chain only those blocks of
\* the chain), disconnect, and refill the candidates.  cs_main is kept while the best
\* chain is activated.
InvalidateBlock(b) ==
  /\ RpcActivate("invalidate", b)
  /\ invalid' = invalid \cup (IF b \in Ancestors[tip] THEN Ancestors[tip] \cap Descendants(b)
                              ELSE Descendants(b))
  /\ tip' = IF b \in Ancestors[tip] THEN Parent[b] ELSE tip
  /\ candidates' = (candidates \ (invalid' \cap Descendants(b)))
                     \cup {x \in chainTx \ invalid' : ~Worse(x, tip')}
  /\ pc' = [pc EXCEPT ![Rpc] = "activate"] /\ main' = Rpc /\ nested' = TRUE
  /\ UNCHANGED <<valTime, seqId, reverseSeq, lastPrecious, err>>

\* ResetBlockFailureFlags: clear the flags of b's descendants, which become candidates,
\* and of its ancestors, which do not.
ReconsiderBlock(b) ==
  /\ RpcActivate("reconsider", b)
  /\ invalid' = invalid \ (Descendants(b) \cup Ancestors[b])
  /\ candidates' = candidates \cup {x \in Descendants(b) \cap invalid \cap chainTx : Worse(tip, x)}
  /\ pc' = [pc EXCEPT ![Rpc] = "activate"]
  /\ UNCHANGED <<valTime, seqId, reverseSeq, lastPrecious, tip, main, nested, err>>

\* PreciousBlock: nothing for a block behind the tip; else b gets the best validation
\* time and a sequence id before every other.
PreciousBlock(b) ==
  /\ RpcActivate("precious", b)
  /\ IF Work[b] < Work[tip]
     THEN UNCHANGED <<valTime, seqId, reverseSeq, lastPrecious, candidates, pc, err>>
     ELSE LET id == IF Work[tip] > lastPrecious THEN -1 ELSE reverseSeq
          IN  /\ lastPrecious' = Work[tip] /\ reverseSeq' = id - 1
              /\ valTime' = [valTime EXCEPT ![b] = 0]
              /\ seqId' = [seqId EXCEPT ![b] = id]
              /\ candidates' = IF b \in chainTx \ invalid
                               THEN {c \in candidates \cup {b} : ~WorseWith(valTime', seqId', c, tip)}
                               ELSE candidates \ {b}
              /\ err' = IF b \in chainTx \ invalid /\ candidates' = {} THEN "no candidates" ELSE err
              /\ pc' = [pc EXCEPT ![Rpc] = "activate"]
  /\ UNCHANGED <<invalid, tip, main, nested>>
-----------------------------------------------------------------------------
Arrive == \E b \in Block \ {Genesis} : ReceiveBlock(b)
Accepted == \E b \in Block \ {Genesis} : RejectBlock(b) \/ AcceptBlock(b)
RpcCall == \E b \in Block \ {Genesis} : InvalidateBlock(b) \/ ReconsiderBlock(b) \/ PreciousBlock(b)

Step(t) ==
  \/ LockMain(t) \/ DropCandidate(t) \/ Leave(t) \/ StartStep(t)
  \/ GetCheckerBusy(t) \/ FailEarly(t) \/ EnterScripts(t) \/ ScriptsDone(t)
  \/ ValidationCancelled(t) \/ ScriptsFailed(t) \/ BestBlockTaken(t) \/ ConnectTip(t)

Settled == todo = {} /\ incoming = Null /\ \A t \in Thread : pc[t] = "idle"

\* Everything that can arrive has arrived.
Done == Settled /\ calls = {} /\ UNCHANGED vars

Next ==
  \/ Arrive \/ Accepted \/ RpcCall
  \/ \E t \in Worker : \E b \in todo : StartActivation(t, b)
  \/ \E t \in Thread : Step(t)
  \/ Done

Spec == Init /\ [][Next]_vars

\* The block validation threads and the message handler are scheduled; a lock, a queue or
\* a task that stays available is taken.  Nothing makes blocks arrive or calls be made.
LiveSpec ==
  /\ Spec /\ WF_vars(Accepted)
  /\ \A t \in Thread : WF_vars(Step(t))
  /\ \A t \in Worker : WF_vars(\E b \in todo : StartActivation(t, b))
-----------------------------------------------------------------------------
\* Types, and what ties the threads to the shared state: the steps under cs_main hold it, a
\* block in validation is the one its thread connects, and a queue is held exactly while
\* scripts run.
TypeOK ==
  /\ {Genesis} \subseteq chainTx /\ chainTx \subseteq data /\ data \subseteq Block
  /\ unlinked \subseteq data \ chainTx /\ invalid \subseteq Block
  /\ scripts \subseteq chainTx /\ candidates \subseteq chainTx /\ tip \in chainTx
  /\ valTime \in [Block -> 0..Never] /\ seqId \in [Block -> Int]
  /\ incoming \in Block \cup {Null} /\ todo \subseteq data /\ world \in Worlds
  /\ main \in Thread \cup {Nobody} /\ nested \in BOOLEAN
  /\ pc \in [Thread -> {"idle", "activate", "find", "checker", "wait", "scripts", "relock"}]
  /\ \A t \in Thread :
       /\ pc[t] \in {"find", "checker", "wait"} => main = t
       /\ pc[t] \in {"scripts", "relock"} <=> validating[t] # Null
       /\ validating[t] # Null => validating[t] = conn[t] /\ (main = t \/ parallel[t])
       /\ pc[t] = "scripts" <=> \E i \in DOMAIN running : running[i].by = t
  /\ Len(running) <= world.queues

\* Blocks that are linked and have nothing wrong with them or below them.
Good == {x \in chainTx : Ancestors[x] \cap (invalid \cup Bad) = {}}

\* A block in validation is never validated again ("if this happens we have a bug",
\* blockvalidation.h), and the state is well-formed: cs_main is held where AssertLockHeld
\* says so.
ValidatedOnce == err # "already validating" /\ TypeOK

\* Pruning never empties the candidates: the assertion of PruneBlockIndexCandidates, "Either
\* the current tip or a successor of it we're working towards is left".
CandidatesLeft == err # "no candidates"

\* However validations race, are cancelled and fail, no block that breaks a rule, and no
\* block above one, is ever in the active chain.
BadNeverActive == Ancestors[tip] \cap Bad = {}

\* FindMostWorkChain stops at the active chain "as we know all blocks in it are valid
\* already": whenever cs_main is free no block of the active chain has a failure flag.
FailedNotActive == main = Nobody => Ancestors[tip] \cap invalid = {}

\* No good block is forgotten: whenever cs_main is free some candidate without a failed or
\* bad block below it is as good as any, so FindMostWorkChain can still get there.
BestIsCandidate ==
  main = Nobody /\ Ancestors[tip] \cap invalid = {} =>
    \A x \in Good : \E c \in candidates \cap Good : ~Worse(c, x)

\* When every activation has ended, the active chain is the best one: the races, the
\* cancellations and the activations that left early (an ancestor or too many siblings in
\* validation, nothing better) left nothing undone.
SettledOnBest ==
  Settled /\ Ancestors[tip] \cap invalid = {} => \A x \in Good : ~Worse(tip, x)

\* An activation only ever takes aim at a chain that is better than the active one: a
\* reorganisation is never started for a chain that is not.
TargetsBetter ==
  [][\A t \in Thread : mostWork'[t] \notin {Null, mostWork[t]} => Worse(tip, mostWork'[t])]_vars

\* Every activation ends: threads that wait for cs_main, or with cs_main held for a queue,
\* get it, and cancelled validations are not retried for ever.
EventuallySettled == []<>Settled

=============================================================================
