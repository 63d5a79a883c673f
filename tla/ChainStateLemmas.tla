-------------------------- MODULE ChainStateLemmas --------------------------
(***************************************************************************)
(* Lemmas for the proofs about ChainState: the tree of headers, the best   *)
(* candidate, the inductive invariant, and its parts about the block       *)
(* index, the validation times and the script check queues.                *)
(***************************************************************************)
EXTENDS ChainState, FiniteSetTheorems, SequenceTheorems, WellFoundedInduction, TLAPS

LessNat == {ss \in Nat \X Nat : ss[1] < ss[2]}

\* Induction on natural numbers, as a minimum: a nonempty set of them has a least element.
LEMMA LeastNat ==
  ASSUME NEW T \in SUBSET Nat, T # {}
  PROVE  \E n \in T : \A m \in T : n <= m
<1>1. IsWellFoundedOn(LessNat, Nat)
  BY NatLessThanWellFounded, SMT DEF OpToRel, LessNat
<1>2. PICK n \in T : \A m \in T : <<m, n>> \notin LessNat
  BY <1>1, WFMin, Zenon
<1>3. \A m \in T : m \in Nat /\ n \in Nat /\ ~(m < n)
  BY <1>2, Zenon DEF LessNat
<1> QED  BY <1>3

-----------------------------------------------------------------------------
(* The tree of headers.                                                    *)

\* Induction along the chains of headers: some block of a nonempty set has the least work,
\* so its parent is not in the set.
LEMMA LowestBlock ==
  ASSUME NEW S \in SUBSET Block, S # {}
  PROVE  \E x \in S : x = Genesis \/ Parent[x] \in Block \ S
<1>1. {Work[x] : x \in S} \in SUBSET Nat /\ {Work[x] : x \in S} # {}
  BY TreeAssumption
<1>2. PICK n \in {Work[x] : x \in S} : \A m \in {Work[x] : x \in S} : n <= m
  BY <1>1, LeastNat, Zenon
<1>3. PICK x \in S : n = Work[x]
  BY <1>2
<1>4. ASSUME x # Genesis PROVE Parent[x] \in Block \ S
  <2>1. x \in Block \ {Genesis} /\ Parent[x] \in Block /\ Work[x] > Work[Parent[x]]
    BY <1>4, TreeAssumption
  <2>2. Work[x] \in Nat /\ Work[Parent[x]] \in Nat
    BY <2>1, TreeAssumption
  <2>3. ASSUME Parent[x] \in S PROVE FALSE
    BY <2>1, <2>2, <2>3, <1>2, <1>3
  <2> QED  BY <2>1, <2>3
<1> QED  BY <1>3, <1>4

\* The blocks of a path: the path to a block holds the block, the genesis block, and the
\* path to each of its blocks.
LEMMA Paths ==
  /\ \A b \in Block : b \in Ancestors[b] /\ Genesis \in Ancestors[b] /\ Ancestors[b] \subseteq Block
  /\ \A b \in Block : \A x \in Ancestors[b] : Ancestors[x] \subseteq Ancestors[b]
<1>1. \A b \in Block : b \in Ancestors[b] /\ Ancestors[b] \subseteq Block
  BY TreeAssumption
<1>2. \A b \in Block : Genesis \in Ancestors[b] /\ \A x \in Ancestors[b] : Ancestors[x] \subseteq Ancestors[b]
  <2> DEFINE S == {b \in Block : ~(Genesis \in Ancestors[b] /\ \A x \in Ancestors[b] : Ancestors[x] \subseteq Ancestors[b])}
  <2>1. SUFFICES ASSUME S # {} PROVE FALSE
    OBVIOUS
  <2>2. PICK b \in S : b = Genesis \/ Parent[b] \in Block \ S
    BY <2>1, LowestBlock, Zenon
  <2>3. b # Genesis
    BY <2>2, TreeAssumption
  <2>4. /\ Ancestors[b] = Ancestors[Parent[b]] \cup {b} /\ Genesis \in Ancestors[Parent[b]]
        /\ \A x \in Ancestors[Parent[b]] : Ancestors[x] \subseteq Ancestors[Parent[b]]
    BY <2>2, <2>3, TreeAssumption
  <2> QED  BY <2>2, <2>4, Zenon
<1> QED  BY <1>1, <1>2, Zenon

\* The parent of a block of a path is on the path.
LEMMA ParentOnPath ==
  ASSUME NEW m \in Block, NEW b \in Ancestors[m], b # Genesis
  PROVE  Parent[b] \in Ancestors[m] /\ Parent[b] \in Block /\ b \in Block
<1>1. b \in Block \ {Genesis}
  BY Paths, Zenon
<1>2. Parent[b] \in Block /\ Ancestors[b] = Ancestors[Parent[b]] \cup {b}
  BY <1>1, TreeAssumption
<1>3. Parent[b] \in Ancestors[Parent[b]]
  BY <1>2, Paths, Zenon
<1> QED  BY <1>1, <1>2, <1>3, Paths, Zenon

\* Of two blocks on a path one is on the path to the other.
LEMMA PathIsLinear ==
  ASSUME NEW m \in Block, NEW x \in Ancestors[m], NEW y \in Ancestors[m]
  PROVE  x \in Ancestors[y] \/ y \in Ancestors[x]
<1> DEFINE S == {b \in Block : \E u, v \in Ancestors[b] : u \notin Ancestors[v] /\ v \notin Ancestors[u]}
<1>1. SUFFICES ASSUME S # {} PROVE FALSE
  BY Zenon
<1>2. PICK b \in S : b = Genesis \/ Parent[b] \in Block \ S
  BY <1>1, LowestBlock, Zenon
<1>3. PICK u \in Ancestors[b], v \in Ancestors[b] : u \notin Ancestors[v] /\ v \notin Ancestors[u]
  BY <1>2, Zenon
<1>4. b \in Block /\ b # Genesis
  BY <1>2, <1>3, TreeAssumption
<1>5. Ancestors[b] = Ancestors[Parent[b]] \cup {b} /\ Parent[b] \in Block \ S
  BY <1>2, <1>4, TreeAssumption
<1>6. CASE u = b \/ v = b
  BY <1>3, <1>6, Zenon
<1>7. CASE u # b /\ v # b
  BY <1>3, <1>5, <1>7, Zenon
<1> QED  BY <1>6, <1>7

\* Highest finds the block it looks for.
LEMMA HighestFound ==
  ASSUME NEW S, NEW c \in Block, S \cap Ancestors[c] # {}
  PROVE  /\ Highest(S, c) \in S /\ Highest(S, c) \in Ancestors[c]
         /\ S \cap Ancestors[c] \subseteq Ancestors[Highest(S, c)]
<1> DEFINE T == {b \in Block : S \cap Ancestors[b] # {} /\ ~\E x \in S \cap Ancestors[b] : S \cap Ancestors[b] \subseteq Ancestors[x]}
<1>1. ASSUME T # {} PROVE FALSE
  <2>1. PICK b \in T : b = Genesis \/ Parent[b] \in Block \ T
    BY <1>1, LowestBlock, Zenon
  <2>2. b \notin S
    BY <2>1, Paths, Zenon
  <2>3. b \in Block /\ b # Genesis
    BY <2>1, <2>2, TreeAssumption
  <2>4. Ancestors[b] = Ancestors[Parent[b]] \cup {b} /\ Parent[b] \in Block \ T
    BY <2>1, <2>3, TreeAssumption
  <2>5. S \cap Ancestors[b] = S \cap Ancestors[Parent[b]]
    BY <2>2, <2>4
  <2> QED  BY <2>1, <2>4, <2>5, Zenon
<1>2. \E x \in S \cap Ancestors[c] : S \cap Ancestors[c] \subseteq Ancestors[x]
  BY <1>1, Zenon
<1> QED  BY <1>2, Zenon DEF Highest

\* After finds the next block of the path.
LEMMA AfterFound ==
  ASSUME NEW m \in Block, NEW x \in Ancestors[m], x # m
  PROVE  After(x, m) \in Ancestors[m] \ {Genesis} /\ Parent[After(x, m)] = x
<1> DEFINE T == {b \in Block : x \in Ancestors[b] /\ x # b /\ ~\E c \in Ancestors[b] \ {Genesis} : Parent[c] = x}
<1>1. ASSUME T # {} PROVE FALSE
  <2>1. PICK b \in T : b = Genesis \/ Parent[b] \in Block \ T
    BY <1>1, LowestBlock, Zenon
  <2>2. b \in Block /\ b # Genesis
    BY <2>1, TreeAssumption
  <2>3. Ancestors[b] = Ancestors[Parent[b]] \cup {b} /\ Parent[b] \in Block \ T
    BY <2>1, <2>2, TreeAssumption
  <2>4. Parent[b] # x
    BY <2>1, <2>2, <2>3
  <2> QED  BY <2>1, <2>3, <2>4, Zenon
<1>2. \E c \in Ancestors[m] \ {Genesis} : Parent[c] = x
  BY <1>1, Zenon
<1> QED  BY <1>2, Zenon DEF After

-----------------------------------------------------------------------------
(* The best candidate.                                                     *)

\* CBlockIndexWorkComparator is a strict order.
LEMMA WorseIsOrder ==
  ASSUME NEW vt \in [Block -> Int], NEW sq \in [Block -> Int],
         NEW x \in Block, NEW y \in Block, NEW z \in Block
  PROVE  ~WorseWith(vt, sq, x, x) /\ (WorseWith(vt, sq, x, y) /\ WorseWith(vt, sq, y, z) => WorseWith(vt, sq, x, z))
<1>1. \A b \in Block : Work[b] \in Int /\ Address[b] \in Int /\ vt[b] \in Int /\ sq[b] \in Int
  BY TreeAssumption
<1> QED  BY <1>1, SMT DEF WorseWith

\* A nonempty set of candidates has a best one.
LEMMA BestFound ==
  ASSUME valTime \in [Block -> Int], seqId \in [Block -> Int], candidates \subseteq Block, candidates # {}
  PROVE  BestCandidate \in candidates /\ \A d \in candidates : ~Worse(BestCandidate, d)
<1> DEFINE Above(c) == {d \in candidates : Worse(c, d)}
<1> DEFINE Ranks == {Cardinality(Above(c)) : c \in candidates}
<1>1. IsFiniteSet(candidates)
  BY FS_Subset, TreeAssumption, Zenon
<1>2. \A c \in candidates : IsFiniteSet(Above(c)) /\ Cardinality(Above(c)) \in Nat
  BY <1>1, FS_Subset, FS_CardinalityType, Zenon
<1>3. Ranks \in SUBSET Nat /\ Ranks # {}
  BY <1>2, Zenon
<1>4. PICK n \in Ranks : \A k \in Ranks : n <= k
  BY <1>3, LeastNat, Zenon
<1>5. PICK c \in candidates : n = Cardinality(Above(c))
  BY <1>4, Zenon
<1>6. ASSUME NEW d \in candidates, Worse(c, d) PROVE FALSE
  <2>1. \A e \in candidates : Worse(d, e) => Worse(c, e)
    BY <1>6, WorseIsOrder DEF Worse
  <2>2. ~Worse(d, d)
    BY <1>6, WorseIsOrder DEF Worse
  <2>3. Above(d) \in SUBSET Above(c) /\ Above(c) # Above(d)
    BY <1>6, <2>1, <2>2, Zenon
  <2>4. Cardinality(Above(d)) <= Cardinality(Above(c)) /\ Cardinality(Above(c)) # Cardinality(Above(d))
    BY <1>2, <2>3, FS_Subset, Zenon
  <2>5. Cardinality(Above(d)) \in Ranks
    BY <1>6, Zenon
  <2>6. Cardinality(Above(c)) <= Cardinality(Above(d))
    BY <1>4, <1>5, <2>5, Zenon
  <2>7. Cardinality(Above(c)) \in Nat /\ Cardinality(Above(d)) \in Nat
    BY <1>2, <1>6, Zenon
  <2> HIDE DEF Above
  <2> QED  BY <2>4, <2>6, <2>7, SMT
<1> HIDE DEF Above, Ranks
<1>7. \E e \in candidates : \A d \in candidates : ~Worse(e, d)
  BY <1>5, <1>6, Zenon
<1> QED  BY <1>7, Zenon DEF BestCandidate

-----------------------------------------------------------------------------
(* The inductive invariant.                                                *)

\* The block index: a linked block has all the blocks below it linked.
IndexInv ==
  /\ Genesis \in chainTx /\ chainTx \subseteq data /\ data \subseteq Block
  /\ \A c \in chainTx : Ancestors[c] \subseteq chainTx
  /\ unlinked \subseteq data \ chainTx /\ invalid \subseteq Block
  /\ scripts \subseteq chainTx /\ candidates \subseteq chainTx /\ tip \in chainTx
  /\ seqId \in [Block -> Int] /\ nextSeq \in Int /\ reverseSeq \in Int
  /\ incoming \in Block \cup {Null} /\ todo \subseteq data /\ world \in Worlds

\* The clock has ticked at most once for every block with a validation time.
Timed(vt) == {b \in Block : vt[b] # Never}
ClockInv ==
  /\ valTime \in [Block -> 0..Never] /\ clock \in Nat
  /\ clock <= 1 + Cardinality(Timed(valTime))

Entry == [by : Thread, value : Nat, cancelled : BOOLEAN]

\* A thread has a queue exactly while its scripts run, and only one.
RunningInv ==
  /\ running \in Seq(Entry) /\ Len(running) <= world.queues
  /\ \A i, j \in 1..Len(running) : running[i].by = running[j].by => i = j
  /\ \A t \in Thread : pc[t] = "scripts" <=> \E i \in 1..Len(running) : running[i].by = t

Shape ==
  /\ main \in Thread \cup {Nobody} /\ nested \in BOOLEAN /\ (nested => main = Rpc)
  /\ pc \in [Thread -> {"idle", "activate", "find", "checker", "wait", "scripts", "relock"}]
  /\ parallel \in [Thread -> BOOLEAN]
  /\ mostWork \in [Thread -> chainTx \cup {Null}] /\ conn \in [Thread -> Block \cup {Null}]
  /\ DOMAIN oldTip = Thread /\ DOMAIN verdict = Thread
  /\ validating \in [Thread -> Block \cup {Null}]
  /\ err # "already validating"

\* The thread is connecting a block, and it has not given cs_main up for that.
Working(t) == pc[t] \in {"checker", "wait", "scripts", "relock"}
Locked(t) == pc[t] \in {"checker", "wait"} \/ (pc[t] \in {"scripts", "relock"} /\ ~parallel[t])

\* The block a thread connects is on the path to its target.  While it keeps cs_main the
\* block extends the tip, and no other thread validates a block of that path.  It gives
\* cs_main up only for a block that outgrows the tip its step began with.
ThreadOK(t) ==
  /\ Working(t) => mostWork[t] \in Block /\ conn[t] \in Ancestors[mostWork[t]] \ {Genesis}
  /\ pc[t] = "find" \/ Locked(t) => main = t
  /\ Locked(t) => /\ Parent[conn[t]] = tip
                  /\ \A s \in Thread \ {t} : validating[s] \notin Ancestors[mostWork[t]]
  /\ parallel[t] => pc[t] \in {"scripts", "relock"} /\ Work[Parent[conn[t]]] = Work[oldTip[t]]
  /\ validating[t] = IF pc[t] \in {"scripts", "relock"} THEN conn[t] ELSE Null
  /\ pc[t] = "relock" /\ verdict[t] = "ok" => conn[t] \notin Bad

Inv == IndexInv /\ ClockInv /\ RunningInv /\ Shape /\ (\A t \in Thread : ThreadOK(t)) /\ BadNeverActive

LEMMA NeverIsNat == Never \in Nat /\ Cardinality(Block) \in Nat
BY TreeAssumption, FS_CardinalityType DEF Never

LEMMA InitInv == Init => Inv
<1> SUFFICES ASSUME Init PROVE Inv
  OBVIOUS
<1> USE DEF Init
<1>1. IndexInv
  BY TreeAssumption DEF IndexInv
<1>2. ClockInv
  <2>1. Timed(valTime) \in SUBSET Block
    BY DEF Timed
  <2>2. Cardinality(Timed(valTime)) \in Nat
    BY <2>1, TreeAssumption, FS_Subset, FS_CardinalityType, Zenon
  <2> QED  BY <2>2, NeverIsNat DEF ClockInv
<1>3. RunningInv
  <2>1. running = <<>> /\ world.queues \in Nat
    BY WorldsAssumption
  <2> QED  BY <2>1 DEF RunningInv
<1>4. Shape
  BY WorldsAssumption, Zenon DEF Shape
<1>5. \A t \in Thread : ThreadOK(t)
  BY DEF ThreadOK, Working, Locked
<1>6. BadNeverActive
  <2>1. Ancestors[tip] = {Genesis} /\ Genesis \notin Bad
    BY TreeAssumption, WorldsAssumption DEF Bad
  <2> QED  BY <2>1 DEF BadNeverActive
<1> QED  BY <1>1, <1>2, <1>3, <1>4, <1>5, <1>6 DEF Inv

\* What FindMostWorkChain and ConsiderBlockForMostWorkChain return is a linked block.
LEMMA TargetFound ==
  ASSUME Inv, NEW t \in Thread, Target(t) # Null
  PROVE  Target(t) \in chainTx /\ Target(t) \in Block
<1> USE DEF Inv
<1>1. CASE mostWork[t] # Null
  BY <1>1, Zenon DEF Target, Shape, IndexInv
<1>2. CASE mostWork[t] = Null
  <2>1. candidates # {} /\ Target(t) = Consider(t, BestCandidate)
    BY <1>2 DEF Target
  <2>2. valTime \in [Block -> Int] /\ seqId \in [Block -> Int] /\ candidates \subseteq Block
    BY NeverIsNat DEF ClockInv, IndexInv
  <2>3. BestCandidate \in candidates
    BY <2>1, <2>2, BestFound
  <2>4. Consider(t, BestCandidate) \in chainTx
    BY <2>3 DEF Consider, IndexInv
  <2> QED  BY <2>1, <2>4 DEF IndexInv
<1> QED  BY <1>1, <1>2

\* A block on the path to a linked block is linked.
LEMMA ForkFound ==
  ASSUME IndexInv, NEW m \in chainTx
  PROVE  /\ Highest(Ancestors[tip], m) \in Ancestors[tip] /\ Highest(Ancestors[tip], m) \in Ancestors[m]
         /\ Highest(Ancestors[tip], m) \in chainTx
<1>1. m \in Block /\ tip \in Block
  BY DEF IndexInv
<1>2. Ancestors[tip] \cap Ancestors[m] # {}
  BY <1>1, Paths, Zenon
<1>3. Highest(Ancestors[tip], m) \in Ancestors[tip] /\ Highest(Ancestors[tip], m) \in Ancestors[m]
  BY <1>1, <1>2, HighestFound, Zenon
<1> QED  BY <1>3 DEF IndexInv

-----------------------------------------------------------------------------
(* The block index.                                                        *)

\* A block that is linked brings in only blocks that waited for it, and with each of them
\* the blocks below.
LEMMA LinkedBlocks ==
  ASSUME IndexInv, NEW b \in Block \ {Genesis}, Parent[b] \in chainTx
  PROVE  /\ Linked(b) \subseteq unlinked \cup {b}
         /\ \A d \in Linked(b) : Ancestors[d] \subseteq chainTx \cup Linked(b)
<1>1. \A d \in Linked(b) : d \in Block /\ b \in Ancestors[d]
  BY DEF Linked, Descendants
<1>2. ASSUME NEW d \in Linked(b) PROVE d \in unlinked \cup {b}
  <2>1. d \in Descendants(b) /\ d \in Ancestors[d]
    BY <1>1, Paths DEF Linked, Descendants
  <2> QED  BY <2>1 DEF Linked
<1>3. ASSUME NEW d \in Linked(b), NEW x \in Ancestors[d], x \notin chainTx PROVE x \in Linked(b)
  <2>1. x \in Block /\ Ancestors[x] \subseteq Ancestors[d]
    BY <1>1, <1>3, Paths, Zenon
  <2>2. x \in Ancestors[b] \/ b \in Ancestors[x]
    BY <1>1, <1>3, PathIsLinear, Zenon
  <2>3. Ancestors[b] = Ancestors[Parent[b]] \cup {b}
    BY TreeAssumption
  <2>4. b \in Ancestors[x]
    <3>1. CASE x \in Ancestors[b]
      BY <3>1, <2>3, <1>3, <2>1, Paths DEF IndexInv
    <3> QED  BY <3>1, <2>2
  <2> QED  BY <2>1, <2>4, <1>3 DEF Linked, Descendants
<1> QED  BY <1>2, <1>3, Zenon

LEMMA AcceptIndex ==
  ASSUME IndexInv, NEW b \in Block \ {Genesis}, AcceptBlock(b)
  PROVE  IndexInv'
<1>1. CASE Parent[b] \in chainTx
  <2> DEFINE L == Linked(b)
  <2>1. L \subseteq unlinked \cup {b} /\ \A d \in L : Ancestors[d] \subseteq chainTx \cup L
    BY <1>1, LinkedBlocks, Zenon
  <2>2. L \subseteq Block
    BY DEF Linked, Descendants
  <2>3. Cardinality(L) \in Nat
    BY <2>2, TreeAssumption, FS_Subset, FS_CardinalityType, Zenon
  <2>4. /\ data' = data \cup {b} /\ chainTx' = chainTx \cup L /\ unlinked' = unlinked \ L
        /\ nextSeq' = nextSeq + Cardinality(L) /\ candidates' = candidates \cup NewCandidates(b, seqId')
        /\ todo' = todo \cup {b} /\ incoming' = Null
        /\ UNCHANGED <<invalid, scripts, tip, reverseSeq, world>>
    BY <1>1 DEF AcceptBlock
  <2>5. NewCandidates(b, seqId') \subseteq L
    BY DEF NewCandidates
  <2>6. seqId' \in [Block -> Int]
    <3>1. PICK order \in [L -> nextSeq..(nextSeq + Cardinality(L) - 1)] :
            seqId' = [x \in Block |-> IF x \in L THEN order[x] ELSE seqId[x]]
      BY <1>1 DEF AcceptBlock
    <3> HIDE DEF L
    <3>2. nextSeq \in Int /\ seqId \in [Block -> Int]
      BY DEF IndexInv
    <3>3. \A x \in L : order[x] \in Int
      BY <3>1, <3>2, <2>3
    <3> QED  BY <3>1, <3>2, <3>3
  <2> HIDE DEF L
  <2> QED  BY <2>1, <2>2, <2>3, <2>4, <2>5, <2>6 DEF IndexInv
<1>2. CASE Parent[b] \notin chainTx
  <2>1. b \notin chainTx
    BY <1>2, ParentOnPath, Paths DEF IndexInv
  <2> QED  BY <1>2, <2>1 DEF AcceptBlock, IndexInv
<1> QED  BY <1>1, <1>2

\* The block a thread connects is linked.
LEMMA ConnIsLinked ==
  ASSUME Inv, NEW t \in Thread, Working(t)
  PROVE  conn[t] \in chainTx /\ conn[t] \in Block \ {Genesis}
<1>1. mostWork[t] \in chainTx /\ conn[t] \in Ancestors[mostWork[t]] \ {Genesis}
  <2>1. mostWork[t] \in chainTx \cup {Null}
    BY Zenon DEF Inv, Shape
  <2>2. ThreadOK(t)
    BY DEF Inv
  <2> QED  BY <2>1, <2>2, TreeAssumption DEF ThreadOK
<1> QED  BY <1>1 DEF Inv, IndexInv

LEMMA StepIndex ==
  ASSUME Inv, NEW t \in Thread, Step(t)
  PROVE  IndexInv'
<1> USE DEF index, counters, local
<1>0. IndexInv
  BY DEF Inv
<1>1. CASE LockMain(t) \/ Leave(t) \/ GetCheckerBusy(t) \/ EnterScripts(t) \/ ScriptsDone(t)
  BY <1>0, <1>1, Zenon DEF IndexInv, LockMain, Leave, GetCheckerBusy, EnterScripts, ScriptsDone
<1>2. CASE DropCandidate(t)
  <2>1. \A x : Descendants(x) \subseteq Block
    BY DEF Descendants
  <2> QED  BY <1>0, <1>2, <2>1 DEF IndexInv, DropCandidate
<1>3. CASE StartStep(t)
  <2>1. Target(t) \in chainTx /\ tip' = Highest(Ancestors[tip], Target(t))
    BY <1>3, TargetFound DEF StartStep
  <2>2. tip' \in chainTx
    BY <1>0, <2>1, ForkFound
  <2> QED  BY <1>0, <1>3, <2>2 DEF IndexInv, StartStep
<1>4. CASE ValidationCancelled(t)
  BY <1>0, <1>4 DEF IndexInv, ValidationCancelled, Relocked
<1>5. CASE FailEarly(t)
  <2>1. conn[t] \in Block
    BY <1>5, ConnIsLinked DEF FailEarly, Working
  <2> QED  BY <1>0, <1>5, <2>1 DEF IndexInv, FailEarly, InvalidBlockFound
<1>6. CASE ScriptsFailed(t)
  <2>1. conn[t] \in Block
    BY <1>6, ConnIsLinked DEF ScriptsFailed, Relocked, Working
  <2> QED  BY <1>0, <1>6, <2>1 DEF IndexInv, ScriptsFailed, InvalidBlockFound, Relocked
<1>7. CASE BestBlockTaken(t) \/ ConnectTip(t)
  <2>1. conn[t] \in chainTx
    BY <1>7, ConnIsLinked, Zenon DEF BestBlockTaken, ConnectTip, Relocked, Working
  <2>2. scripts' \subseteq chainTx
    BY <1>0, <1>7, <2>1, Zenon DEF IndexInv, BestBlockTaken, ConnectTip, RaiseScripts
  <2>3. Reinserted(conn[t]) \subseteq chainTx
    BY <1>0, <2>1 DEF IndexInv, Reinserted
  <2>4. candidates' \subseteq chainTx /\ tip' \in chainTx /\ UNCHANGED invalid
    BY <1>0, <1>7, <2>1, <2>3, Zenon DEF IndexInv, BestBlockTaken, ConnectTip
  <2>5. UNCHANGED <<data, chainTx, unlinked, seqId, nextSeq, reverseSeq, incoming, todo, world>>
    BY <1>7, Zenon DEF BestBlockTaken, ConnectTip, Relocked
  <2> QED  BY <1>0, <2>2, <2>4, <2>5 DEF IndexInv
<1> QED  BY <1>1, <1>2, <1>3, <1>4, <1>5, <1>6, <1>7 DEF Step

LEMMA NextIndex ==
  ASSUME Inv, Next
  PROVE  IndexInv'
<1> USE DEF index, counters, local
<1>0. IndexInv
  BY DEF Inv
<1>1. ASSUME NEW b \in Block \ {Genesis}, ReceiveBlock(b) PROVE IndexInv'
  BY <1>0, <1>1, Zenon DEF IndexInv, ReceiveBlock
<1>2. ASSUME NEW b \in Block \ {Genesis}, RejectBlock(b) PROVE IndexInv'
  BY <1>0, <1>2 DEF IndexInv, RejectBlock, Descendants
<1>3. ASSUME NEW b \in Block \ {Genesis}, AcceptBlock(b) PROVE IndexInv'
  BY <1>0, <1>3, AcceptIndex
<1>4. ASSUME NEW b \in Block \ {Genesis}, InvalidateBlock(b) PROVE IndexInv'
  <2>1. tip' \in chainTx
    BY <1>0, <1>4, ParentOnPath DEF IndexInv, InvalidateBlock
  <2>2. invalid' \subseteq Block /\ candidates' \subseteq chainTx
    BY <1>0, <1>4 DEF IndexInv, InvalidateBlock, Descendants
  <2> QED  BY <1>0, <1>4, <2>1, <2>2 DEF IndexInv, InvalidateBlock, RpcActivate
<1>5. ASSUME NEW b \in Block \ {Genesis}, ReconsiderBlock(b) PROVE IndexInv'
  BY <1>0, <1>5 DEF IndexInv, ReconsiderBlock, RpcActivate
<1>6. ASSUME NEW b \in Block \ {Genesis}, PreciousBlock(b) PROVE IndexInv'
  <2>1. candidates' \subseteq chainTx
    BY <1>0, <1>6, Zenon DEF IndexInv, PreciousBlock
  <2>2. seqId' \in [Block -> Int] /\ reverseSeq' \in Int
    <3> DEFINE id == IF Work[tip] > lastPrecious THEN -1 ELSE reverseSeq
    <3>1. id \in Int /\ seqId \in [Block -> Int] /\ reverseSeq \in Int
      BY <1>0 DEF IndexInv
    <3>2. \/ reverseSeq' = reverseSeq /\ seqId' = seqId
          \/ reverseSeq' = id - 1 /\ seqId' = [seqId EXCEPT ![b] = id]
      BY <1>6, Zenon DEF PreciousBlock
    <3> HIDE DEF id
    <3> QED  BY <3>1, <3>2
  <2> QED  BY <1>0, <1>6, <2>1, <2>2, Zenon DEF IndexInv, PreciousBlock, RpcActivate
<1>7. ASSUME NEW t \in Worker, NEW b \in todo, StartActivation(t, b) PROVE IndexInv'
  BY <1>0, <1>7 DEF IndexInv, StartActivation
<1>8. ASSUME NEW t \in Thread, Step(t) PROVE IndexInv'
  BY <1>8, StepIndex
<1>9. CASE Done
  BY <1>0, <1>9 DEF IndexInv, Done, vars
<1> QED  BY <1>1, <1>2, <1>3, <1>4, <1>5, <1>6, <1>7, <1>8, <1>9 DEF Next, Arrive, Accepted, RpcCall
-----------------------------------------------------------------------------
(* The clock and the validation times.                                     *)

LEMMA TimedCard ==
  ASSUME NEW vt
  PROVE  IsFiniteSet(Timed(vt)) /\ Cardinality(Timed(vt)) \in Nat
<1>1. Timed(vt) \in SUBSET Block
  BY DEF Timed
<1> QED  BY <1>1, TreeAssumption, FS_Subset, FS_CardinalityType, Zenon

LEMMA RaiseClock ==
  ASSUME ClockInv, NEW b \in Block, RaiseScripts(b)
  PROVE  ClockInv'
<1>0. valTime \in [Block -> 0..Never] /\ clock \in Nat /\ clock <= 1 + Cardinality(Timed(valTime))
  BY DEF ClockInv
<1>1. CASE b \in scripts \cup invalid \/ valTime[b] # Never
  <2>1. valTime' = valTime /\ clock' = clock
    BY <1>0, <1>1 DEF RaiseScripts
  <2> QED  BY <1>0, <2>1 DEF ClockInv, Timed
<1>2. CASE b \notin scripts \cup invalid /\ valTime[b] = Never
  <2>1. valTime' = [valTime EXCEPT ![b] = clock] /\ clock' = clock + 1
    BY <1>0, <1>2 DEF RaiseScripts
  <2>2. Timed(valTime) \in SUBSET (Block \ {b}) /\ b \notin Timed(valTime)
    BY <1>2 DEF Timed
  <2>3. IsFiniteSet(Block \ {b}) /\ Cardinality(Block \ {b}) = Cardinality(Block) - 1
    BY TreeAssumption, FS_RemoveElement
  <2>4. Cardinality(Timed(valTime)) <= Cardinality(Block) - 1
    BY <2>2, <2>3, FS_Subset
  <2>5. clock \in 0..Never /\ clock # Never
    BY <1>0, <2>4, TimedCard, NeverIsNat DEF Never
  <2>6. Timed(valTime') = Timed(valTime) \cup {b}
    BY <1>0, <2>1, <2>5 DEF Timed
  <2>7. Cardinality(Timed(valTime) \cup {b}) = Cardinality(Timed(valTime)) + 1
    BY <2>2, TimedCard, FS_AddElement, Zenon
  <2>8. valTime' \in [Block -> 0..Never]
    BY <1>0, <2>1, <2>5
  <2>9. clock' <= 1 + Cardinality(Timed(valTime'))
    <3>1. Cardinality(Timed(valTime)) \in Nat
      BY TimedCard, Zenon
    <3>2. Cardinality(Timed(valTime')) = Cardinality(Timed(valTime)) + 1
      BY <2>6, <2>7, Zenon
    <3> QED  BY <1>0, <2>1, <3>1, <3>2
  <2> QED  BY <1>0, <2>1, <2>8, <2>9 DEF ClockInv
<1> QED  BY <1>1, <1>2

LEMMA PreciousClock ==
  ASSUME ClockInv, NEW b \in Block, valTime' = [valTime EXCEPT ![b] = 0], clock' = clock
  PROVE  ClockInv'
<1>0. valTime \in [Block -> 0..Never] /\ clock \in Nat /\ clock <= 1 + Cardinality(Timed(valTime))
  BY DEF ClockInv
<1>1. valTime' \in [Block -> 0..Never] /\ 0 # Never
  BY <1>0, NeverIsNat, FS_EmptySet, TreeAssumption DEF Never
<1>2. Timed(valTime) \in SUBSET Timed(valTime')
  BY <1>0, <1>1 DEF Timed
<1>3. Cardinality(Timed(valTime)) <= Cardinality(Timed(valTime'))
  BY <1>2, TimedCard, FS_Subset, Zenon
<1>4. clock <= 1 + Cardinality(Timed(valTime'))
  BY <1>0, <1>3, TimedCard
<1> QED  BY <1>0, <1>1, <1>4 DEF ClockInv

LEMMA NextClock ==
  ASSUME Inv, Next
  PROVE  ClockInv'
<1> USE DEF index, counters, local
<1>0. ClockInv
  BY DEF Inv
<1>1. ASSUME UNCHANGED <<valTime, clock>> PROVE ClockInv'
  BY <1>0, <1>1 DEF ClockInv, Timed
<1>2. ASSUME NEW b \in Block \ {Genesis}, ReceiveBlock(b) \/ RejectBlock(b) \/ AcceptBlock(b) PROVE UNCHANGED <<valTime, clock>>
  BY <1>2, Zenon DEF ReceiveBlock, RejectBlock, AcceptBlock
<1>3. ASSUME NEW b \in Block \ {Genesis}, InvalidateBlock(b) \/ ReconsiderBlock(b) PROVE UNCHANGED <<valTime, clock>>
  BY <1>3, Zenon DEF InvalidateBlock, ReconsiderBlock, RpcActivate
<1>4. ASSUME NEW b \in Block \ {Genesis}, PreciousBlock(b) PROVE ClockInv'
  <2>1. (valTime' = valTime \/ valTime' = [valTime EXCEPT ![b] = 0]) /\ clock' = clock
    BY <1>4, Zenon DEF PreciousBlock, RpcActivate
  <2> QED  BY <1>0, <1>1, <2>1, PreciousClock
<1>5. ASSUME NEW t \in Worker, NEW b \in todo, StartActivation(t, b) PROVE UNCHANGED <<valTime, clock>>
  BY <1>5, Zenon DEF StartActivation
<1>6. ASSUME NEW t \in Thread, Step(t) PROVE ClockInv'
  <2>1. CASE LockMain(t) \/ DropCandidate(t) \/ Leave(t) \/ StartStep(t) \/ GetCheckerBusy(t)
    BY <1>1, <2>1, Zenon DEF LockMain, DropCandidate, Leave, StartStep, GetCheckerBusy
  <2>2. CASE FailEarly(t) \/ EnterScripts(t) \/ ScriptsDone(t) \/ ValidationCancelled(t) \/ ScriptsFailed(t)
    BY <1>1, <2>2, Zenon DEF FailEarly, EnterScripts, ScriptsDone, ValidationCancelled, ScriptsFailed
  <2>3. CASE BestBlockTaken(t) \/ ConnectTip(t)
    <3>1. conn[t] \in Block
      BY <2>3, ConnIsLinked, Zenon DEF BestBlockTaken, ConnectTip, Relocked, Working
    <3>2. RaiseScripts(conn[t])
      BY <2>3, Zenon DEF BestBlockTaken, ConnectTip
    <3> QED  BY <1>0, <3>1, <3>2, RaiseClock
  <2> QED  BY <1>6, <2>1, <2>2, <2>3, Zenon DEF Step
<1>7. CASE Done
  BY <1>1, <1>7 DEF Done, vars
<1> QED  BY <1>1, <1>2, <1>3, <1>4, <1>5, <1>6, <1>7, Zenon DEF Next, Arrive, Accepted, RpcCall

-----------------------------------------------------------------------------
(* The script check queues.                                                *)

\* Taking an entry out of mRunningCheckers leaves the others.
LEMMA WithoutEntry ==
  ASSUME running \in Seq(Entry), NEW i \in 1..Len(running)
  PROVE  /\ Without(i) \in Seq(Entry) /\ Len(Without(i)) = Len(running) - 1
         /\ \A j \in 1..Len(running) - 1 : Without(i)[j] = running[IF j < i THEN j ELSE j + 1]
<1> DEFINE a == SubSeq(running, 1, i - 1)
           b == SubSeq(running, i + 1, Len(running))
<1>1. \A j \in 1..Len(running) : running[j] \in Entry
  BY ElementOfSeq
<1>2. Len(running) \in Nat
  OBVIOUS
<1>3. a \in Seq(Entry) /\ Len(a) = i - 1 /\ \A j \in 1..i - 1 : a[j] = running[j]
  <2>1. \A j \in 1..i - 1 : running[j] \in Entry
    BY <1>1, <1>2
  <2> QED  BY <1>2, <2>1, SubSeqProperties
<1>4. b \in Seq(Entry) /\ Len(b) = Len(running) - i /\ \A j \in 1..Len(running) - i : b[j] = running[i + j]
  <2>1. \A j \in i + 1..Len(running) : running[j] \in Entry
    BY <1>1, <1>2
  <2> QED  BY <1>2, <2>1, SubSeqProperties
<1> HIDE DEF a, b
<1>5. /\ a \o b \in Seq(Entry) /\ Len(a \o b) = Len(a) + Len(b)
      /\ \A j \in 1..Len(a) + Len(b) : (a \o b)[j] = IF j <= Len(a) THEN a[j] ELSE b[j - Len(a)]
  BY <1>3, <1>4, ConcatProperties, Zenon
<1>6. Without(i) = a \o b
  BY DEF Without, a, b
<1>7. ASSUME NEW j \in 1..Len(running) - 1
      PROVE  (a \o b)[j] = running[IF j < i THEN j ELSE j + 1]
  <2>1. CASE j < i
    BY <1>2, <1>3, <1>4, <1>5, <2>1
  <2>2. CASE j >= i
    <3>1. (a \o b)[j] = b[j - (i - 1)]
      BY <1>2, <1>3, <1>4, <1>5, <2>2
    <3>2. b[j - (i - 1)] = running[i + (j - (i - 1))]
      BY <1>2, <1>4, <2>2
    <3> QED  BY <1>2, <2>2, <3>1, <3>2
  <2>3. j < i \/ j >= i
    OBVIOUS
  <2> QED  BY <2>1, <2>2, <2>3, Zenon
<1>8. Len(a \o b) = Len(running) - 1
  BY <1>2, <1>3, <1>4, <1>5
<1> QED  BY <1>5, <1>6, <1>7, <1>8, Zenon

LEMMA RunningFrame ==
  ASSUME RunningInv, UNCHANGED <<running, world>>, \A s \in Thread : pc'[s] = "scripts" <=> pc[s] = "scripts"
  PROVE  RunningInv'
BY DEF RunningInv, Entry

LEMMA BusyRunning ==
  ASSUME Inv, NEW t \in Thread, GetCheckerBusy(t)
  PROVE  RunningInv'
<1>0. running \in Seq(Entry) /\ pc \in [Thread -> {"idle", "activate", "find", "checker", "wait", "scripts", "relock"}]
  BY Zenon DEF Inv, RunningInv, Shape
<1>1. \A s \in Thread : pc'[s] = "scripts" <=> pc[s] = "scripts"
  BY <1>0 DEF GetCheckerBusy
<1>2. running' \in Seq(Entry) /\ Len(running') = Len(running) /\ \A i \in 1..Len(running) : running'[i].by = running[i].by
  <2>1. CASE running' = running
    BY <1>0, <2>1
  <2>2. CASE running' # running
    <3> DEFINE w == Worst
               e == [running[w] EXCEPT !.cancelled = TRUE]
    <3>1. running' = [running EXCEPT ![w] = e]
      BY <2>2 DEF GetCheckerBusy
    <3> HIDE DEF w
    <3>2. w \in 1..Len(running)
      BY <1>0, <2>2, <3>1
    <3>3. running[w] \in Entry
      BY <1>0, <3>2, ElementOfSeq
    <3>4. e \in Entry /\ e.by = running[w].by
      BY <3>3, Zenon DEF Entry
    <3> HIDE DEF e
    <3> QED  BY <1>0, <3>1, <3>2, <3>4, ExceptSeq
  <2> QED  BY <2>1, <2>2
<1>3. world' = world
  BY DEF GetCheckerBusy
<1> QED  BY <1>1, <1>2, <1>3 DEF Inv, RunningInv

LEMMA EnterRunning ==
  ASSUME Inv, NEW t \in Thread, EnterScripts(t)
  PROVE  RunningInv'
<1>0. running \in Seq(Entry) /\ pc \in [Thread -> {"idle", "activate", "find", "checker", "wait", "scripts", "relock"}]
  BY Zenon DEF Inv, RunningInv, Shape
<1>1. CASE conn[t] \in InValidation
  <2>1. UNCHANGED <<running, world>> /\ pc' = [pc EXCEPT ![t] = "activate"] /\ pc[t] # "scripts"
    BY <1>1, Zenon DEF EnterScripts, Abandon
  <2> QED  BY <1>0, <2>1, RunningFrame DEF Inv
<1>2. CASE conn[t] \notin InValidation
  <2> DEFINE e == [by |-> t, value |-> Work[mostWork[t]], cancelled |-> FALSE]
  <2>1. /\ running' = Append(running, e) /\ pc' = [pc EXCEPT ![t] = "scripts"] /\ pc[t] # "scripts"
        /\ world' = world /\ Len(running) < world.queues /\ pc[t] \in {"checker", "wait"}
    BY <1>2, Zenon DEF EnterScripts
  <2>2. ThreadOK(t)
    BY DEF Inv
  <2>3. Work[mostWork[t]] \in Nat
    BY <2>1, <2>2, TreeAssumption DEF ThreadOK, Working
  <2>4. e \in Entry /\ e.by = t
    BY <2>3 DEF Entry
  <2> HIDE DEF e
  <2>5. /\ running' \in Seq(Entry) /\ Len(running') = Len(running) + 1
        /\ \A i \in 1..Len(running) : running'[i] = running[i]
        /\ running'[Len(running) + 1] = e
    BY <1>0, <2>1, <2>4, AppendProperties
  <2>6. Len(running) \in Nat /\ world.queues \in Nat
    BY <1>0, WorldsAssumption DEF Inv, IndexInv
  <2>7. /\ \A i, j \in 1..Len(running) : running[i].by = running[j].by => i = j
        /\ \A s \in Thread : pc[s] = "scripts" <=> \E i \in 1..Len(running) : running[i].by = s
    BY DEF Inv, RunningInv
  <2>8. \A i \in 1..Len(running) : running[i].by # t
    BY <2>1, <2>7
  <2>9. \A i, j \in 1..Len(running') : running'[i].by = running'[j].by => i = j
    BY <2>4, <2>5, <2>6, <2>7, <2>8
  <2>10. ASSUME NEW s \in Thread PROVE pc'[s] = "scripts" <=> \E i \in 1..Len(running') : running'[i].by = s
    <3>1. CASE s = t
      BY <1>0, <2>1, <2>4, <2>5, <2>6, <3>1
    <3>2. CASE s # t
      <4>1. pc'[s] = pc[s]
        BY <1>0, <2>1, <3>2
      <4>2. (\E i \in 1..Len(running') : running'[i].by = s) <=> \E i \in 1..Len(running) : running[i].by = s
        BY <2>4, <2>5, <2>6, <3>2
      <4> QED  BY <2>7, <4>1, <4>2
    <3> QED  BY <3>1, <3>2
  <2> QED  BY <2>1, <2>5, <2>6, <2>9, <2>10 DEF RunningInv
<1> QED  BY <1>1, <1>2

LEMMA DoneRunning ==
  ASSUME Inv, NEW t \in Thread, ScriptsDone(t)
  PROVE  RunningInv'
<1>0. running \in Seq(Entry) /\ pc \in [Thread -> {"idle", "activate", "find", "checker", "wait", "scripts", "relock"}]
  BY Zenon DEF Inv, RunningInv, Shape
<1>1. PICK k \in 1..Len(running) : running[k].by = t /\ running' = Without(k)
  BY <1>0 DEF ScriptsDone
<1>2. pc' = [pc EXCEPT ![t] = "relock"] /\ world' = world
  BY DEF ScriptsDone
<1>3. Len(running) \in Nat /\ Len(running) <= world.queues /\ world.queues \in Nat
  BY <1>0, WorldsAssumption DEF Inv, IndexInv, RunningInv
<1>4. /\ running' \in Seq(Entry) /\ Len(running') = Len(running) - 1
      /\ \A j \in 1..Len(running) - 1 : running'[j] = running[IF j < k THEN j ELSE j + 1]
  BY <1>0, <1>1, WithoutEntry
<1>5. /\ \A i, j \in 1..Len(running) : running[i].by = running[j].by => i = j
      /\ \A s \in Thread : pc[s] = "scripts" <=> \E i \in 1..Len(running) : running[i].by = s
  BY DEF Inv, RunningInv
<1> DEFINE Old(j) == IF j < k THEN j ELSE j + 1
<1>10. /\ \A j \in 1..Len(running') : Old(j) \in 1..Len(running) /\ Old(j) # k /\ running'[j] = running[Old(j)]
      /\ \A i, j \in 1..Len(running') : Old(i) = Old(j) => i = j
  <2>1. ASSUME NEW j \in 1..Len(running') PROVE Old(j) \in 1..Len(running) /\ Old(j) # k
    BY <1>3, <1>4
  <2>2. ASSUME NEW j \in 1..Len(running') PROVE running'[j] = running[Old(j)]
    BY <1>4, Zenon
  <2>3. ASSUME NEW i \in 1..Len(running'), NEW j \in 1..Len(running'), Old(i) = Old(j) PROVE i = j
    BY <1>3, <1>4, <2>3
  <2> QED  BY <2>1, <2>2, <2>3, Zenon
<1> HIDE DEF Old
<1>6. ASSUME NEW i \in 1..Len(running'), NEW j \in 1..Len(running'), running'[i].by = running'[j].by PROVE i = j
  <2>1. /\ Old(i) \in 1..Len(running) /\ Old(j) \in 1..Len(running)
        /\ running'[i] = running[Old(i)] /\ running'[j] = running[Old(j)]
    BY <1>10, Zenon
  <2>2. Old(i) = Old(j)
    BY <1>5, <1>6, <2>1, Zenon
  <2> QED  BY <1>10, <2>2, Zenon
<1>7. ASSUME NEW s \in Thread PROVE pc'[s] = "scripts" <=> \E i \in 1..Len(running') : running'[i].by = s
  <2>1. CASE s = t
    <3>1. ASSUME NEW i \in 1..Len(running'), running'[i].by = t PROVE FALSE
      <4>1. Old(i) \in 1..Len(running) /\ Old(i) # k /\ running'[i] = running[Old(i)]
        BY <1>10, <3>1, Zenon
      <4> QED  BY <1>1, <1>5, <3>1, <4>1, Zenon
    <3>2. pc'[s] = "relock"
      BY <1>0, <1>2, <2>1
    <3> QED  BY <2>1, <3>1, <3>2
  <2>2. CASE s # t
    <3>1. pc'[s] = pc[s]
      BY <1>0, <1>2, <2>2
    <3>2. ASSUME NEW i \in 1..Len(running), running[i].by = s PROVE \E j \in 1..Len(running') : running'[j].by = s
      <4>1. i # k
        BY <1>1, <2>2, <3>2
      <4>2. CASE i < k
        BY <1>3, <1>4, <3>2, <4>2
      <4>3. CASE i > k
        <5>1. i - 1 \in 1..Len(running) - 1 /\ running'[i - 1] = running[i]
          BY <1>3, <1>4, <4>3
        <5> QED  BY <1>4, <3>2, <5>1
      <4> QED  BY <1>3, <4>1, <4>2, <4>3
    <3>3. ASSUME NEW j \in 1..Len(running'), running'[j].by = s PROVE \E i \in 1..Len(running) : running[i].by = s
      BY <1>10, <3>3, Zenon
    <3> QED  BY <1>5, <3>1, <3>2, <3>3
  <2> QED  BY <2>1, <2>2
<1> QED  BY <1>2, <1>3, <1>4, <1>6, <1>7 DEF RunningInv
LEMMA NextRunning ==
  ASSUME Inv, Next
  PROVE  RunningInv'
<1> USE DEF index, counters, local
<1>0. RunningInv /\ pc \in [Thread -> {"idle", "activate", "find", "checker", "wait", "scripts", "relock"}]
  BY Zenon DEF Inv, Shape
<1>1. ASSUME UNCHANGED <<running, world, pc>> PROVE RunningInv'
  BY <1>0, <1>1, RunningFrame, Zenon
<1>2. ASSUME NEW t \in Thread, NEW v, UNCHANGED <<running, world>>, pc' = [pc EXCEPT ![t] = v], pc[t] # "scripts", v # "scripts"
      PROVE  RunningInv'
  <2>1. \A s \in Thread : pc'[s] = "scripts" <=> pc[s] = "scripts"
    BY <1>0, <1>2
  <2> QED  BY <1>0, <1>2, <2>1, RunningFrame, Zenon
<1>3. ASSUME NEW b \in Block \ {Genesis}, ReceiveBlock(b) \/ RejectBlock(b) \/ AcceptBlock(b) PROVE RunningInv'
  BY <1>1, <1>3, Zenon DEF ReceiveBlock, RejectBlock, AcceptBlock
<1>4. ASSUME NEW b \in Block \ {Genesis}, InvalidateBlock(b) \/ ReconsiderBlock(b) \/ PreciousBlock(b) PROVE RunningInv'
  <2>1. UNCHANGED <<running, world>> /\ pc[Rpc] = "idle" /\ (pc' = pc \/ pc' = [pc EXCEPT ![Rpc] = "activate"])
    BY <1>4, Zenon DEF InvalidateBlock, ReconsiderBlock, PreciousBlock, RpcActivate
  <2>2. "idle" # "scripts" /\ "activate" # "scripts" /\ Rpc \in Thread
    BY DEF Thread
  <2> QED  BY <1>1, <1>2, <2>1, <2>2, Zenon
<1>5. ASSUME NEW t \in Worker, NEW b \in todo, StartActivation(t, b) PROVE RunningInv'
  <2>1. UNCHANGED <<running, world>> /\ pc[t] = "idle" /\ pc' = [pc EXCEPT ![t] = "activate"]
    BY <1>5, Zenon DEF StartActivation
  <2>2. "idle" # "scripts" /\ "activate" # "scripts" /\ t \in Thread
    BY <1>5 DEF Thread
  <2> QED  BY <1>2, <2>1, <2>2, Zenon
<1>6. ASSUME NEW t \in Thread, Step(t) PROVE RunningInv'
  <2>1. CASE DropCandidate(t)
    BY <1>1, <2>1, Zenon DEF DropCandidate
  <2>2. CASE LockMain(t) \/ Leave(t) \/ StartStep(t)
    <3>1. /\ UNCHANGED <<running, world>> /\ pc[t] \in {"activate", "find"}
          /\ \E v \in {"find", "idle", "activate", "checker"} : pc' = [pc EXCEPT ![t] = v]
      BY <2>2, Zenon DEF LockMain, Leave, StartStep, Found, EndStep
    <3> QED  BY <1>2, <3>1, Zenon
  <2>3. CASE GetCheckerBusy(t) \/ EnterScripts(t) \/ ScriptsDone(t)
    BY <2>3, BusyRunning, EnterRunning, DoneRunning, Zenon
  <2>4. CASE FailEarly(t)
    <3>1. UNCHANGED <<running, world>> /\ pc[t] \in {"checker", "wait"} /\ pc' = [pc EXCEPT ![t] = "activate"]
      BY <2>4, Zenon DEF FailEarly, InvalidBlockFound, EndStep
    <3> QED  BY <1>2, <3>1, Zenon
  <2>5. CASE ValidationCancelled(t) \/ ScriptsFailed(t) \/ BestBlockTaken(t) \/ ConnectTip(t)
    <3>1. UNCHANGED <<running, world>> /\ pc[t] = "relock"
      BY <2>5, Zenon DEF ValidationCancelled, ScriptsFailed, BestBlockTaken, ConnectTip, Relocked
    <3>2. \E v \in {"activate", "checker"} : pc' = [pc EXCEPT ![t] = v]
      BY <2>5, Zenon DEF ValidationCancelled, ScriptsFailed, BestBlockTaken, ConnectTip, Abandon, InvalidBlockFound, EndStep
    <3> QED  BY <1>2, <3>1, <3>2, Zenon
  <2> QED  BY <1>6, <2>1, <2>2, <2>3, <2>4, <2>5, Zenon DEF Step
<1>7. CASE Done
  BY <1>1, <1>7 DEF Done, vars
<1> QED  BY <1>3, <1>4, <1>5, <1>6, <1>7, Zenon DEF Next, Arrive, Accepted, RpcCall
=============================================================================
