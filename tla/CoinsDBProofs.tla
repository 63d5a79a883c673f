--------------------------- MODULE CoinsDBProofs ----------------------------
(***************************************************************************)
(* Proofs about CoinsDB, for any block tree, any blocks and any number of  *)
(* outpoints and crashes: the inductive invariant, the steps of a running  *)
(* node (blocks, flushes, batches of coins, crashes), the steps of a       *)
(* restart, and the theorems.                                              *)
(***************************************************************************)
EXTENDS CoinsDB, TLAPS

\* A cache slot seen with the coin below it: sound, and showing coin v.
Holds(e, u, v) == Sound(e, u) /\ Show(e, u) = v
-----------------------------------------------------------------------------
(* The block constants.                                                    *)

\* The contents that blocks define are well typed.
LEMMA ConstTypes ==
  /\ \A b \in Block : Last(b) \in Nat /\ After[b] \in Content
  /\ \A b \in Block : \A k \in 0..Last(b) : Utxo[b][k] \in Content
  /\ \A b \in Block : \A k \in 1..Last(b) : Ops[b][k] \in Op
  /\ \A b \in Block \ {Genesis} : Parent[b] \in Block /\ Utxo[b][0] = After[Parent[b]]
<1>1. \A b \in Block : Last(b) \in Nat
  BY BlockAssumption DEF Last
<1>2. \A b \in Block : \A k \in 0..Last(b) : Utxo[b][k] \in Content
  BY ZenonT(60), BlockAssumption
<1>3. \A b \in Block : \A k \in 1..Last(b) : Ops[b][k] \in Op
  BY BlockAssumption DEF Last
<1>4. \A b \in Block : After[b] = Utxo[b][Last(b)]
  BY DEF After
<1>5. \A b \in Block \ {Genesis} : Parent[b] \in Block
  BY TreeAssumption
<1>6. \A b \in Block : After[b] \in Content
  <2> TAKE b \in Block
  <2>1. Last(b) \in 0..Last(b)
    BY <1>1
  <2> QED BY <2>1, <1>2, <1>4
<1>7. \A b \in Block \ {Genesis} : Utxo[b][0] = After[Parent[b]]
  BY <1>4, <1>5, BlockAssumption
<1> QED BY <1>1, <1>2, <1>3, <1>5, <1>6, <1>7

\* One effect changes one outpoint: a spend clears an unspent coin, an addition
\* fills a spent one.
LEMMA EffectOf ==
  ASSUME NEW b \in Block, NEW k \in 1..Last(b), NEW o \in Outpoint
  PROVE  /\ o # Ops[b][k].out => Utxo[b][k][o] = Utxo[b][k-1][o]
         /\ Ops[b][k].kind = "add" =>
              Utxo[b][k][Ops[b][k].out] = Ops[b][k].coin /\ Utxo[b][k-1][Ops[b][k].out] = Spent
         /\ Ops[b][k].kind = "spend" =>
              Utxo[b][k][Ops[b][k].out] = Spent /\ Utxo[b][k-1][Ops[b][k].out] # Spent
<1>1. k - 1 \in 0..Last(b) /\ k \in 0..Last(b)
  BY ConstTypes
<1>2. Utxo[b][k-1] \in Content /\ Ops[b][k] \in Op
  BY <1>1, ConstTypes
<1>3. /\ Utxo[b][k] = Apply(Utxo[b][k-1], Ops[b][k])
      /\ Ops[b][k].kind = "spend" <=> Utxo[b][k-1][Ops[b][k].out] # Spent
  BY BlockAssumption
<1> QED BY <1>2, <1>3 DEF Apply, Content, Op
-----------------------------------------------------------------------------
(* One slot at a time: what CCoinsViewCache does to a sound slot.          *)

\* SpendCoin leaves a sound slot that shows a spent coin.
LEMMA SpendHolds ==
  ASSUME NEW e \in Slot, NEW u \in Coin \cup {Spent}, NEW v \in Coin \cup {Spent},
         Holds(e, u, v), e.in \/ u = Spent
  PROVE  SpendCoin(e) \in Slot /\ Holds(SpendCoin(e), u, Spent)
BY ZenonT(60) DEF Holds, Sound, Show, SpendCoin, Slot, Absent

\* AddCoin leaves a sound slot that shows the coin, if a caller that denies the
\* possibility of an overwrite is right.
LEMMA AddHolds ==
  ASSUME NEW e \in Slot, NEW u \in Coin \cup {Spent}, NEW v \in Coin \cup {Spent},
         NEW c \in Coin, NEW possible_overwrite \in BOOLEAN,
         Holds(e, u, v), possible_overwrite \/ v = Spent
  PROVE  /\ AddCoin(e, c, possible_overwrite) \in Slot
         /\ Holds(AddCoin(e, c, possible_overwrite), u, c)
         /\ ~AddThrows(e, possible_overwrite)
BY DEF Holds, Sound, Show, AddCoin, AddThrows, Have, Slot, Absent


\* A lookup in a cache over the database changes nothing the cache shows, and
\* misses only spent coins.
LEMMA FetchHolds ==
  ASSUME NEW e \in Slot, NEW u \in Coin \cup {Spent}, NEW v \in Coin \cup {Spent},
         Holds(e, u, v)
  PROVE  /\ FetchOverDB(e, u) \in Slot
         /\ Holds(FetchOverDB(e, u), u, v)
         /\ FetchOverDB(e, u).in \/ u = Spent
BY DEF FetchOverDB, Fetch, Holds, Sound, Show, Slot, Absent
-----------------------------------------------------------------------------
(* The inductive invariant.                                                *)

\* Block b and the blocks below it can be looked up in index I and undone with undo data U.
Covered(b, I, U) ==
  b # Null => Ancestors[b] \ {Genesis} \subseteq I \cap U

\* The database points only at blocks that the block tree database covers.
DiskCovered ==
  /\ Covered(dbBest, dbIndex, dbUndo)
  /\ heads # <<>> => /\ dbBest = Null
                     /\ Covered(heads[1], dbIndex, dbUndo)
                     /\ Covered(heads[2], dbIndex, dbUndo)

\* A running node covers its tip, and its index includes the one on disk.
RunInv ==
  /\ up # "failed"
  /\ up # "down" => /\ dbIndex \cup {Genesis} \subseteq index /\ dbUndo \subseteq undo
                    /\ index \subseteq Block
  /\ up = "run" => heads = <<>> /\ Covered(tip, index, undo)

\* BatchWrite: an entry that is left has the coin of the new tip, a record without
\* one has it already.
FlushInv ==
  up = "flush" =>
    /\ target \in Block
    /\ Covered(target, dbIndex, dbUndo) /\ Covered(oldTip, dbIndex, dbUndo)
    /\ heads = <<>> => oldTip = dbBest
    /\ heads # <<>> => heads[1] = target /\ heads[2] = oldTip
    /\ \A o \in Outpoint :
         IF batch[o].dirty THEN batch[o].coin = After[target][o] ELSE coins[o] = After[target][o]

\* ReplayBlocks: every coin the cache shows is the one at this point of the replay, or
\* already the one of the new tip.
ReplayInv ==
  up \in {"rollback", "forward"} =>
    /\ heads # <<>>
    /\ \A o \in Outpoint :
         /\ Sound(cache[o], coins[o])
         /\ Show(cache[o], coins[o]) \in {Utxo[at][pos][o], After[heads[1]][o]}
    /\ up = "rollback" => /\ Ancestors[at] \ {Genesis} \subseteq undo
                          /\ Forked => pos = Last(at)

\* The inductive invariant.
IInv ==
  /\ TypeOK /\ NeverStuck /\ DBConsistent /\ MidTransition
  /\ DiskCovered /\ RunInv /\ FlushInv /\ ReplayInv
-----------------------------------------------------------------------------
\* The head blocks, when there are some, are two blocks (the second may be Null).
LEMMA HeadsType ==
  ASSUME TypeOK, heads # <<>>
  PROVE  heads = <<heads[1], heads[2]>> /\ heads[1] \in Block /\ heads[2] \in Block \cup {Null}
BY DEF TypeOK

\* What a chain's coins are, as a type.
LEMMA CoinsOfType == \A b \in Block \cup {Null} : CoinsOf(b) \in Content
BY ConstTypes, TreeAssumption DEF CoinsOf

\* The invariant holds in an empty data directory.
LEMMA InitIInv == Init => IInv
<1> SUFFICES ASSUME Init PROVE IInv
  OBVIOUS
<1>1. TypeOK
  <2>1. Absent \in Slot
    BY DEF Absent, Slot
  <2>2. 0 \in 0..Last(Genesis) /\ Genesis \in Block
    BY ConstTypes, TreeAssumption
  <2> QED BY <2>1, <2>2, CoinsOfType DEF Init, TypeOK, Empty
<1>2. NeverStuck /\ DBConsistent /\ MidTransition
  BY DEF Init, NeverStuck, DBConsistent, MidTransition
<1>3. DiskCovered /\ RunInv /\ FlushInv /\ ReplayInv
  BY DEF Init, DiskCovered, RunInv, FlushInv, ReplayInv, Covered
<1> QED BY <1>1, <1>2, <1>3 DEF IInv

\* Steps of the running node change memory only, or copy the index to disk.
LEMMA RunSteps ==
  ASSUME IInv,
         \/ \E b \in Block : AcceptBlock(b) \/ ConnectTip(b)
         \/ DisconnectTip \/ WriteIndex
  PROVE  IInv'
<1>0. /\ up = "run" /\ up' = "run" /\ heads = <<>>
      /\ UNCHANGED <<coins, dbBest, heads, replay, write, crashes>>
  BY ZenonT(60) DEF IInv, RunInv, AcceptBlock, ConnectTip, DisconnectTip, WriteIndex, disk
<1>1. FlushInv' /\ ReplayInv' /\ DBConsistent' /\ MidTransition'
  BY <1>0 DEF IInv, FlushInv, ReplayInv, DBConsistent, MidTransition, CoinsOf
<1>2. /\ Covered(tip, index, undo) /\ Covered(dbBest, dbIndex, dbUndo)
      /\ dbIndex \cup {Genesis} \subseteq index /\ dbUndo \subseteq undo
      /\ index \subseteq Block /\ undo \subseteq Block /\ tip \in Block \cup {Null}
      /\ err = "none"
  BY <1>0 DEF IInv, RunInv, DiskCovered, TypeOK, NeverStuck
<1> SUFFICES /\ index' \subseteq Block /\ undo' \subseteq Block /\ tip' \in Block \cup {Null}
             /\ dbIndex' \subseteq Block /\ dbUndo' \subseteq Block
             /\ dbIndex' \cup {Genesis} \subseteq index' /\ dbUndo' \subseteq undo'
             /\ Covered(dbBest', dbIndex', dbUndo') /\ Covered(tip', index', undo')
             /\ err' = "none"
  <2> HIDE DEF AcceptBlock
  <2>1. TypeOK'
    BY <1>0 DEF IInv, TypeOK, replay, write
  <2>2. NeverStuck' /\ DiskCovered' /\ RunInv'
    BY <1>0 DEF NeverStuck, DiskCovered, RunInv
  <2> QED BY <1>1, <2>1, <2>2 DEF IInv
<1>3. ASSUME NEW b \in Block, AcceptBlock(b)
      PROVE  /\ index' = index \cup {b} /\ UNCHANGED <<undo, tip, dbIndex, dbUndo, err>>
  BY <1>3 DEF AcceptBlock, disk
<1>4. CASE \E b \in Block : AcceptBlock(b)
  BY <1>0, <1>2, <1>3, <1>4 DEF Covered, IInv, TypeOK
<1>5. CASE \E b \in Block : ConnectTip(b)
  <2> PICK b \in Block : ConnectTip(b)
    BY <1>5
  <2>1. b \in index /\ tip' = b /\ UNCHANGED <<index, dbIndex, dbUndo, err>>
    BY DEF ConnectTip, disk
  <2>2. CASE b = Genesis
    <3>1. undo' = undo
      BY <2>2 DEF ConnectTip
    <3>2. Ancestors[b] = {Genesis}
      BY <2>2, AncestorAssumption
    <3> QED BY <1>0, <1>2, <2>1, <3>1, <3>2 DEF Covered, IInv, TypeOK
  <2>3. CASE b # Genesis
    <3>1. undo' = undo \cup {b} /\ tip = Parent[b]
      BY <2>3 DEF ConnectTip
    <3>2. Ancestors[b] = Ancestors[tip] \cup {b} /\ tip # Null
      BY <2>3, <3>1, AncestorAssumption, TreeAssumption
    <3> QED BY <1>0, <1>2, <2>1, <3>1, <3>2 DEF Covered, IInv, TypeOK
  <2> QED BY <2>2, <2>3
<1>6. CASE DisconnectTip
  <2>1. tip \in Block /\ tip # Genesis /\ UNCHANGED <<index, undo, dbIndex, dbUndo>>
    BY ZenonT(60), <1>2, <1>6 DEF DisconnectTip, disk
  <2>2. Ancestors[tip] = Ancestors[Parent[tip]] \cup {tip} /\ Parent[tip] \in Block /\ tip # Null
    BY <2>1, AncestorAssumption, TreeAssumption
  <2>3. tip \in undo
    BY <1>2, <2>1, <2>2 DEF Covered
  <2>4. tip' = Parent[tip] /\ err' = err
    BY <1>6, <2>3 DEF DisconnectTip
  <2> QED BY <1>0, <1>2, <2>1, <2>2, <2>4 DEF Covered, IInv, TypeOK
<1>7. CASE WriteIndex
  BY <1>0, <1>2, <1>7 DEF WriteIndex, memory, Covered
<1> QED BY <1>4, <1>5, <1>6, <1>7

\* The start of a batch write reads the old tip and meets no foreign head blocks.
LEMMA StartFlushStep == ASSUME IInv, StartFlush PROVE IInv'
<1>0. /\ up = "run" /\ heads = <<>> /\ tip \in Block /\ up' = "flush"
      /\ dbIndex' = index /\ dbUndo' = undo
      /\ Covered(tip, index, undo) /\ Covered(dbBest, dbIndex, dbUndo)
      /\ index \subseteq Block /\ undo \subseteq Block
      /\ dbIndex \cup {Genesis} \subseteq index /\ dbUndo \subseteq undo
      /\ UNCHANGED <<coins, dbBest, heads, memory, replay, crashes>>
  BY DEF StartFlush, IInv, RunInv, DiskCovered, TypeOK
<1>1. /\ target' = tip /\ batch' = DirtyCoins /\ err' = err
      /\ oldTip' = dbBest
  BY <1>0 DEF StartFlush, StartBatch, IInv, TypeOK
<1>2. After[tip] \in Content
  BY <1>0, ConstTypes
<1>3. /\ DirtyCoins \in [Outpoint -> Slot]
      /\ \A o \in Outpoint : IF DirtyCoins[o].dirty THEN DirtyCoins[o].coin = After[tip][o]
                                                    ELSE coins[o] = After[tip][o]
  BY <1>2 DEF DirtyCoins, Slot, Absent, Content
<1>4. TypeOK'
  BY <1>0, <1>1, <1>3 DEF IInv, TypeOK, memory, replay
<1>5. Covered(tip', dbIndex', dbUndo') /\ Covered(dbBest', dbIndex', dbUndo')
  BY <1>0 DEF Covered, memory
<1>6. FlushInv'
  BY SMTT(60), Z3T(60), <1>0, <1>1, <1>3, <1>5 DEF FlushInv, memory
<1>7. NeverStuck' /\ DBConsistent' /\ MidTransition' /\ DiskCovered' /\ RunInv' /\ ReplayInv'
  BY SMTT(60), Z3T(60), <1>0, <1>1, <1>5 DEF IInv, NeverStuck, DBConsistent, MidTransition, DiskCovered, RunInv,
     ReplayInv, CoinsOf, memory
<1> QED BY <1>4, <1>6, <1>7 DEF IInv

\* During a batch write every record is the one of the old or of the new tip.
LEMMA FlushMixture ==
  ASSUME IInv, up = "flush", NEW o \in Outpoint
  PROVE  /\ coins[o] \in {CoinsOf(oldTip)[o], After[target][o]}
         /\ batch[o].dirty => batch[o].coin = After[target][o]
         /\ ~batch[o].dirty => coins[o] = After[target][o]
<1>1. /\ batch[o].dirty => batch[o].coin = After[target][o]
      /\ ~batch[o].dirty => coins[o] = After[target][o]
  BY DEF IInv, FlushInv
<1>2. CASE heads = <<>>
  BY <1>1, <1>2 DEF IInv, FlushInv, DBConsistent
<1>3. CASE heads # <<>>
  BY <1>1, <1>3 DEF IInv, FlushInv, MidTransition
<1> QED BY <1>1, <1>2, <1>3

\* A partial batch leaves a mixture of the two tips, with the head blocks marked.
LEMMA WritePartialStep ==
  ASSUME IInv, NEW S \in SUBSET Outpoint, WritePartial(S)
  PROVE  IInv'
<1>0. /\ up = "flush" /\ up' = "flush" /\ S \subseteq Pending
      /\ coins' = Written(S) /\ dbBest' = Null /\ heads' = <<target, oldTip>>
      /\ batch' = [o \in Outpoint |-> IF o \in S THEN Absent ELSE batch[o]]
      /\ UNCHANGED <<dbIndex, dbUndo, memory, replay, target, oldTip, crashes, err>>
  BY SMTT(60), Z3T(60) DEF WritePartial, MarkHeads
<1>1. /\ target \in Block /\ oldTip \in Block \cup {Null}
      /\ Covered(target, dbIndex, dbUndo) /\ Covered(oldTip, dbIndex, dbUndo)
  BY SMTT(60), Z3T(60), <1>0 DEF IInv, FlushInv, TypeOK
<1>2. \A o \in Outpoint : /\ coins'[o] = IF o \in S THEN batch[o].coin ELSE coins[o]
                          /\ batch'[o] = IF o \in S THEN Absent ELSE batch[o]
                          /\ o \in S => batch[o].dirty
  BY SMTT(60), Z3T(60), <1>0 DEF Written, Pending
<1>3. \A o \in Outpoint :
        /\ coins'[o] \in {CoinsOf(oldTip)[o], After[target][o]}
        /\ IF batch'[o].dirty THEN batch'[o].coin = After[target][o]
                              ELSE coins'[o] = After[target][o]
  BY SMTT(60), Z3T(60), <1>0, <1>2, FlushMixture DEF Absent
<1>4. TypeOK'
  <2>1. batch \in [Outpoint -> Slot] /\ coins \in [Outpoint -> Coin \cup {Spent}] /\ Absent \in Slot
    BY SMTT(60), Z3T(60) DEF IInv, TypeOK, Content, Slot, Absent
  <2>2. coins' \in Content /\ batch' \in [Outpoint -> Slot]
    BY <1>0, <2>1 DEF Written, Slot, Content
  <2>3. heads' \in Block \X (Block \cup {Null})
    BY <1>0, <1>1
  <2> QED BY <1>0, <2>2, <2>3 DEF IInv, TypeOK, memory, replay
<1>5. heads'[1] = target /\ heads'[2] = oldTip /\ heads' # <<>>
  BY SMTT(60), Z3T(60), <1>0
<1>6. FlushInv' /\ MidTransition'
  BY SMTT(60), Z3T(60), <1>0, <1>1, <1>3, <1>5 DEF FlushInv, MidTransition, CoinsOf
<1>7. NeverStuck' /\ DBConsistent' /\ DiskCovered' /\ RunInv' /\ ReplayInv'
  BY <1>0, <1>1, <1>5 DEF IInv, NeverStuck, DBConsistent, DiskCovered, RunInv, ReplayInv,
     Covered, memory
<1> QED BY <1>4, <1>6, <1>7 DEF IInv

\* The last batch leaves exactly the coins of the new tip.
LEMMA WriteFinalStep == ASSUME IInv, WriteFinal PROVE IInv'
<1>0. /\ up = "flush" /\ up' = "run" /\ coins' = Written(Pending)
      /\ dbBest' = target /\ heads' = <<>> /\ tip' = target
      /\ batch' = Empty /\ target' = Null /\ oldTip' = Null
      /\ UNCHANGED <<dbIndex, dbUndo, index, undo, replay, crashes, err>>
  BY DEF WriteFinal
<1>1. target \in Block /\ Covered(target, dbIndex, dbUndo) /\ target # Null
  BY <1>0, AncestorAssumption DEF IInv, FlushInv
<1>2. \A o \in Outpoint : Written(Pending)[o] = After[target][o]
  BY <1>0, FlushMixture DEF Written, Pending
<1>3. After[target] \in Content
  BY <1>1, ConstTypes
<1>4. coins' = After[target]
  BY SMTT(60), Z3T(60), <1>0, <1>2, <1>3 DEF Written, Content
<1>5. TypeOK'
  <2>1. Absent \in Slot
    BY DEF Absent, Slot
  <2> QED BY <1>0, <1>1, <1>3, <1>4, <2>1 DEF IInv, TypeOK, replay, Empty
<1>6. DBConsistent' /\ MidTransition' /\ NeverStuck'
  BY SMTT(60), Z3T(60), <1>0, <1>1, <1>4 DEF IInv, DBConsistent, MidTransition, NeverStuck, CoinsOf
<1>7. DiskCovered' /\ RunInv' /\ FlushInv' /\ ReplayInv'
  BY <1>0, <1>1 DEF IInv, DiskCovered, RunInv, FlushInv, ReplayInv, Covered
<1> QED BY <1>5, <1>6, <1>7 DEF IInv

\* A crash keeps the database and loses the rest.
LEMMA CrashStep == ASSUME IInv, Crash PROVE IInv'
<1>0. /\ up' = "down" /\ UNCHANGED disk /\ crashes' = crashes + 1 /\ err' = err
      /\ index' = {} /\ undo' = {} /\ tip' = Null /\ cache' = Empty
      /\ at' = Genesis /\ pos' = 0 /\ batch' = Empty /\ target' = Null /\ oldTip' = Null
  BY DEF Crash
<1>1. TypeOK'
  <2>1. Absent \in Slot /\ 0 \in 0..Last(Genesis) /\ Genesis \in Block
    BY ConstTypes, TreeAssumption DEF Absent, Slot
  <2> QED BY <1>0, <2>1 DEF IInv, TypeOK, disk, Empty
<1>2. NeverStuck' /\ DBConsistent' /\ MidTransition' /\ DiskCovered'
  BY SMTT(60), Z3T(60), <1>0 DEF IInv, NeverStuck, DBConsistent, MidTransition, DiskCovered, CoinsOf, disk
<1>3. RunInv' /\ FlushInv' /\ ReplayInv'
  BY <1>0 DEF RunInv, FlushInv, ReplayInv
<1> QED BY <1>1, <1>2, <1>3 DEF IInv

-----------------------------------------------------------------------------
(* Starting and replaying.                                                 *)

\* Starting finds every block it needs; a replay starts from a mixture of two tips.
LEMMA BootStep == ASSUME IInv, Boot PROVE IInv'
<1>0. /\ up = "down" /\ index' = dbIndex \cup {Genesis} /\ undo' = dbUndo
      /\ UNCHANGED <<disk, write, crashes>>
  BY ZenonT(60) DEF Boot
<1>1. /\ index' \subseteq Block /\ undo' \subseteq Block /\ err = "none"
      /\ dbIndex' \cup {Genesis} \subseteq index' /\ dbUndo' \subseteq undo'
  BY <1>0, TreeAssumption DEF IInv, TypeOK, NeverStuck, disk
<1>2. DBConsistent' /\ MidTransition' /\ DiskCovered'
  BY <1>0 DEF IInv, DBConsistent, MidTransition, DiskCovered, CoinsOf, disk
<1>3. CASE heads = <<>>
  <2>1. /\ up' = "run" /\ tip' \in {dbBest, Null} /\ UNCHANGED <<replay, err>>
    BY <1>3 DEF Boot, NeedsReplay
  <2>2. Covered(tip', index', undo')
    BY <1>0, <2>1 DEF IInv, DiskCovered, Covered
  <2>3. TypeOK'
    BY <1>0, <1>1, <2>1 DEF IInv, TypeOK, disk, write, replay
  <2>4. NeverStuck' /\ RunInv' /\ FlushInv' /\ ReplayInv'
    BY <1>0, <1>1, <1>3, <2>1, <2>2 DEF NeverStuck, RunInv, FlushInv, ReplayInv, disk
  <2> QED BY <1>2, <2>3, <2>4 DEF IInv
<1>4. CASE heads # <<>>
  <2> DEFINE old == IF heads[2] = Null THEN Genesis ELSE heads[2]
  <2>0. heads[1] \in Block /\ heads[2] \in Block \cup {Null} /\ old \in Block
    BY <1>4, HeadsType, TreeAssumption DEF IInv
  <2>1. heads[1] \in index' /\ (heads[2] # Null => heads[2] \in index')
    <3>1. Covered(heads[1], dbIndex, dbUndo) /\ Covered(heads[2], dbIndex, dbUndo)
      BY <1>4 DEF IInv, DiskCovered
    <3>2. \A b \in Block : b \in Ancestors[b] /\ b # Null
      BY AncestorAssumption
    <3> QED BY <1>0, <2>0, <3>1, <3>2 DEF Covered
  <2>2. /\ up' = "rollback" /\ cache' = Empty /\ at' = old /\ pos' = Last(old)
        /\ UNCHANGED <<tip, err>>
    BY ZenonT(60), <1>0, <1>4, <2>1 DEF Boot, NeedsReplay
  <2>3. Ancestors[old] \ {Genesis} \subseteq undo'
    <3>1. CASE heads[2] = Null
      BY <3>1, AncestorAssumption
    <3>2. CASE heads[2] # Null
      BY <1>0, <1>4, <3>2 DEF IInv, DiskCovered, Covered
    <3> QED BY <3>1, <3>2
  <2>4. \A o \in Outpoint : coins[o] \in {Utxo[old][Last(old)][o], After[heads[1]][o]}
    <3>1. CoinsOf(heads[2]) = Utxo[old][Last(old)]
      BY SMTT(60), Z3T(60), <2>0, AncestorAssumption, TreeAssumption DEF CoinsOf, After
    <3> QED BY ZenonT(60), <1>4, <3>1 DEF IInv, MidTransition
  <2> HIDE DEF old
  <2>5. TypeOK'
    <3>1. Absent \in Slot /\ Last(old) \in 0..Last(old)
      BY SMTT(60), Z3T(60), <2>0, ConstTypes DEF Absent, Slot
    <3> QED BY SMTT(60), Z3T(60), <1>0, <1>1, <2>0, <2>2, <3>1 DEF IInv, TypeOK, disk, write, Empty
  <2>6. ReplayInv'
    <3>1. \A o \in Outpoint : Sound(cache'[o], coins[o]) /\ Show(cache'[o], coins[o]) = coins[o]
      BY <2>2 DEF Sound, Show, Empty, Absent
    <3>2. UNCHANGED <<coins, heads>>
      BY SMTT(60), Z3T(60), <1>0 DEF disk
    <3> QED BY <1>4, <2>2, <2>3, <2>4, <3>1, <3>2 DEF ReplayInv
  <2>7. NeverStuck' /\ RunInv' /\ FlushInv'
    BY SMTT(60), Z3T(60), <1>1, <2>2 DEF NeverStuck, RunInv, FlushInv
  <2> QED BY <1>2, <2>5, <2>6, <2>7 DEF IInv
<1> QED BY <1>3, <1>4

\* What one effect, done or undone, needs to preserve the invariant of the replay: the
\* slot it touches shows the coin at the new position.
LEMMA EffectKeeps ==
  ASSUME IInv, up \in {"rollback", "forward"}, up' = up, at' = at,
         UNCHANGED <<disk, memory, write, crashes, err>>,
         NEW o \in Outpoint, NEW e \in Slot,
         cache' = [cache EXCEPT ![o] = e],
         pos' \in 0..Last(at), up = "rollback" => ~Forked,
         Holds(e, coins[o], Utxo[at][pos'][o]),
         \A p \in Outpoint : p # o => Utxo[at][pos'][p] = Utxo[at][pos][p]
  PROVE  IInv'
<1>1. cache \in [Outpoint -> Slot] /\ coins' = coins /\ heads' = heads /\ undo' = undo
  BY SMTT(60), Z3T(60) DEF IInv, TypeOK, disk, memory
<1>2. TypeOK'
  BY SMTT(60), Z3T(60), <1>1 DEF IInv, TypeOK, disk, memory, write
<1>3. \A p \in Outpoint :
        /\ Sound(cache'[p], coins[p])
        /\ Show(cache'[p], coins[p]) \in {Utxo[at][pos'][p], After[heads[1]][p]}
  BY SMTT(60), Z3T(60), <1>1 DEF IInv, ReplayInv, Holds
<1>4. Forked' <=> Forked
  BY SMTT(60), Z3T(60), <1>1 DEF Forked
<1>5. ReplayInv'
  <2>1. heads' # <<>>
    BY <1>1 DEF IInv, ReplayInv
  <2>2. \A p \in Outpoint :
          /\ Sound(cache'[p], coins'[p])
          /\ Show(cache'[p], coins'[p]) \in {Utxo[at'][pos'][p], After[heads'[1]][p]}
    BY Zenon, <1>1, <1>3
  <2>3. up' = "rollback" => Ancestors[at'] \ {Genesis} \subseteq undo' /\ ~Forked'
    BY ZenonT(60), <1>1, <1>4 DEF IInv, ReplayInv
  <2> QED BY Zenon, <2>1, <2>2, <2>3 DEF ReplayInv
<1>6. NeverStuck' /\ DBConsistent' /\ MidTransition' /\ DiskCovered'
  <2>1. dbBest' = dbBest /\ dbIndex' = dbIndex /\ dbUndo' = dbUndo /\ err' = err
    BY Zenon DEF disk
  <2> QED BY Zenon, <2>1, <1>1 DEF IInv, NeverStuck, DBConsistent, MidTransition, DiskCovered, CoinsOf
<1>7. RunInv' /\ FlushInv'
  BY SMTT(60), Z3T(60), <1>1 DEF IInv, RunInv, FlushInv, disk, memory, write
<1> QED BY SMTT(60), Z3T(60), <1>2, <1>5, <1>6, <1>7 DEF IInv

\* The slot an effect works on, after the lookup.
LEMMA FetchCacheHolds ==
  ASSUME IInv, up \in {"rollback", "forward"}, NEW o \in Outpoint
  PROVE  /\ coins[o] \in Coin \cup {Spent}
         /\ FetchCache(o) \in Slot
         /\ FetchCache(o).in \/ coins[o] = Spent
         /\ \E v \in Coin \cup {Spent} : Holds(FetchCache(o), coins[o], v)
         /\ Have(FetchCache(o)) \/ Holds(FetchCache(o), coins[o], Spent)
<1>1. cache[o] \in Slot /\ coins[o] \in Coin \cup {Spent}
  BY DEF IInv, TypeOK, Content
<1>2. Show(cache[o], coins[o]) \in Coin \cup {Spent}
  BY <1>1 DEF Show, Slot
<1>3. Holds(cache[o], coins[o], Show(cache[o], coins[o]))
  BY SMTT(60), Z3T(60) DEF IInv, ReplayInv, Holds
<1>4. /\ FetchCache(o) \in Slot
      /\ FetchCache(o).in \/ coins[o] = Spent
      /\ Holds(FetchCache(o), coins[o], Show(cache[o], coins[o]))
  BY SMTT(60), Z3T(60), <1>1, <1>2, <1>3, FetchHolds DEF FetchCache
<1>5. Have(FetchCache(o)) \/ Holds(FetchCache(o), coins[o], Spent)
  BY SMTT(60), Z3T(60), <1>4 DEF Have, Holds, Show
<1> QED BY <1>1, <1>2, <1>4, <1>5

\* Spending, in either direction, leaves a slot that shows a spent coin.
LEMMA SpendFetched ==
  ASSUME IInv, up \in {"rollback", "forward"}, NEW o \in Outpoint
  PROVE  SpendCoin(FetchCache(o)) \in Slot /\ Holds(SpendCoin(FetchCache(o)), coins[o], Spent)
BY FetchCacheHolds, SpendHolds

\* Adding with the outcome of HaveCoin leaves a slot that shows the coin.
LEMMA AddFetched ==
  ASSUME IInv, up \in {"rollback", "forward"}, NEW o \in Outpoint, NEW c \in Coin
  PROVE  /\ AddCoin(FetchCache(o), c, Have(FetchCache(o))) \in Slot
         /\ Holds(AddCoin(FetchCache(o), c, Have(FetchCache(o))), coins[o], c)
<1>1. PICK v \in Coin \cup {Spent} : Holds(FetchCache(o), coins[o], v)
  BY SMTT(60), Z3T(60), FetchCacheHolds
<1>2. Have(FetchCache(o)) \in BOOLEAN /\ FetchCache(o) \in Slot /\ coins[o] \in Coin \cup {Spent}
  BY FetchCacheHolds DEF Have, Slot
<1>3. CASE Have(FetchCache(o))
  BY ZenonT(60), <1>1, <1>2, <1>3, AddHolds
<1>4. CASE ~Have(FetchCache(o))
  <2>1. Holds(FetchCache(o), coins[o], Spent)
    BY <1>4, FetchCacheHolds
  <2> QED BY <1>2, <1>4, <2>1, AddHolds
<1> QED BY <1>3, <1>4

\* Undo data is there, and undoing an effect moves one coin to its earlier state.
LEMMA RollbackStep == ASSUME IInv, Rollback PROVE IInv'
<1>0. /\ up = "rollback" /\ ~Forked /\ at \in Block /\ pos \in 0..Last(at) /\ Last(at) \in Nat
      /\ Ancestors[at] \ {Genesis} \subseteq undo /\ heads # <<>>
      /\ UNCHANGED <<disk, memory, write, crashes>>
  BY ZenonT(60), ConstTypes DEF Rollback, IInv, TypeOK, ReplayInv
<1>1. heads[1] \in Block
  BY <1>0, HeadsType DEF IInv
<1>2. at # Genesis
  BY SMTT(60), Z3T(60), <1>0, <1>1, AncestorAssumption DEF Forked
<1>3. at \in undo /\ Parent[at] \in Block /\ Ancestors[at] = Ancestors[Parent[at]] \cup {at}
  BY <1>0, <1>2, AncestorAssumption, TreeAssumption
<1>4. UNCHANGED <<up, err>> /\ IF pos = 0 THEN RollbackNext ELSE RollbackEffect
  BY <1>0, <1>3 DEF Rollback
<1>5. CASE pos = 0
  <2>1. at' = Parent[at] /\ pos' = Last(Parent[at]) /\ cache' = cache
    BY SMTT(60), Z3T(60), <1>4, <1>5 DEF RollbackNext
  <2>2. Utxo[at][0] = Utxo[Parent[at]][Last(Parent[at])] /\ Last(Parent[at]) \in 0..Last(Parent[at])
    BY SMTT(60), Z3T(60), <1>0, <1>2, <1>3, BlockAssumption, ConstTypes
  <2>3. coins' = coins /\ heads' = heads /\ undo' = undo
    BY SMTT(60), Z3T(60), <1>0 DEF disk, memory
  <2>4. TypeOK'
    BY SMTT(60), Z3T(60), <1>0, <1>3, <1>4, <2>1, <2>2 DEF IInv, TypeOK, disk, memory, write
  <2>5. ReplayInv'
    BY SMTT(60), Z3T(60), <1>0, <1>3, <1>4, <1>5, <2>1, <2>2, <2>3 DEF IInv, ReplayInv
  <2>6. NeverStuck' /\ DBConsistent' /\ MidTransition' /\ DiskCovered' /\ RunInv' /\ FlushInv'
    BY SMTT(60), Z3T(60), <1>0, <1>4 DEF IInv, NeverStuck, DBConsistent, MidTransition, DiskCovered, RunInv,
       FlushInv, CoinsOf, disk, memory, write
  <2> QED BY <2>4, <2>5, <2>6 DEF IInv
<1>6. CASE pos # 0
  <2> DEFINE op == Ops[at][pos]
             o == op.out
             c == Utxo[at][pos - 1][o]
             e == IF op.kind = "add" THEN SpendCoin(FetchCache(o))
                  ELSE AddCoin(FetchCache(o), c, Have(FetchCache(o)))
  <2>1. pos \in 1..Last(at) /\ pos - 1 \in 0..Last(at) /\ op \in Op
    BY SMTT(60), Z3T(60), <1>0, <1>6, ConstTypes
  <2>2. o \in Outpoint /\ op.kind \in {"add", "spend"}
    BY ZenonT(60), <2>1 DEF Op
  <2>3. /\ \A p \in Outpoint : p # o => Utxo[at][pos][p] = Utxo[at][pos - 1][p]
        /\ op.kind = "add" => c = Spent
        /\ op.kind = "spend" => c # Spent
    BY SMTT(60), Z3T(60), <1>0, <2>1, <2>2, EffectOf
  <2>4. c \in Coin \cup {Spent}
    <3>1. Utxo[at][pos - 1] \in Content
      BY ZenonT(60), <1>0, <2>1, ConstTypes
    <3> QED BY SMTT(60), Z3T(60), <3>1, <2>2 DEF Content
  <2>5. cache' = [cache EXCEPT ![o] = e] /\ pos' = pos - 1 /\ at' = at
    BY SMTT(60), Z3T(60), <1>4, <1>6 DEF RollbackEffect
  <2>6. e \in Slot /\ Holds(e, coins[o], c)
    <3> HIDE DEF op, o, c
    <3>1. CASE op.kind = "add"
      BY SMTT(60), Z3T(60), <1>0, <2>2, <2>3, <3>1, SpendFetched
    <3>2. CASE op.kind = "spend"
      BY ZenonT(60), <1>0, <2>2, <2>3, <2>4, <3>2, AddFetched
    <3> QED BY ZenonT(60), <2>2, <3>1, <3>2
  <2>7. c = Utxo[at][pos'][o] /\ \A p \in Outpoint : p # o => Utxo[at][pos'][p] = Utxo[at][pos][p]
    BY SMTT(60), Z3T(60), <2>3, <2>5
  <2> HIDE DEF op, o, c, e
  <2> QED BY ZenonT(60), <1>0, <1>4, <2>1, <2>2, <2>5, <2>6, <2>7, EffectKeeps
<1> QED BY <1>5, <1>6

\* Redoing an effect moves one coin to its later state.
LEMMA ForwardEffectStep == ASSUME IInv, ForwardEffect PROVE IInv'
<1>0. /\ up = "forward" /\ at \in Block /\ pos \in 0..Last(at) /\ Last(at) \in Nat
      /\ pos < Last(at) /\ UNCHANGED <<disk, up, memory, at, write, crashes, err>>
  BY SMTT(60), Z3T(60), ConstTypes DEF ForwardEffect, IInv, TypeOK
<1> DEFINE k == pos + 1
           op == Ops[at][k]
           o == op.out
           e == IF op.kind = "spend" THEN SpendCoin(FetchCache(o))
                ELSE AddCoin(FetchCache(o), op.coin, Have(FetchCache(o)))
<1>1. k \in 1..Last(at) /\ k \in 0..Last(at) /\ k - 1 = pos /\ op \in Op
  <2>1. k \in 1..Last(at) /\ k \in 0..Last(at) /\ k - 1 = pos
    BY <1>0
  <2> QED BY <1>0, <2>1, ConstTypes
<1>2. o \in Outpoint /\ op.kind \in {"add", "spend"} /\ op.coin \in Coin
  BY ZenonT(60), <1>1 DEF Op
<1>3. /\ \A p \in Outpoint : p # o => Utxo[at][k][p] = Utxo[at][pos][p]
      /\ op.kind = "spend" => Utxo[at][k][o] = Spent
      /\ op.kind = "add" => Utxo[at][k][o] = op.coin
  <2> HIDE DEF k
  <2> QED BY ZenonT(60), <1>0, <1>1, <1>2, EffectOf
<1>4. cache' = [cache EXCEPT ![o] = e] /\ pos' = k
  BY ZenonT(60) DEF ForwardEffect
<1>5. e \in Slot /\ Holds(e, coins[o], Utxo[at][k][o])
  <2> HIDE DEF op, o, k
  <2>1. CASE op.kind = "spend"
    BY ZenonT(60), <1>0, <1>2, <1>3, <2>1, SpendFetched
  <2>2. CASE op.kind = "add"
    BY SMTT(60), Z3T(60), <1>0, <1>2, <1>3, <2>2, AddFetched
  <2> QED BY ZenonT(60), <1>2, <2>1, <2>2
<1> HIDE DEF op, o, e, k
<1> QED BY ZenonT(60), <1>0, <1>1, <1>2, <1>3, <1>4, <1>5, EffectKeeps

\* At the end of a block the replay is where its parent's child begins.
LEMMA ForwardNextStep == ASSUME IInv, NEW b \in Block, ForwardNext(b) PROVE IInv'
<1>0. /\ up \in {"rollback", "forward"} /\ at \in Block /\ b # Genesis /\ Parent[b] = at
      /\ up' = "forward" /\ at' = b /\ pos' = 0
      /\ UNCHANGED <<disk, memory, cache, write, crashes, err>>
  BY ZenonT(60) DEF ForwardNext, AtBlockEnd, IInv, TypeOK
<1>1. pos = Last(at)
  BY ZenonT(60) DEF ForwardNext, AtBlockEnd, IInv, ReplayInv
<1>2. Utxo[b][0] = Utxo[at][pos] /\ 0 \in 0..Last(b)
  <2>1. b \in Block \ {Genesis} /\ Utxo[b][0] = After[at] /\ Last(b) \in Nat
    BY ZenonT(60), <1>0, ConstTypes
  <2>2. After[at] = Utxo[at][pos]
    BY SMTT(60), Z3T(60), <1>0, <1>1 DEF After
  <2> QED BY SMTT(60), Z3T(60), <2>1, <2>2
<1>3. coins' = coins /\ heads' = heads
  BY SMTT(60), Z3T(60), <1>0 DEF disk
<1>4. TypeOK'
  BY ZenonT(60), <1>0, <1>2 DEF IInv, TypeOK, disk, memory, write
<1>5. ReplayInv'
  BY <1>0, <1>2, <1>3 DEF IInv, ReplayInv
<1>6. NeverStuck' /\ DBConsistent' /\ MidTransition' /\ DiskCovered' /\ RunInv' /\ FlushInv'
  BY ZenonT(60), <1>0 DEF IInv, NeverStuck, DBConsistent, MidTransition, DiskCovered, RunInv, FlushInv,
     CoinsOf, disk, memory, write
<1> QED BY SMTT(60), Z3T(60), <1>4, <1>5, <1>6 DEF IInv

\* At the new tip the cache shows its coins, and the flush completes the head blocks.
LEMMA ReplayFlushStep == ASSUME IInv, ReplayFlush PROVE IInv'
<1>0. /\ up \in {"rollback", "forward"} /\ at \in Block /\ at = heads[1] /\ heads # <<>>
      /\ up' = "flush" /\ cache' = Empty /\ at' = Genesis /\ pos' = 0
      /\ UNCHANGED <<disk, memory, crashes>>
  BY DEF ReplayFlush, AtBlockEnd, IInv, TypeOK, ReplayInv
<1>1. pos = Last(at)
  BY ZenonT(60) DEF ReplayFlush, AtBlockEnd, IInv, ReplayInv
<1>2. dbBest = Null /\ Covered(at, dbIndex, dbUndo) /\ Covered(heads[2], dbIndex, dbUndo)
  BY <1>0 DEF IInv, DiskCovered
<1>3. target' = at /\ batch' = cache /\ oldTip' = heads[2] /\ err' = err
  BY SMTT(60), Z3T(60), <1>0, <1>2 DEF ReplayFlush, StartBatch
<1>4. \A o \in Outpoint : Sound(cache[o], coins[o]) /\ Show(cache[o], coins[o]) = After[at][o]
  BY SMTT(60), Z3T(60), <1>0, <1>1 DEF IInv, ReplayInv, After
<1>5. \A o \in Outpoint : IF cache[o].dirty THEN cache[o].coin = After[at][o]
                                            ELSE coins[o] = After[at][o]
  <2> TAKE o \in Outpoint
  <2>1. cache[o] \in Slot
    BY DEF IInv, TypeOK
  <2> QED BY <1>4, <2>1 DEF Sound, Show, Absent, Slot
<1>6. heads[2] \in Block \cup {Null}
  BY SMTT(60), Z3T(60), <1>0, HeadsType DEF IInv
<1>7. TypeOK'
  <2>1. Absent \in Slot /\ 0 \in 0..Last(Genesis) /\ Genesis \in Block
    BY ConstTypes, TreeAssumption DEF Absent, Slot
  <2> QED BY ZenonT(60), <1>0, <1>3, <1>6, <2>1 DEF IInv, TypeOK, disk, memory, Empty
<1>8. FlushInv'
  BY SMTT(60), Z3T(60), <1>0, <1>2, <1>3, <1>5 DEF FlushInv, Covered, disk
<1>9. NeverStuck' /\ DBConsistent' /\ MidTransition' /\ DiskCovered' /\ RunInv' /\ ReplayInv'
  BY ZenonT(60), <1>0, <1>3 DEF IInv, NeverStuck, DBConsistent, MidTransition, DiskCovered, RunInv,
     ReplayInv, CoinsOf, disk, memory
<1> QED BY <1>7, <1>8, <1>9 DEF IInv
-----------------------------------------------------------------------------
(* The theorems.                                                           *)

\* Every step preserves the invariant.
LEMMA NextIInv == IInv /\ [Next]_vars => IInv'
<1> SUFFICES ASSUME IInv, [Next]_vars PROVE IInv'
  OBVIOUS
<1>1. CASE UNCHANGED vars
  <2>1. UNCHANGED <<coins, dbBest, heads, dbIndex, dbUndo, up, index, undo, tip, cache, at, pos,
                    batch, target, oldTip, crashes, err>>
    BY SMTT(60), Z3T(60), <1>1 DEF vars, disk, memory, replay, write
  <2>2. TypeOK' /\ NeverStuck'
    BY SMTT(60), Z3T(60), <2>1 DEF IInv, TypeOK, NeverStuck
  <2>3. DBConsistent' /\ MidTransition'
    BY SMTT(60), Z3T(60), <2>1 DEF IInv, DBConsistent, MidTransition, CoinsOf
  <2>4. DiskCovered' /\ RunInv'
    BY SMTT(60), Z3T(60), <2>1 DEF IInv, DiskCovered, RunInv
  <2>5. FlushInv'
    BY SMTT(60), Z3T(60), <2>1 DEF IInv, FlushInv
  <2>6. ReplayInv'
    BY <2>1 DEF IInv, ReplayInv, Forked
  <2> QED BY <2>2, <2>3, <2>4, <2>5, <2>6 DEF IInv
<1>2. CASE Next
  BY <1>2, RunSteps, StartFlushStep, WritePartialStep, WriteFinalStep, BootStep, RollbackStep,
     ForwardNextStep, ForwardEffectStep, ReplayFlushStep, CrashStep DEF Next, Replay
<1> QED BY <1>1, <1>2

\* The inductive invariant holds in every reachable state.
THEOREM Invariance == Spec => []IInv
BY InitIInv, NextIInv, PTL DEF Spec

\* The state of the database and of the process stays well typed.
THEOREM TypeCorrect == Spec => []TypeOK
<1>1. IInv => TypeOK
  BY DEF IInv
<1> QED BY <1>1, Invariance, PTL

\* However often the node crashes while it flushes, replays or runs, a database without
\* head blocks holds exactly the coins of its best block, and one with head blocks a
\* mixture of the coins of the two.
THEOREM CrashConsistent == Spec => [](DBConsistent /\ MidTransition)
<1>1. IInv => DBConsistent /\ MidTransition
  BY DEF IInv
<1> QED BY <1>1, Invariance, PTL

\* A database in which BatchWrite was interrupted lies between its two heads.
THEOREM AlwaysMidTransition == Spec => []MidTransition
BY CrashConsistent, PTL

\* Because the block index is written before the coins, recovery never fails.
THEOREM RecoveryNeverFails == Spec => []NeverStuck
<1>1. IInv => NeverStuck
  BY DEF IInv
<1> QED BY <1>1, Invariance, PTL

\* Head blocks on disk are completed, and never replaced by others.
THEOREM HeadsCompleted == Spec => TransitionCompletes
<1>1. IInv /\ [Next]_vars =>
        [heads # <<>> => \/ heads' = heads /\ dbBest' = Null
                         \/ heads' = <<>> /\ dbBest' = heads[1]]_vars
  <2> SUFFICES ASSUME IInv, Next, heads # <<>>
               PROVE  \/ heads' = heads /\ dbBest' = Null
                      \/ heads' = <<>> /\ dbBest' = heads[1]
    OBVIOUS
  <2>1. dbBest = Null /\ heads = <<heads[1], heads[2]>> /\ up # "run"
    BY SMTT(60), Z3T(60), HeadsType DEF IInv, DiskCovered, RunInv
  <2>2. CASE \E S \in SUBSET Outpoint : WritePartial(S)
    BY SMTT(60), Z3T(60), <2>1, <2>2 DEF WritePartial, MarkHeads, IInv, FlushInv
  <2>3. CASE WriteFinal
    BY <2>1, <2>3 DEF WriteFinal, IInv, FlushInv
  <2>4. CASE Boot \/ Replay \/ Crash
    BY ZenonT(60), <2>1, <2>4 DEF Boot, Replay, Crash, Rollback, ForwardNext, ForwardEffect, ReplayFlush, disk
  <2>5. CASE (\E b \in Block : AcceptBlock(b) \/ ConnectTip(b)) \/ DisconnectTip \/ WriteIndex
             \/ StartFlush
    BY ZenonT(60), <2>1, <2>5 DEF AcceptBlock, ConnectTip, DisconnectTip, WriteIndex, StartFlush
  <2> QED BY <2>2, <2>3, <2>4, <2>5 DEF Next
<1> QED BY <1>1, Invariance, PTL DEF Spec, TransitionCompletes
=============================================================================
