-------------------------- MODULE BlockFilesProofs --------------------------
(* Pruning, the index and the block files, for every chain length, file     *)
(* size, prune target and set of faults: the inductive invariant behind     *)
(* IndexedBlocksReadable, DatabaseConsistent and PruneKeepsRecent.          *)
EXTENDS BlockFiles, WellFoundedInduction, TLAPS

Entry  == [data : BOOLEAN, undo : BOOLEAN, file : Files,
           pos : Nat, upos : Nat, tx : BOOLEAN]
Info   == [size : Nat, undo : Nat, high : Nat]
Record == [b : Blocks \cup {Lost}, sync : BOOLEAN]

TypeOK ==
    /\ index \in [Blocks -> Entry] /\ dirtyIndex \subseteq Blocks
    /\ info \in [Files -> Info] /\ dirtyInfo \subseteq Files
    /\ last \in Files /\ tip \in Blocks /\ best \in Blocks
    /\ disk \in [index : [Blocks -> Entry], info : [Files -> Info], last : Files,
                 coins : Blocks, pruned : BOOLEAN]
    /\ blk \in [Files -> Seq(Record)]
    /\ pc \in {"run", "sync", "batch", "unlink", "end", "down", "prune", "failed"}
    /\ toPrune \subseteq Files /\ full \in BOOLEAN /\ stopping \in BOOLEAN

\* A record the entry e of block b gives is one the file information i counts.
Fits(i, e, b) == e.pos < i.size /\ b <= i.high

\* What the entry e of block b points to is there, and durable.
Stored(e, b) == ReadAt(blk[e.file], e.pos, b)
Durable(e) == blk[e.file][e.pos + 1].sync

\* The flush under way: only files below the current one and Keep blocks below the tip are
\* pruned, by a full flush of a directory marked as pruned; the current file is on disk when the
\* index is written, and the database names it from then on.
FlushInv ==
    /\ toPrune # {} => pc \in {"sync", "batch", "unlink"} /\ full /\ disk.pruned
    /\ \A f \in toPrune : f < last /\ info[f].high + Keep <= tip
    /\ pc = "batch" => last \in present
    /\ pc = "unlink" => disk.last = last

\* No entry points past the current file, in memory or in the database.
LastInv ==
    /\ disk.last <= last /\ disk.last \in present
    /\ \A b \in Blocks : index[b].data => index[b].file <= last
    /\ \A b \in Blocks : disk.index[b].data => disk.index[b].file <= disk.last

\* The file information covers the entries: the next block written overwrites none of them.
FitInv ==
    /\ Running => \A b \in Blocks : index[b].data => Fits(info[index[b].file], index[b], b)
    /\ \A b \in Blocks : LET e == disk.index[b] IN
           e.data /\ e.file \in present => Fits(info[e.file], e, b) /\ Fits(disk.info[e.file], e, b)
    /\ \A b \in dirtyIndex : LET e == index[b] IN
           e.data /\ e.file \notin dirtyInfo => Fits(disk.info[e.file], e, b)

\* A file with blocks exists, or the directory is marked as pruned.
FileInv ==
    \A f \in Files : (info[f].size > 0 /\ f # last) \/ disk.info[f].size > 0 =>
        f \in present \/ disk.pruned

\* The entries are right; those of files left behind, and those in the database, are durable.
ReadInv == "write" \notin world.faults =>
    /\ Running => \A b \in Blocks : index[b].data => index[b].file \in present
    /\ \A b \in Blocks : LET e == index[b] IN
           e.data /\ e.file \in present =>
               Stored(e, b) /\ (e.file # last \/ pc = "batch" => Durable(e))
    /\ \A b \in Blocks : LET e == disk.index[b] IN
           e.data /\ e.file \in present => Stored(e, b) /\ Durable(e)

\* The chain up to the tip is in the index, and up to the coins' best block in the database.
TxInv == "batch" \notin world.faults =>
    /\ \A b \in Blocks : (index[b].data \/ b <= tip \/ b <= best) => index[b].tx
    /\ \A b \in Blocks : (disk.index[b].data \/ b <= disk.coins) => disk.index[b].tx
    /\ \A b \in Blocks : disk.index[b].tx => index[b].tx
    /\ \A b \in Blocks : index[b].tx /\ (b \notin dirtyIndex \/ pc = "unlink") =>
           disk.index[b].tx

IInv == TypeOK /\ FlushInv /\ LastInv /\ FitInv /\ FileInv /\ ReadInv /\ TxInv

-----------------------------------------------------------------------------
(* The operators.                                                          *)

LessNat == {ss \in Nat \X Nat : ss[1] < ss[2]}

\* Every nonempty set of numbers has a least element.
LEMMA LeastNat ==
  ASSUME NEW T \in SUBSET Nat, T # {}
  PROVE  \E n \in T : \A m \in T : n <= m
<1>1. IsWellFoundedOn(LessNat, Nat)
  BY NatLessThanWellFounded, SMT DEF OpToRel, LessNat
<1>2. PICK n \in T : \A m \in T : <<m, n>> \notin LessNat
  BY <1>1, WFMin, Zenon
<1>3. \A m \in T : m \in Nat /\ n \in Nat /\ ~(m < n)
  BY <1>2, Zenon DEF LessNat
<1> QED  BY <1>3

\* Unsigned subtraction never gives more than the difference, when there is one.
LEMMA MinusBound ==
  ASSUME NEW a \in Nat, NEW b \in Nat, b <= a
  PROVE  Minus(a, b) \in Nat /\ Minus(a, b) <= a - b
BY DEF Minus

\* Neither way of choosing files to prune takes the current one, or one with a block fewer than
\* Keep below the tip.
LEMMA FilesToPrune ==
  ASSUME TypeOK, NEW vinfo \in [Files -> Info], NEW cur
  PROVE  /\ FindFilesToPrune(vinfo, cur) \subseteq Files
         /\ \A f \in FindFilesToPrune(vinfo, cur) : f < cur /\ vinfo[f].high + Keep <= tip
<1>1. tip \in Nat /\ Keep \in Nat /\ PruneAfterHeight \in Nat /\ Keep <= PruneAfterHeight
  BY KeepAssumption DEF TypeOK, Blocks
<1>2. FindFilesToPrune(vinfo, cur) \subseteq
          {f \in Files : f < cur /\ vinfo[f].high <= Minus(tip, Keep) /\ ~(tip <= PruneAfterHeight)}
  BY Zenon DEF FindFilesToPrune
<1>3. ASSUME NEW f \in Files, vinfo[f].high <= Minus(tip, Keep), ~(tip <= PruneAfterHeight)
      PROVE  vinfo[f].high + Keep <= tip
  <2>1. vinfo[f].high \in Nat
    BY <1>3, Zenon DEF Info
  <2>2. Keep <= tip
    BY <1>1, <1>3
  <2>3. Minus(tip, Keep) \in Nat /\ Minus(tip, Keep) <= tip - Keep
    BY <1>1, <2>2, MinusBound
  <2> QED BY <1>1, <1>3, <2>1, <2>3
<1> QED BY <1>2, <1>3, Zenon

LEMMA FilesToPruneManual ==
  ASSUME TypeOK, NEW h \in Blocks, tip >= PruneAfterHeight
  PROVE  /\ FindFilesToPruneManual(h) \subseteq Files
         /\ \A f \in FindFilesToPruneManual(h) : f < last /\ info[f].high + Keep <= tip
<1>1. tip \in Nat /\ Keep \in Nat /\ PruneAfterHeight \in Nat /\ Keep <= tip /\ h \in Nat
  BY KeepAssumption DEF TypeOK, Blocks
<1>2. Minus(tip, Keep) \in Nat /\ Minus(tip, Keep) <= tip - Keep
  BY <1>1, MinusBound
<1>3. ASSUME NEW f \in Files, info[f].high <= Min2(h, Minus(tip, Keep))
      PROVE  info[f].high + Keep <= tip
  <2>1. info[f].high \in Nat
    BY <1>3, Zenon DEF TypeOK, Info
  <2> HIDE DEF Minus
  <2> QED BY <1>1, <1>2, <1>3, <2>1 DEF Min2
<1> QED BY <1>3, Zenon DEF FindFilesToPruneManual

\* The next file is the current one or a later one.
LEMMA NextFileIs ==
  ASSUME TypeOK, NextFile <= MaxFile
  PROVE  NextFile \in Files /\ last <= NextFile
<1> DEFINE Room(f) == f = MaxFile + 1 \/ info[f].size = 0 \/ info[f].size + 1 < FileSize
           T == {f \in last..(MaxFile + 1) : Room(f)}
<1>1. last \in Nat /\ last <= MaxFile /\ MaxFile \in Nat
  BY KeepAssumption DEF TypeOK, Files
<1>2. T \in SUBSET Nat /\ T # {}
  <2>1. MaxFile + 1 \in T
    BY <1>1
  <2> QED BY <1>1, <2>1
<1>3. PICK f \in T : \A g \in T : f <= g
  BY <1>2, LeastNat, Zenon
<1>4. ASSUME NEW g \in last..(f - 1)
      PROVE  info[g].size # 0 /\ info[g].size + 1 >= FileSize
  <2>1. g \in Nat /\ g \in last..(MaxFile + 1) /\ ~(f <= g) /\ g <= MaxFile
    BY <1>1, <1>3
  <2>2. ~Room(g)
    BY <1>3, <2>1, Zenon
  <2>3. info[g].size \in Nat
    <3>1. g \in Files
      BY <1>1, <2>1 DEF Files
    <3> QED BY <3>1 DEF TypeOK, Info
  <2> QED BY <2>1, <2>2, <2>3, KeepAssumption
<1>5. NextFile \in last..(MaxFile + 1)
  <2>1. f \in last..(MaxFile + 1) /\ Room(f)
    BY <1>3
  <2> QED BY <1>4, <2>1, Zenon DEF NextFile
<1> QED BY <1>1, <1>5 DEF Files

\* A function on 1..n is a sequence of length n.
LEMMA Tabulated ==
  ASSUME NEW S, NEW n \in Nat, NEW s \in [1..n -> S]
  PROVE  s \in Seq(S) /\ Len(s) = n
BY DEF Seq

\* Writing one record: it can be read back, and the others are as they were.
LEMMA PutAtIs ==
  ASSUME NEW file \in Seq(Record), NEW pos \in Nat, NEW b \in Blocks
  PROVE  /\ PutAt(file, pos, b) \in Seq(Record)
         /\ ReadAt(PutAt(file, pos, b), pos, b)
         /\ \A p \in Nat : p # pos /\ p < Len(file) =>
                p < Len(PutAt(file, pos, b)) /\ PutAt(file, pos, b)[p + 1] = file[p + 1]
<1> DEFINE n == Max2(Len(file), pos + 1)
           s == PutAt(file, pos, b)
<1>1. n \in Nat /\ n >= Len(file) /\ n >= pos + 1 /\ Len(file) \in Nat
  BY DEF Max2
<1>2. s = [i \in 1..n |-> IF i = pos + 1 THEN [b |-> b, sync |-> FALSE]
                           ELSE IF i <= Len(file) THEN file[i] ELSE [b |-> Lost, sync |-> TRUE]]
  BY DEF PutAt
<1> HIDE DEF n, s
<1>3. s \in [1..n -> Record]
  <2>1. \A i \in 1..Len(file) : file[i] \in Record
    OBVIOUS
  <2>2. [b |-> b, sync |-> FALSE] \in Record /\ [b |-> Lost, sync |-> TRUE] \in Record
    BY DEF Record
  <2>3. ASSUME NEW i \in 1..n PROVE s[i] \in Record
    BY <1>1, <1>2, <2>1, <2>2
  <2> QED BY <1>2, <2>3, Zenon
<1>4. s \in Seq(Record) /\ Len(s) = n
  BY <1>1, <1>3, Tabulated
<1>5. s[pos + 1] = [b |-> b, sync |-> FALSE] /\ pos < Len(s)
  BY <1>1, <1>2, <1>4
<1>6. ASSUME NEW p \in Nat, p # pos, p < Len(file)
      PROVE  p < Len(s) /\ s[p + 1] = file[p + 1]
  BY <1>1, <1>2, <1>4, <1>6
<1> QED BY <1>4, <1>5, <1>6 DEF ReadAt, s

\* Syncing and cutting off what is past the size change no record below it.
LEMMA SyncedIs ==
  ASSUME NEW file \in Seq(Record)
  PROVE  /\ Synced(file) \in Seq(Record) /\ Len(Synced(file)) = Len(file)
         /\ \A p \in Nat : p < Len(file) =>
                Synced(file)[p + 1].b = file[p + 1].b /\ Synced(file)[p + 1].sync
<1> DEFINE s == Synced(file)
<1>1. Len(file) \in Nat /\ DOMAIN file = 1..Len(file) /\ \A i \in 1..Len(file) : file[i] \in Record
  OBVIOUS
<1>2. s = [i \in 1..Len(file) |-> [file[i] EXCEPT !.sync = TRUE]]
  BY <1>1 DEF Synced
<1> HIDE DEF s
<1>3. ASSUME NEW i \in 1..Len(file)
      PROVE  s[i] \in Record /\ s[i].b = file[i].b /\ s[i].sync
  BY <1>1, <1>2, Zenon DEF Record
<1>4. s \in Seq(Record) /\ Len(s) = Len(file)
  BY <1>1, <1>2, <1>3, Tabulated
<1>5. ASSUME NEW p \in Nat, p < Len(file) PROVE p + 1 \in 1..Len(file)
  BY <1>1, <1>5
<1> QED BY <1>3, <1>4, <1>5 DEF s

LEMMA TruncatedIs ==
  ASSUME NEW file \in Seq(Record), NEW n \in Nat
  PROVE  /\ Truncated(file, n) \in Seq(Record)
         /\ \A p \in Nat : p < n /\ p < Len(file) =>
                p < Len(Truncated(file, n)) /\ Truncated(file, n)[p + 1] = file[p + 1]
<1>1. Min2(n, Len(file)) \in 0..Len(file)
  BY DEF Min2
<1> QED BY <1>1 DEF Truncated, Min2

\* A power loss takes only what was not durable.
LEMMA PowerLossIs ==
  ASSUME NEW file \in Seq(Record)
  PROVE  /\ AfterPowerLoss(file) \in Seq(Record)
         /\ \A p \in Nat : p < Len(file) /\ file[p + 1].sync =>
                p < Len(AfterPowerLoss(file)) /\ AfterPowerLoss(file)[p + 1] = file[p + 1]
<1> DEFINE s == AfterPowerLoss(file)
<1>1. Len(file) \in Nat /\ DOMAIN file = 1..Len(file) /\ \A i \in 1..Len(file) : file[i] \in Record
  OBVIOUS
<1>2. s = [i \in 1..Len(file) |-> IF file[i].sync THEN file[i] ELSE [b |-> Lost, sync |-> TRUE]]
  BY <1>1 DEF AfterPowerLoss
<1> HIDE DEF s
<1>3. [b |-> Lost, sync |-> TRUE] \in Record
  BY DEF Record
<1>4. s \in [1..Len(file) -> Record]
  BY <1>1, <1>2, <1>3
<1>5. s \in Seq(Record) /\ Len(s) = Len(file)
  BY <1>1, <1>4, Tabulated
<1>6. ASSUME NEW p \in Nat, p < Len(file), file[p + 1].sync
      PROVE  s[p + 1] = file[p + 1]
  <2>1. p + 1 \in 1..Len(file)
    BY <1>1, <1>6
  <2> QED BY <1>2, <1>6, <2>1
<1> QED BY <1>5, <1>6 DEF s

-----------------------------------------------------------------------------
(* Entering a flush, and the steps that touch no block file.               *)

\* What Enter does: the chosen files are pruned by a full flush, with the flag set first.
LEMMA EnterIs ==
  ASSUME TypeOK, NEW chosen \in SUBSET Files, NEW chk, NEW modes, Enter(chosen, chk, modes)
  PROVE  /\ toPrune' = chosen /\ full' \in BOOLEAN /\ pc' \in {"sync", "end"}
         /\ chosen # {} => full' /\ disk'.pruned /\ pc' = "sync"
         /\ disk' \in [index : [Blocks -> Entry], info : [Files -> Info], last : Files,
                       coins : Blocks, pruned : BOOLEAN]
         /\ disk'.index = disk.index /\ disk'.info = disk.info /\ disk'.last = disk.last
         /\ disk'.coins = disk.coins /\ (disk.pruned => disk'.pruned)
<1>1. toPrune' = chosen /\ full' \in BOOLEAN /\ pc' \in {"sync", "end"}
  BY DEF Enter
<1>2. disk' = IF chosen = {} THEN disk ELSE [disk EXCEPT !.pruned = TRUE]
  BY DEF Enter
<1>3. /\ disk' \in [index : [Blocks -> Entry], info : [Files -> Info], last : Files,
                    coins : Blocks, pruned : BOOLEAN]
      /\ disk'.index = disk.index /\ disk'.info = disk.info /\ disk'.last = disk.last
      /\ disk'.coins = disk.coins /\ (disk.pruned => disk'.pruned)
      /\ chosen # {} => disk'.pruned
  BY <1>2, Zenon DEF TypeOK
<1>4. chosen # {} => full' /\ pc' = "sync"
  BY Zenon DEF Enter
<1> QED BY <1>1, <1>3, <1>4

\* A step that leaves the block files, the entries and the counts of the files as they are.
Quiet ==
    /\ blk' = blk /\ present' = present /\ last' = last /\ world' = world
    /\ \A b \in Blocks : /\ index'[b].data = index[b].data /\ index'[b].file = index[b].file
                         /\ index'[b].pos = index[b].pos /\ index'[b].tx = index[b].tx
    /\ \A f \in Files : info'[f].size = info[f].size /\ info'[f].high = info[f].high
    /\ disk'.index = disk.index /\ disk'.info = disk.info /\ disk'.last = disk.last
    /\ disk'.coins = disk.coins /\ (disk.pruned => disk'.pruned)
    /\ dirtyInfo \subseteq dirtyInfo' /\ dirtyIndex \subseteq dirtyIndex'
    /\ \A b \in dirtyIndex' : b \in dirtyIndex \/ index[b].file \in dirtyInfo'
    /\ Running' => Running
    /\ pc' \notin {"batch", "unlink"}
    /\ \A b \in Blocks : b <= tip' \/ b <= best' => b <= tip \/ b <= best \/ index[b].data

LEMMA QuietKeeps ==
  ASSUME IInv, TypeOK', Quiet
  PROVE  LastInv' /\ FitInv' /\ FileInv' /\ ReadInv' /\ TxInv'
<1>1. LastInv'
  BY Zenon DEF Quiet, IInv, LastInv
<1>2. FitInv'
  <2>1. ASSUME NEW b \in Blocks, NEW f \in Files
        PROVE  Fits(info[f], index[b], b)' <=> Fits(info[f], index[b], b)
    BY <2>1, Zenon DEF Quiet, Fits
  <2>2. ASSUME NEW b \in Blocks, NEW f \in Files
        PROVE  /\ Fits(disk.info[f], index[b], b)' <=> Fits(disk.info[f], index[b], b)
               /\ Fits(info[f], disk.index[b], b)' <=> Fits(info[f], disk.index[b], b)
               /\ Fits(disk.info[f], disk.index[b], b)' <=> Fits(disk.info[f], disk.index[b], b)
    BY <2>2, Zenon DEF Quiet, Fits
  <2>3. \A b \in Blocks : index[b].file \in Files /\ disk.index[b].file \in Files
    BY Zenon DEF IInv, TypeOK, Entry
  <2>4. ASSUME Running', NEW b \in Blocks, index'[b].data
        PROVE  Fits(info[index[b].file], index[b], b)'
    BY <2>1, <2>3, <2>4, Zenon DEF Quiet, IInv, FitInv
  <2>5. ASSUME NEW b \in Blocks, disk'.index[b].data, disk'.index[b].file \in present'
        PROVE  /\ Fits(info[disk.index[b].file], disk.index[b], b)'
               /\ Fits(disk.info[disk.index[b].file], disk.index[b], b)'
    <3>1. disk.index[b].data /\ disk.index[b].file \in present
      BY <2>5, Zenon DEF Quiet
    <3> QED BY <2>2, <2>3, <2>5, <3>1, Zenon DEF Quiet, IInv, FitInv
  <2>6. ASSUME NEW b \in dirtyIndex', index'[b].data, index'[b].file \notin dirtyInfo'
        PROVE  Fits(disk.info[index[b].file], index[b], b)'
    <3>1. /\ b \in Blocks /\ b \in dirtyIndex /\ index[b].data /\ index[b].file \notin dirtyInfo
          /\ index'[b].file = index[b].file
      BY <2>6, Zenon DEF Quiet, TypeOK
    <3> QED BY <2>2, <2>3, <3>1, Zenon DEF IInv, FitInv
  <2> QED BY <2>4, <2>5, <2>6, Zenon DEF FitInv
<1>3. FileInv'
  BY Zenon DEF Quiet, IInv, FileInv
<1>4. ReadInv'
  <2> SUFFICES ASSUME "write" \notin world'.faults
               PROVE  /\ Running' => \A b \in Blocks : index'[b].data => index'[b].file \in present'
                      /\ \A b \in Blocks :
                            index'[b].data /\ index'[b].file \in present' =>
                               /\ Stored(index[b], b)'
                               /\ (index'[b].file # last' \/ pc' = "batch" => Durable(index[b])')
                      /\ \A b \in Blocks :
                            disk'.index[b].data /\ disk'.index[b].file \in present' =>
                               Stored(disk.index[b], b)' /\ Durable(disk.index[b])'
    BY Zenon DEF ReadInv
  <2>1. "write" \notin world.faults
    BY Zenon DEF Quiet
  <2>2. \A b \in Blocks : /\ Stored(index[b], b)' <=> Stored(index[b], b)
                          /\ Durable(index[b])' <=> Durable(index[b])
                          /\ Stored(disk.index[b], b)' <=> Stored(disk.index[b], b)
                          /\ Durable(disk.index[b])' <=> Durable(disk.index[b])
    BY Zenon DEF Quiet, Stored, Durable
  <2> QED BY <2>1, <2>2, Zenon DEF Quiet, IInv, ReadInv
<1>5. TxInv'
  <2> SUFFICES ASSUME "batch" \notin world'.faults, NEW b \in Blocks
               PROVE  /\ (index'[b].data \/ b <= tip' \/ b <= best') => index'[b].tx
                      /\ (disk'.index[b].data \/ b <= disk'.coins) => disk'.index[b].tx
                      /\ disk'.index[b].tx => index'[b].tx
                      /\ index'[b].tx /\ (b \notin dirtyIndex' \/ pc' = "unlink") =>
                             disk'.index[b].tx
    BY Zenon DEF TxInv
  <2>1. /\ (index[b].data \/ b <= tip \/ b <= best) => index[b].tx
        /\ (disk.index[b].data \/ b <= disk.coins) => disk.index[b].tx
        /\ disk.index[b].tx => index[b].tx
        /\ index[b].tx /\ b \notin dirtyIndex => disk.index[b].tx
    BY Zenon DEF Quiet, IInv, TxInv
  <2> QED BY <2>1, Zenon DEF Quiet
<1> QED BY <1>1, <1>2, <1>3, <1>4, <1>5

\* What FlushStateToDisk may be asked to prune.
Prunable(chosen) == /\ chosen \subseteq Files
                    /\ \A f \in chosen : f < last /\ info[f].high + Keep <= tip

\* An operation that enters a flush and has changed no more than the undo record of an entry.
LEMMA EnterKeeps ==
  ASSUME IInv, Running, NEW chosen, NEW chk, NEW modes, Enter(chosen, chk, modes),
         Prunable(chosen),
         UNCHANGED <<last, tip, blk, present, world>>,
         index' \in [Blocks -> Entry], info' \in [Files -> Info],
         dirtyIndex' \subseteq Blocks, dirtyInfo' \subseteq Files,
         best' \in Blocks, stopping' \in BOOLEAN,
         \A b \in Blocks : /\ index'[b].data = index[b].data /\ index'[b].file = index[b].file
                           /\ index'[b].pos = index[b].pos /\ index'[b].tx = index[b].tx,
         \A f \in Files : info'[f].size = info[f].size /\ info'[f].high = info[f].high,
         dirtyInfo \subseteq dirtyInfo', dirtyIndex \subseteq dirtyIndex',
         \A b \in dirtyIndex' : b \in dirtyIndex \/ index[b].file \in dirtyInfo',
         \A b \in Blocks : b <= best' => b <= tip \/ b <= best \/ index[b].data
  PROVE  IInv'
<1>1. chosen \in SUBSET Files /\ TypeOK
  BY Zenon DEF Prunable, IInv
<1>2. /\ toPrune' = chosen /\ full' \in BOOLEAN /\ pc' \in {"sync", "end"}
      /\ chosen # {} => full' /\ disk'.pruned /\ pc' = "sync"
      /\ disk' \in [index : [Blocks -> Entry], info : [Files -> Info], last : Files,
                    coins : Blocks, pruned : BOOLEAN]
      /\ disk'.index = disk.index /\ disk'.info = disk.info /\ disk'.last = disk.last
      /\ disk'.coins = disk.coins /\ (disk.pruned => disk'.pruned)
  BY <1>1, EnterIs, Zenon
<1>3. TypeOK'
  BY <1>1, <1>2 DEF TypeOK
<1>4. Quiet
  BY <1>2 DEF Quiet
<1>5. FlushInv'
  <2>1. \A f \in toPrune' : f < last' /\ info'[f].high + Keep <= tip'
    BY <1>1, <1>2, Zenon DEF Prunable
  <2> QED BY <1>2, <2>1 DEF FlushInv
<1> QED BY <1>3, <1>4, <1>5, QuietKeeps, Zenon DEF IInv

\* The files FlushStateToDisk finds when fCheckForPruning is set.
LEMMA PrunableIf ==
  ASSUME TypeOK, NEW chk
  PROVE  Prunable(IF chk THEN FindFilesToPrune(info, last) ELSE {})
BY FilesToPrune, Zenon DEF Prunable, TypeOK

LEMMA DisconnectStep == ASSUME IInv, Disconnect, world' = world PROVE IInv'
<1>0. TypeOK /\ Running /\ tip \in Nat /\ tip > 0 /\ tip \in Blocks
  BY DEF Disconnect, IInv, TypeOK, Running, Blocks
<1>1. CASE /\ best' = tip - 1
           /\ Enter(IF check THEN FindFilesToPrune(info, last) ELSE {}, FALSE, {"none", "full"})
  <2>1. UNCHANGED <<index, info, dirtyIndex, dirtyInfo, last, tip, blk, present, stopping>>
    BY Zenon DEF Disconnect, files
  <2>2. best' \in Blocks /\ \A b \in Blocks : b <= best' => b <= tip
    BY <1>0, <1>1, KeepAssumption DEF Blocks
  <2>3. Prunable(IF check THEN FindFilesToPrune(info, last) ELSE {})
    BY <1>0, PrunableIf, Zenon
  <2>4. TypeOK
    BY <1>0
  <2> QED BY <1>0, <1>1, <2>1, <2>2, <2>3, EnterKeeps, Zenon DEF TypeOK
<1>2. CASE UNCHANGED <<best, check, disk, pc, toPrune, full>>
  <2>1. UNCHANGED <<index, info, dirtyIndex, dirtyInfo, last, tip, blk, present, stopping>>
    BY Zenon DEF Disconnect, files
  <2>2. TypeOK'
    BY <1>0, <1>2, <2>1, Zenon DEF TypeOK
  <2>3. Quiet
    BY <1>0, <1>2, <2>1 DEF Quiet, Disconnect, Running
  <2>4. FlushInv'
    BY <1>2, <2>1, Zenon DEF IInv, FlushInv
  <2> QED BY <2>2, <2>3, <2>4, QuietKeeps, Zenon DEF IInv
<1> QED BY <1>1, <1>2, Zenon DEF Disconnect

\* FlushStateToDisk called without any other change: Periodic, PruneBlockchain, Shutdown and
\* PruneAndFlush.
LEMMA JustEnterKeeps ==
  ASSUME IInv, Running, NEW chosen, NEW chk, NEW modes, Enter(chosen, chk, modes),
         Prunable(chosen), stopping' \in BOOLEAN,
         UNCHANGED <<index, dirtyIndex, info, dirtyInfo, last, tip, best, files, world>>
  PROVE  IInv'
<1>1. TypeOK /\ UNCHANGED <<index, dirtyIndex, info, dirtyInfo, last, tip, best, blk, present, world>>
  BY Zenon DEF files, IInv
<1> QED BY <1>1, EnterKeeps, Zenon DEF TypeOK

LEMMA PeriodicStep == ASSUME IInv, Periodic, world' = world PROVE IInv'
<1>1. TypeOK /\ Running /\ stopping' \in BOOLEAN
  BY DEF Periodic, IInv, TypeOK, Running
<1> QED BY <1>1, PrunableIf, JustEnterKeeps, Zenon DEF Periodic

LEMMA ShutdownStep == ASSUME IInv, Shutdown, world' = world PROVE IInv'
<1>1. TypeOK /\ Running /\ stopping' \in BOOLEAN
  BY DEF Shutdown, IInv, TypeOK, Running
<1> QED BY <1>1, PrunableIf, JustEnterKeeps, Zenon DEF Shutdown

LEMMA PruneAndFlushStep == ASSUME IInv, PruneAndFlush, world' = world PROVE IInv'
<1>1. TypeOK /\ Running /\ stopping' \in BOOLEAN
  BY DEF PruneAndFlush, IInv, TypeOK, Running
<1>2. Prunable(FindFilesToPrune(info, last))
  BY <1>1, FilesToPrune, Zenon DEF Prunable, TypeOK
<1> QED BY <1>1, <1>2, JustEnterKeeps, Zenon DEF PruneAndFlush

LEMMA PruneBlockchainStep ==
  ASSUME IInv, NEW h \in Blocks, PruneBlockchain(h), world' = world PROVE IInv'
<1>1. TypeOK /\ Running /\ stopping' \in BOOLEAN
  BY DEF PruneBlockchain, IInv, TypeOK, Running
<1>2. tip >= PruneAfterHeight
  <2>1. ~(tip < PruneAfterHeight)
    BY Zenon DEF PruneBlockchain, PruneHeights
  <2> QED BY <1>1, <2>1, KeepAssumption DEF TypeOK, Blocks
<1>3. Prunable(FindFilesToPruneManual(h))
  BY <1>1, <1>2, FilesToPruneManual, Zenon DEF Prunable
<1> QED BY <1>1, <1>3, JustEnterKeeps, Zenon DEF PruneBlockchain

\* Noting the undo position of a block changes nothing else of the entries.
LEMMA UndoNoted ==
  ASSUME NEW old \in [Blocks -> Entry], NEW c \in Blocks, NEW u \in Nat, NEW new,
         new = [old EXCEPT ![c] = WithUndo(@, u)]
  PROVE  /\ new \in [Blocks -> Entry]
         /\ \A d \in Blocks : /\ new[d].data = old[d].data /\ new[d].file = old[d].file
                              /\ new[d].pos = old[d].pos /\ new[d].tx = old[d].tx
<1> DEFINE e == old[c]
           e2 == WithUndo(e, u)
<1>1. e \in Entry
  OBVIOUS
<1>2. e2 \in Entry /\ e2.data = e.data /\ e2.file = e.file /\ e2.pos = e.pos /\ e2.tx = e.tx
  BY <1>1, Zenon DEF Entry, WithUndo
<1> HIDE DEF e2
<1>3. new = [old EXCEPT ![c] = e2]
  BY Zenon DEF e2
<1> QED BY <1>2, <1>3, Zenon

LEMMA UndoCounted ==
  ASSUME NEW old \in [Files -> Info], NEW f \in Files, NEW new,
         new = [old EXCEPT ![f].undo = @ + 1]
  PROVE  /\ new \in [Files -> Info]
         /\ \A g \in Files : new[g].size = old[g].size /\ new[g].high = old[g].high
<1> DEFINE e == old[f]
           u == e.undo + 1
           e1 == [e EXCEPT !.undo = u]
<1>1. e \in Info /\ u \in Nat
  BY DEF Info
<1> HIDE DEF u
<1>2. e1 \in Info /\ e1.size = e.size /\ e1.high = e.high
  BY <1>1, Zenon DEF Info
<1>3. new = [old EXCEPT ![f] = e1]
  BY Zenon DEF u
<1> HIDE DEF e1
<1> QED BY <1>2, <1>3, Zenon

\* ConnectTip writes an undo record beside the block unless there is one.
LEMMA ConnectStep == ASSUME IInv, Connect, world' = world PROVE IInv'
<1> DEFINE b == tip + 1
           f == index[b].file
           chk == check \/ (~index[b].undo /\ NewChunk(FindUndoPos(f), UndoChunk))
<1>0. /\ TypeOK /\ Running /\ pc = "run" /\ b \in Blocks /\ f \in Files /\ index[b].data
      /\ info[f].undo \in Nat
  <2>1. TypeOK /\ Running /\ pc = "run" /\ b <= MaxHeight /\ index[b].data
    BY DEF Connect, IInv, Running
  <2>2. b \in Blocks
    BY <2>1, KeepAssumption DEF TypeOK, Blocks
  <2>3. f \in Files
    BY <2>1, <2>2 DEF TypeOK, Entry
  <2> QED BY <2>1, <2>2, <2>3, ZenonT(60) DEF TypeOK, Info
<1>1. UNCHANGED <<last, tip, stopping>>
  BY Zenon DEF Connect
<1>2. /\ [info EXCEPT ![f].undo = @ + 1] \in [Files -> Info]
      /\ \A g \in Files : /\ [info EXCEPT ![f].undo = @ + 1][g].size = info[g].size
                           /\ [info EXCEPT ![f].undo = @ + 1][g].high = info[g].high
  <2>1. info \in [Files -> Info] /\ f \in Files
    BY <1>0, Zenon DEF TypeOK
  <2> HIDE DEF f
  <2>2. PICK new : new = [info EXCEPT ![f].undo = @ + 1]
    BY Zenon
  <2>3. new \in [Files -> Info] /\ \A g \in Files : new[g].size = info[g].size /\ new[g].high = info[g].high
    BY <2>1, <2>2, UndoCounted
  <2> QED BY <2>2, <2>3, Zenon
<1> HIDE DEF b, f
<1>4. CASE /\ IF index[b].undo THEN UNCHANGED <<info, dirtyInfo, rev, index, dirtyIndex>>
              ELSE /\ info' = [info EXCEPT ![f].undo = @ + 1]
                   /\ dirtyInfo' = dirtyInfo \cup {f}
                   /\ rev' = [rev EXCEPT ![f] = PutAt(@, FindUndoPos(f), b)]
                   /\ index' = [index EXCEPT ![b] = WithUndo(@, FindUndoPos(f))]
                   /\ dirtyIndex' = dirtyIndex \cup {b}
           /\ best' = b
           /\ UNCHANGED <<blk, present, aborted, left>>
           /\ Enter(IF chk THEN FindFilesToPrune(info', last) ELSE {}, FALSE, {"none", "full"})
  <2>2. /\ index' \in [Blocks -> Entry]
        /\ \A c \in Blocks : /\ index'[c].data = index[c].data /\ index'[c].file = index[c].file
                              /\ index'[c].pos = index[c].pos /\ index'[c].tx = index[c].tx
    <3>1. CASE index[b].undo
      BY <1>0, <1>4, <3>1, Zenon DEF TypeOK
    <3>2. CASE ~index[b].undo
      <4>1. index' = [index EXCEPT ![b] = WithUndo(@, info[f].undo)]
        BY <1>4, <3>2, Zenon DEF FindUndoPos
      <4>2. index \in [Blocks -> Entry] /\ b \in Blocks /\ info[f].undo \in Nat
        BY <1>0, Zenon DEF TypeOK
      <4>3. PICK new : new = index'
        BY Zenon
      <4> QED BY <4>1, <4>2, <4>3, UndoNoted
    <3> QED BY <3>1, <3>2
  <2>3. /\ index' \in [Blocks -> Entry] /\ info' \in [Files -> Info]
        /\ dirtyIndex' \subseteq Blocks /\ dirtyInfo' \subseteq Files
        /\ dirtyInfo \subseteq dirtyInfo' /\ dirtyIndex \subseteq dirtyIndex'
        /\ \A c \in dirtyIndex' : c \in dirtyIndex \/ index[c].file \in dirtyInfo'
        /\ \A g \in Files : info'[g].size = info[g].size /\ info'[g].high = info[g].high
    <3>1. CASE index[b].undo
      BY <1>0, <1>4, <3>1, Zenon DEF TypeOK
    <3>2. CASE ~index[b].undo
      <4>1. /\ info' = [info EXCEPT ![f].undo = @ + 1] /\ dirtyInfo' = dirtyInfo \cup {f}
            /\ dirtyIndex' = dirtyIndex \cup {b}
        BY <1>4, <3>2, Zenon
      <4>2. dirtyIndex' \subseteq Blocks /\ dirtyInfo' \subseteq Files
        BY <1>0, <4>1, Zenon DEF TypeOK
      <4>3. \A c \in dirtyIndex' : c \in dirtyIndex \/ index[c].file \in dirtyInfo'
        BY <4>1, Zenon DEF f
      <4>4. info' \in [Files -> Info]
        BY <1>2, <4>1, Zenon
      <4>5. \A g \in Files : info'[g].size = info[g].size /\ info'[g].high = info[g].high
        BY <1>2, <4>1, Zenon
      <4> QED BY <3>2, <2>2, <4>1, <4>2, <4>3, <4>4, <4>5, Zenon
    <3> QED BY <3>1, <3>2
  <2>1. Prunable(IF chk THEN FindFilesToPrune(info', last) ELSE {})
    <3>1. /\ FindFilesToPrune(info', last) \subseteq Files
          /\ \A g \in FindFilesToPrune(info', last) : g < last /\ info'[g].high + Keep <= tip
      BY <1>0, <2>3, FilesToPrune, Zenon
    <3>2. \A g \in FindFilesToPrune(info', last) : info'[g].high = info[g].high
      BY <2>3, <3>1, Zenon
    <3> QED BY <3>1, <3>2, Zenon DEF Prunable
  <2>4. \A c \in Blocks : c <= best' => c <= tip \/ c <= best \/ index[c].data
    <3>1. \A c \in Blocks : c <= b => c <= tip \/ c = b
      BY <1>0 DEF TypeOK, Blocks, b
    <3> QED BY <1>0, <1>4, <3>1, Zenon
  <2>5. UNCHANGED <<last, tip, blk, present, world>> /\ best' \in Blocks /\ stopping' \in BOOLEAN
    BY <1>0, <1>1, <1>4, Zenon DEF TypeOK
  <2> QED BY <1>0, <1>4, <2>1, <2>2, <2>3, <2>4, <2>5, EnterKeeps, Zenon
<1>5. CASE /\ info' = [info EXCEPT ![f].undo = @ + 1]
           /\ dirtyInfo' = dirtyInfo \cup {f}
           /\ UNCHANGED <<rev, index, dirtyIndex, best, blk, present, disk, pc, toPrune, full>>
  <2>1. TypeOK'
    BY <1>0, <1>1, <1>2, <1>5, Zenon DEF TypeOK
  <2>2. Quiet
    BY <1>0, <1>1, <1>2, <1>5, Zenon DEF Quiet, Running
  <2>3. FlushInv'
    <3>1. \A g \in toPrune : info'[g].high = info[g].high
      BY <1>0, <1>2, <1>5, Zenon DEF TypeOK
    <3> QED BY <1>0, <1>1, <1>5, <3>1, Zenon DEF IInv, FlushInv
  <2> QED BY <2>1, <2>2, <2>3, QuietKeeps, Zenon DEF IInv
<1>6. CASE UNCHANGED <<info, dirtyInfo, rev, index, dirtyIndex, best, check,
                       blk, present, disk, pc, toPrune, full, left>>
  <2>1. TypeOK'
    BY <1>0, <1>1, <1>6, Zenon DEF TypeOK
  <2>2. Quiet
    BY <1>0, <1>1, <1>6, Zenon DEF Quiet, Running
  <2>3. FlushInv'
    BY <1>0, <1>1, <1>6, Zenon DEF IInv, FlushInv
  <2> QED BY <2>1, <2>2, <2>3, QuietKeeps, Zenon DEF IInv
<1> QED BY <1>4, <1>5, <1>6, Zenon DEF Connect, b, f

-----------------------------------------------------------------------------
(* The steps of a flush.                                                   *)

\* Giving up, with the entries and the files as they are.
LEMMA GiveUpKeeps ==
  ASSUME IInv, Running, GiveUp, UNCHANGED <<memory, disk, blk, present, stopping, world>>
  PROVE  IInv'
<1>1. TypeOK /\ pc' \in {"run", "down"} /\ toPrune' = {} /\ full' = FALSE
  BY Zenon DEF GiveUp, IInv
<1>2. UNCHANGED <<index, dirtyIndex, info, dirtyInfo, last, tip, best>>
  BY Zenon DEF memory
<1>3. TypeOK'
  BY <1>1, <1>2, Zenon DEF TypeOK
<1>4. Quiet
  BY <1>1, <1>2, Zenon DEF Quiet
<1>5. FlushInv'
  BY <1>1 DEF FlushInv
<1> QED BY <1>3, <1>4, <1>5, QuietKeeps, Zenon DEF IInv

\* FlushBlockFile makes the current file durable and cuts it at its size.
LEMMA FlushedIs ==
  ASSUME TypeOK, NEW finalize \in BOOLEAN, NEW new, new = FlushedBlk(finalize)
  PROVE  /\ new \in [Files -> Seq(Record)]
         /\ \A f \in Files : f # last => new[f] = blk[f]
         /\ \A p \in Nat : p < Len(blk[last]) /\ (finalize => p < info[last].size) =>
                p < Len(new[last]) /\ new[last][p + 1].b = blk[last][p + 1].b /\ new[last][p + 1].sync
<1> DEFINE old == blk[last]
           cut == IF finalize THEN Truncated(old, info[last].size) ELSE old
           s == Synced(cut)
<1>1. old \in Seq(Record) /\ info[last].size \in Nat /\ last \in Files
  BY DEF TypeOK, Info
<1>2. new = [blk EXCEPT ![last] = s]
  BY Zenon DEF FlushedBlk
<1> HIDE DEF old
<1>3. cut \in Seq(Record) /\ \A p \in Nat : p < Len(old) /\ (finalize => p < info[last].size) =>
                               p < Len(cut) /\ cut[p + 1] = old[p + 1]
  BY <1>1, TruncatedIs, Zenon
<1> HIDE DEF cut
<1>4. /\ s \in Seq(Record) /\ Len(s) = Len(cut)
      /\ \A p \in Nat : p < Len(cut) => s[p + 1].b = cut[p + 1].b /\ s[p + 1].sync
  BY <1>3, SyncedIs, Zenon
<1> HIDE DEF s
<1>5. new \in [Files -> Seq(Record)] /\ new[last] = s /\ \A f \in Files : f # last => new[f] = blk[f]
  BY <1>1, <1>2, <1>4, ZenonT(60) DEF TypeOK
<1>6. ASSUME NEW p \in Nat, p < Len(old), finalize => p < info[last].size
      PROVE  p < Len(s) /\ s[p + 1].b = old[p + 1].b /\ s[p + 1].sync
  BY <1>3, <1>4, <1>6, Zenon
<1> QED BY <1>5, <1>6, Zenon DEF old

LEMMA FlushSyncStep == ASSUME IInv, FlushSync, world' = world PROVE IInv'
<1>0. /\ TypeOK /\ Running /\ pc = "sync" /\ UNCHANGED <<memory, disk, stopping>>
      /\ UNCHANGED <<index, dirtyIndex, info, dirtyInfo, last, tip, best>>
  BY Zenon DEF FlushSync, IInv, Running, memory
<1>1. CASE GiveUp /\ UNCHANGED files
  BY <1>0, <1>1, GiveUpKeeps, Zenon DEF files
<1>2. CASE /\ pc' = "batch" /\ blk' = FlushedBlk(FALSE) /\ present' = present \cup {last}
           /\ UNCHANGED <<toPrune, full>>
  <2>1. /\ blk' \in [Files -> Seq(Record)]
        /\ \A f \in Files : f # last => blk'[f] = blk[f]
        /\ \A p \in Nat : p < Len(blk[last]) =>
               /\ p < Len(blk'[last]) /\ blk'[last][p + 1].b = blk[last][p + 1].b
               /\ blk'[last][p + 1].sync
    BY <1>0, <1>2, FlushedIs, Zenon
  <2>2. TypeOK'
    BY <1>0, <1>2, <2>1, Zenon DEF TypeOK
  <2>3. FlushInv'
    BY <1>0, <1>2 DEF IInv, FlushInv
  <2>4. LastInv'
    BY <1>0, <1>2, Zenon DEF IInv, LastInv
  <2>5. \A b \in Blocks : disk.index[b].data /\ disk.index[b].file \in present' =>
            disk.index[b].file \in present
    <3> SUFFICES ASSUME NEW b \in Blocks, disk.index[b].data, disk.index[b].file = last
                 PROVE  last \in present
      BY <1>2, Zenon
    <3>1. last <= disk.last /\ disk.last <= last /\ disk.last \in present
      BY Zenon DEF IInv, LastInv
    <3>2. last \in Nat /\ disk.last \in Nat
      BY <1>0 DEF TypeOK, Files
    <3> QED BY <3>1, <3>2
  <2>6. FitInv'
    <3>1. Running'
      BY <1>2 DEF Running
    <3> QED BY <1>0, <1>2, <2>5, <3>1, Zenon DEF IInv, FitInv
  <2>7. FileInv'
    BY <1>0, <1>2, Zenon DEF IInv, FileInv
  <2>8. ASSUME NEW e \in Entry, NEW b \in Blocks, Stored(e, b)
        PROVE  Stored(e, b)' /\ (e.file = last \/ Durable(e) => Durable(e)')
    <3>1. e.pos \in Nat /\ e.file \in Files /\ e.pos < Len(blk[e.file]) /\ blk[e.file][e.pos + 1].b = b
      BY <2>8 DEF Stored, ReadAt, Entry
    <3> QED BY <2>1, <3>1, Zenon DEF Stored, ReadAt, Durable
  <2>9. ReadInv'
    <3> SUFFICES ASSUME "write" \notin world'.faults
                 PROVE  /\ \A b \in Blocks : index[b].data => index[b].file \in present'
                        /\ \A b \in Blocks :
                              index[b].data => Stored(index[b], b)' /\ Durable(index[b])'
                        /\ \A b \in Blocks :
                              disk.index[b].data /\ disk.index[b].file \in present' =>
                                 Stored(disk.index[b], b)' /\ Durable(disk.index[b])'
      BY <1>0, Zenon DEF ReadInv
    <3>1. "write" \notin world.faults
      OBVIOUS
    <3>2. \A b \in Blocks : index[b] \in Entry /\ disk.index[b] \in Entry
      BY <1>0 DEF TypeOK
    <3>3. \A b \in Blocks : index[b].data => index[b].file \in present /\ index[b].file \in present'
      BY <1>0, <1>2, <3>1, Zenon DEF IInv, ReadInv
    <3>4. \A b \in Blocks : index[b].data =>
              Stored(index[b], b) /\ (index[b].file = last \/ Durable(index[b]))
      BY <3>1, <3>3, Zenon DEF IInv, ReadInv
    <3>5. \A b \in Blocks : disk.index[b].data /\ disk.index[b].file \in present' =>
              Stored(disk.index[b], b) /\ Durable(disk.index[b])
      BY <2>5, <3>1, Zenon DEF IInv, ReadInv
    <3>6. \A b \in Blocks : index[b]' = index[b] /\ disk.index[b]' = disk.index[b]
      BY <1>0, Zenon
    <3>7. ASSUME NEW b \in Blocks, index[b].data
          PROVE  Stored(index[b], b)' /\ Durable(index[b])'
      BY <2>8, <3>2, <3>4, <3>6, <3>7, Zenon DEF Stored, Durable
    <3>8. ASSUME NEW b \in Blocks, disk.index[b].data, disk.index[b].file \in present'
          PROVE  Stored(disk.index[b], b)' /\ Durable(disk.index[b])'
      BY <2>8, <3>2, <3>5, <3>6, <3>8, Zenon DEF Stored, Durable
    <3> QED BY <3>3, <3>7, <3>8, Zenon
  <2>10. TxInv'
    BY <1>0, <1>2, Zenon DEF IInv, TxInv
  <2> QED BY <2>2, <2>3, <2>4, <2>6, <2>7, <2>9, <2>10, Zenon DEF IInv
<1> QED BY <1>1, <1>2, Zenon DEF FlushSync

\* WriteBatchSync: the entries and the file information go to the database together.
LEMMA FlushBatchStep == ASSUME IInv, FlushBatch, world' = world PROVE IInv'
<1>0. /\ TypeOK /\ Running /\ pc = "batch" /\ dirtyIndex' = {} /\ dirtyInfo' = {}
      /\ UNCHANGED <<index, info, last, tip, best, files, stopping>> /\ blk' = blk /\ present' = present
  BY Zenon DEF FlushBatch, IInv, Running, files
<1>1. CASE "batch" \in world.faults /\ GiveUp /\ UNCHANGED disk
  <2>1. pc' \in {"run", "down"} /\ toPrune' = {} /\ full' = FALSE
    BY <1>1, Zenon DEF GiveUp
  <2>2. TypeOK'
    BY <1>0, <1>1, <2>1, Zenon DEF TypeOK
  <2>3. FlushInv'
    BY <2>1 DEF FlushInv
  <2>4. LastInv' /\ FileInv'
    BY <1>0, <1>1, Zenon DEF IInv, LastInv, FileInv
  <2>5. FitInv'
    BY <1>0, <1>1, Zenon DEF IInv, FitInv
  <2>6. ReadInv'
    BY <1>0, <1>1, <2>1, Zenon DEF IInv, ReadInv, Stored, Durable
  <2>7. TxInv'
    BY <1>1, Zenon DEF TxInv
  <2> QED BY <2>2, <2>3, <2>4, <2>5, <2>6, <2>7, Zenon DEF IInv
<1>2. CASE /\ disk' = [disk EXCEPT
                !.index = [b \in Blocks |-> IF b \in dirtyIndex THEN index[b] ELSE @[b]],
                !.info  = [f \in Files |-> IF f \in dirtyInfo THEN info[f] ELSE @[f]],
                !.last  = last]
           /\ pc' = IF full THEN "unlink" ELSE "end"
           /\ UNCHANGED <<toPrune, full>>
  <2>1. /\ disk'.index = [b \in Blocks |-> IF b \in dirtyIndex THEN index[b] ELSE disk.index[b]]
        /\ disk'.info = [f \in Files |-> IF f \in dirtyInfo THEN info[f] ELSE disk.info[f]]
        /\ disk'.last = last /\ disk'.coins = disk.coins /\ disk'.pruned = disk.pruned
        /\ disk' \in [index : [Blocks -> Entry], info : [Files -> Info], last : Files,
                      coins : Blocks, pruned : BOOLEAN]
    BY <1>0, <1>2, Zenon DEF TypeOK
  <2>2. /\ \A b \in dirtyIndex : disk'.index[b] = index[b]
        /\ \A b \in Blocks : b \notin dirtyIndex => disk'.index[b] = disk.index[b]
        /\ \A f \in dirtyInfo : disk'.info[f] = info[f]
        /\ \A f \in Files : f \notin dirtyInfo => disk'.info[f] = disk.info[f]
    BY <1>0, <2>1, Zenon DEF TypeOK
  <2>3. TypeOK'
    BY <1>0, <1>2, <2>1, Zenon DEF TypeOK
  <2>4. FlushInv'
    BY <1>0, <1>2, <2>1, Zenon DEF IInv, FlushInv
  <2>5. LastInv'
    <3>1. disk.last <= last /\ disk.last \in Int /\ last \in Int /\ last \in present
      BY <1>0 DEF IInv, LastInv, FlushInv, TypeOK, Files
    <3>2. ASSUME NEW b \in Blocks, disk'.index[b].data PROVE disk'.index[b].file <= last
      <4>1. CASE b \in dirtyIndex
        BY <2>2, <3>2, <4>1, Zenon DEF IInv, LastInv
      <4>2. CASE b \notin dirtyIndex
        <5>1. disk.index[b].file <= disk.last /\ disk'.index[b].file = disk.index[b].file
          BY <2>2, <3>2, <4>2, Zenon DEF IInv, LastInv
        <5>2. disk.index[b].file \in Int
          BY <1>0 DEF TypeOK, Entry, Files
        <5> QED BY <3>1, <5>1, <5>2
      <4> QED BY <4>1, <4>2
    <3>3. \A b \in Blocks : index'[b].data => index'[b].file <= last'
      BY <1>0, Zenon DEF IInv, LastInv
    <3>4. last <= last
      BY <3>1
    <3> QED BY <1>0, <2>1, <3>1, <3>2, <3>3, <3>4, ZenonT(60) DEF LastInv
  <2>6. FitInv'
    <3>1. ASSUME Running', NEW b \in Blocks, index'[b].data
          PROVE  Fits(info[index[b].file], index[b], b)'
      BY <1>0, <3>1, Zenon DEF IInv, FitInv, Fits
    <3>2. ASSUME NEW b \in Blocks, disk'.index[b].data, disk'.index[b].file \in present'
          PROVE  /\ Fits(info[disk'.index[b].file], disk'.index[b], b)
                 /\ Fits(disk'.info[disk'.index[b].file], disk'.index[b], b)
      <4>1. index[b].file \in Files /\ disk.index[b].file \in Files
        BY <1>0, Zenon DEF TypeOK, Entry
      <4>2. CASE b \in dirtyIndex
        <5>1. disk'.index[b] = index[b] /\ Fits(info[index[b].file], index[b], b)
          BY <1>0, <2>2, <3>2, <4>2, Zenon DEF IInv, FitInv
        <5>2. Fits(disk'.info[index[b].file], index[b], b)
          BY <2>2, <3>2, <4>1, <4>2, <5>1, Zenon DEF IInv, FitInv
        <5> QED BY <5>1, <5>2, Zenon
      <4>3. CASE b \notin dirtyIndex
        <5>1. /\ disk'.index[b] = disk.index[b] /\ Fits(info[disk.index[b].file], disk.index[b], b)
              /\ Fits(disk.info[disk.index[b].file], disk.index[b], b)
          BY <1>0, <2>2, <3>2, <4>3, Zenon DEF IInv, FitInv
        <5>2. Fits(disk'.info[disk.index[b].file], disk.index[b], b)
          <6>1. CASE disk.index[b].file \in dirtyInfo
            BY <2>2, <5>1, <6>1, Zenon
          <6>2. CASE disk.index[b].file \notin dirtyInfo
            BY <2>2, <4>1, <5>1, <6>2, Zenon
          <6> QED BY <6>1, <6>2
        <5> QED BY <5>1, <5>2, Zenon
      <4> QED BY <4>2, <4>3
    <3> QED BY <1>0, <3>1, <3>2, Zenon DEF FitInv
  <2>7. FileInv'
    <3> SUFFICES ASSUME NEW f \in Files, (info[f].size > 0 /\ f # last) \/ disk'.info[f].size > 0
                 PROVE  f \in present \/ disk.pruned
      BY <1>0, <2>1, Zenon DEF FileInv
    <3>1. last \in present
      BY <1>0, Zenon DEF IInv, FlushInv
    <3> QED BY <2>2, <3>1, Zenon DEF IInv, FileInv
  <2>8. ReadInv'
    <3>1. pc' # "batch"
      BY <1>2
    <3>2. Running'
      BY <1>2 DEF Running
    <3> SUFFICES ASSUME "write" \notin world.faults, NEW b \in Blocks
                 PROVE  /\ index[b].data => index[b].file \in present
                        /\ index[b].data => Stored(index[b], b) /\ Durable(index[b])
                        /\ disk'.index[b].data /\ disk'.index[b].file \in present =>
                               Stored(disk'.index[b], b) /\ Durable(disk'.index[b])
      BY <1>0, <3>1, <3>2, Zenon DEF ReadInv, Stored, Durable
    <3>3. /\ index[b].data => index[b].file \in present
          /\ index[b].data => Stored(index[b], b) /\ Durable(index[b])
          /\ disk.index[b].data /\ disk.index[b].file \in present =>
                 Stored(disk.index[b], b) /\ Durable(disk.index[b])
      BY <1>0, Zenon DEF IInv, ReadInv
    <3> QED BY <2>2, <3>3, Zenon
  <2>9. TxInv'
    <3> SUFFICES ASSUME "batch" \notin world.faults, NEW b \in Blocks
                 PROVE  /\ (index[b].data \/ b <= tip \/ b <= best) => index[b].tx
                        /\ (disk'.index[b].data \/ b <= disk.coins) => disk'.index[b].tx
                        /\ disk'.index[b].tx <=> index[b].tx
      BY <1>0, <2>1, Zenon DEF TxInv
    <3>1. /\ (index[b].data \/ b <= tip \/ b <= best) => index[b].tx
          /\ (disk.index[b].data \/ b <= disk.coins) => disk.index[b].tx
          /\ disk.index[b].tx => index[b].tx
          /\ index[b].tx /\ b \notin dirtyIndex => disk.index[b].tx
      BY Zenon DEF IInv, TxInv
    <3> QED BY <2>2, <3>1, Zenon
  <2> QED BY <2>3, <2>4, <2>5, <2>6, <2>7, <2>8, <2>9, Zenon DEF IInv
<1> QED BY <1>1, <1>2, Zenon DEF FlushBatch, Fault

\* UnlinkPrunedFiles removes the lowest of the files to prune.
LowestToPrune == CHOOSE g \in toPrune : \A h \in toPrune : g <= h

LEMMA LowestIs == ASSUME TypeOK, toPrune # {} PROVE LowestToPrune \in toPrune
<1>1. toPrune \in SUBSET Nat
  BY DEF TypeOK, Files
<1>2. \E g \in toPrune : \A h \in toPrune : g <= h
  BY <1>1, LeastNat, Zenon
<1> QED BY <1>2, Zenon DEF LowestToPrune

LEMMA FlushUnlinkStep == ASSUME IInv, FlushUnlink, world' = world PROVE IInv'
<1> DEFINE f == LowestToPrune
<1>0. /\ TypeOK /\ Running /\ pc = "unlink" /\ toPrune # {} /\ toPrune' = toPrune \ {f}
      /\ UNCHANGED <<last, tip, best, disk, pc, full, stopping>>
  BY Zenon DEF FlushUnlink, IInv, Running, LowestToPrune
<1>1. f \in toPrune /\ f \in Files
  BY <1>0, LowestIs, Zenon DEF TypeOK
<1> HIDE DEF f
<1>2. f < last /\ disk.last = last /\ disk.pruned /\ f # last
  <2>1. f < last /\ disk.last = last /\ disk.pruned
    BY <1>0, <1>1, ZenonT(60) DEF IInv, FlushInv
  <2> QED BY <1>0, <1>1, <2>1 DEF TypeOK, Files
<1>3. CASE /\ present' = present \ {f} /\ blk' = [blk EXCEPT ![f] = <<>>]
           /\ PruneOneBlockFile(f)
  <2>1. \A b \in Blocks : /\ index[b].file # f => index'[b] = index[b]
                          /\ index[b].file = f => index'[b] = NoData(index[b].tx)
    BY <1>3, Zenon DEF PruneOneBlockFile
  <2>2. /\ info' = [info EXCEPT ![f] = NoInfo] /\ dirtyInfo' = dirtyInfo \cup {f}
        /\ dirtyIndex' = dirtyIndex \cup {b \in Blocks : index[b].file = f}
    BY <1>3, Zenon DEF PruneOneBlockFile
  <2>0. \A t : NoData(t).tx = t /\ NoData(t).data = FALSE
    BY DEF NoData
  <2>3. \A b \in Blocks : index'[b].tx = index[b].tx
    BY <2>0, <2>1, Zenon
  <2>4. \A b \in Blocks : index'[b].data => index[b].file # f /\ index'[b] = index[b]
    BY <2>0, <2>1, Zenon
  <2>5. \A g \in Files : g # f => info'[g] = info[g] /\ blk'[g] = blk[g]
    BY <1>0, <1>3, <2>2, Zenon DEF TypeOK
  <2>6. TypeOK'
    <3>1. \A b \in Blocks : index'[b] \in Entry
      <4>1. 0 \in Files /\ 0 \in Nat
        BY KeepAssumption DEF Files
      <4>2. \A b \in Blocks : index[b] \in Entry /\ index[b].tx \in BOOLEAN
        BY <1>0, Zenon DEF TypeOK, Entry
      <4>3. \A t \in BOOLEAN : NoData(t) \in Entry
        BY <4>1, Zenon DEF NoData, Entry
      <4> QED BY <2>1, <4>2, <4>3, Zenon
    <3>2. index' \in [Blocks -> Entry]
      BY <1>3, <3>1, Zenon DEF PruneOneBlockFile
    <3>3. info' \in [Files -> Info]
      <4>1. NoInfo \in Info
        BY DEF NoInfo, Info
      <4> QED BY <1>0, <2>2, <4>1, Zenon DEF TypeOK
    <3>4. blk' \in [Files -> Seq(Record)]
      <4>1. <<>> \in Seq(Record)
        OBVIOUS
      <4> QED BY <1>0, <1>3, <4>1, Zenon DEF TypeOK
    <3>5. dirtyIndex' \subseteq Blocks /\ dirtyInfo' \subseteq Files /\ toPrune' \subseteq Files
      BY <1>0, <1>1, <2>2, Zenon DEF TypeOK
    <3> QED BY <1>0, <3>2, <3>3, <3>4, <3>5, Zenon DEF TypeOK
  <2>7. FlushInv'
    <3>1. \A g \in toPrune' : g \in toPrune /\ g # f /\ info'[g] = info[g]
      BY <1>0, <2>5, Zenon DEF TypeOK
    <3> QED BY <1>0, <3>1, Zenon DEF IInv, FlushInv
  <2>8. LastInv'
    BY <1>0, <1>2, <1>3, <2>4, Zenon DEF IInv, LastInv
  <2>9. \A b \in Blocks : index[b].file \in Files /\ disk.index[b].file \in Files
    BY <1>0, Zenon DEF TypeOK, Entry
  <2>10. FitInv'
    <3>1. ASSUME NEW b \in Blocks, index'[b].data PROVE Fits(info[index[b].file], index[b], b)'
      BY <1>0, <2>4, <2>5, <2>9, <3>1, ZenonT(60) DEF IInv, FitInv, Fits
    <3>2. ASSUME NEW b \in Blocks, disk.index[b].data, disk.index[b].file \in present'
          PROVE  /\ Fits(info[disk.index[b].file], disk.index[b], b)'
                 /\ Fits(disk.info[disk.index[b].file], disk.index[b], b)'
      <4>1. disk.index[b].file \in present /\ disk.index[b].file # f
        BY <1>3, <3>2, Zenon
      <4> QED BY <1>0, <2>5, <2>9, <3>2, <4>1, Zenon DEF IInv, FitInv, Fits
    <3>3. ASSUME NEW b \in dirtyIndex', index'[b].data, index'[b].file \notin dirtyInfo'
          PROVE  Fits(disk.info[index[b].file], index[b], b)'
      <4>1. b \in Blocks
        BY <1>0, <2>2, <3>3, Zenon DEF TypeOK
      <4>2. index[b].file # f /\ index'[b] = index[b]
        BY <2>4, <3>3, <4>1, Zenon
      <4>3. b \in dirtyIndex /\ index[b].file \notin dirtyInfo
        BY <2>2, <3>3, <4>2, Zenon
      <4>4. Fits(disk.info[index[b].file], index[b], b)
        BY <3>3, <4>2, <4>3, Zenon DEF IInv, FitInv
      <4> QED BY <1>0, <4>2, <4>4, Zenon DEF Fits
    <3> QED BY <1>0, <3>1, <3>2, <3>3, Zenon DEF FitInv
  <2>11. FileInv'
    BY <1>0, <1>2, Zenon DEF FileInv
  <2>12. ReadInv'
    <3> SUFFICES ASSUME "write" \notin world.faults, NEW b \in Blocks
                 PROVE  /\ index'[b].data => index'[b].file \in present'
                        /\ index'[b].data =>
                              Stored(index[b], b)' /\ (index'[b].file # last => Durable(index[b])')
                        /\ disk.index[b].data /\ disk.index[b].file \in present' =>
                              Stored(disk.index[b], b)' /\ Durable(disk.index[b])'
      BY <1>0, Zenon DEF ReadInv
    <3>1. /\ index[b].data => index[b].file \in present
          /\ index[b].data => Stored(index[b], b) /\ (index[b].file # last => Durable(index[b]))
          /\ disk.index[b].data /\ disk.index[b].file \in present =>
                Stored(disk.index[b], b) /\ Durable(disk.index[b])
      BY <1>0, Zenon DEF IInv, ReadInv
    <3>2. ASSUME index'[b].data
          PROVE  /\ index'[b].file \in present' /\ Stored(index[b], b)'
                 /\ index'[b].file # last => Durable(index[b])'
      <4>1. index[b].file # f /\ index'[b] = index[b] /\ blk'[index[b].file] = blk[index[b].file]
        BY <2>4, <2>5, <2>9, <3>2, Zenon
      <4>2. index[b].file \in present'
        BY <1>3, <3>1, <3>2, <4>1, Zenon
      <4> QED BY <3>1, <3>2, <4>1, <4>2, Zenon DEF Stored, Durable
    <3>3. ASSUME disk.index[b].data, disk.index[b].file \in present'
          PROVE  Stored(disk.index[b], b)' /\ Durable(disk.index[b])'
      <4>1. disk.index[b].file \in present /\ disk.index[b].file # f
        BY <1>3, <3>3, Zenon
      <4> QED BY <1>0, <2>5, <2>9, <3>1, <3>3, <4>1, Zenon DEF Stored, Durable
    <3> QED BY <3>2, <3>3, Zenon
  <2>13. TxInv'
    <3>1. \A b \in Blocks : index'[b].data => index[b].data
      BY <2>4, Zenon
    <3> QED BY <1>0, <2>3, <3>1, Zenon DEF IInv, TxInv
  <2> QED BY <2>6, <2>7, <2>8, <2>10, <2>11, <2>12, <2>13, Zenon DEF IInv
<1>4. CASE UNCHANGED <<files, index, dirtyIndex, info, dirtyInfo>>
  <2>1. UNCHANGED <<blk, present>>
    BY <1>4, Zenon DEF files
  <2>2. TypeOK' /\ FlushInv'
    BY <1>0, <1>4, <2>1, Zenon DEF IInv, TypeOK, FlushInv
  <2>3. LastInv' /\ FitInv' /\ FileInv' /\ ReadInv' /\ TxInv'
    BY <1>0, <1>4, <2>1, Zenon DEF IInv, LastInv, FitInv, FileInv, ReadInv, TxInv, Running,
       Stored, Durable, Fits
  <2> QED BY <2>2, <2>3, Zenon DEF IInv
<1> QED BY <1>3, <1>4, Zenon DEF FlushUnlink, f, LowestToPrune

\* pcoinsTip->Flush() writes the best block, whose entry is in the database by now.
LEMMA FlushCoinsStep == ASSUME IInv, FlushCoins, world' = world PROVE IInv'
<1>0. /\ TypeOK /\ Running /\ pc = "unlink" /\ toPrune = {} /\ UNCHANGED <<memory, files, stopping>>
      /\ UNCHANGED <<index, dirtyIndex, info, dirtyInfo, last, tip, best, blk, present>>
  BY Zenon DEF FlushCoins, IInv, Running, memory, files
<1>1. CASE GiveUp /\ UNCHANGED disk
  BY <1>0, <1>1, GiveUpKeeps, Zenon
<1>2. CASE disk' = [disk EXCEPT !.coins = best] /\ pc' = "end" /\ UNCHANGED <<toPrune, full>>
  <2>1. /\ disk'.index = disk.index /\ disk'.info = disk.info /\ disk'.last = disk.last
        /\ disk'.coins = best /\ disk'.pruned = disk.pruned
        /\ disk' \in [index : [Blocks -> Entry], info : [Files -> Info], last : Files,
                      coins : Blocks, pruned : BOOLEAN]
    BY <1>0, <1>2, Zenon DEF TypeOK
  <2>2. TypeOK'
    BY <1>0, <1>2, <2>1, Zenon DEF TypeOK
  <2>3. FlushInv'
    BY <1>0, <1>2 DEF FlushInv
  <2>4. LastInv' /\ FileInv'
    BY <1>0, <2>1, Zenon DEF IInv, LastInv, FileInv
  <2>5. FitInv'
    BY <1>0, <2>1, Zenon DEF IInv, FitInv
  <2>6. ReadInv'
    BY <1>0, <1>2, <2>1, Zenon DEF IInv, ReadInv, Stored, Durable
  <2>7. TxInv'
    <3> SUFFICES ASSUME "batch" \notin world.faults, NEW b \in Blocks
                 PROVE  /\ (index[b].data \/ b <= tip \/ b <= best) => index[b].tx
                        /\ (disk.index[b].data \/ b <= best) => disk.index[b].tx
                        /\ disk.index[b].tx => index[b].tx
                        /\ index[b].tx => disk.index[b].tx
      BY <1>0, <1>2, <2>1, Zenon DEF TxInv
    <3> QED BY <1>0, Zenon DEF IInv, TxInv
  <2> QED BY <2>2, <2>3, <2>4, <2>5, <2>6, <2>7, Zenon DEF IInv
<1> QED BY <1>1, <1>2, Zenon DEF FlushCoins

LEMMA FlushEndStep == ASSUME IInv, FlushEnd, world' = world PROVE IInv'
<1>0. /\ TypeOK /\ Running /\ pc = "end" /\ tip' = best /\ pc' \in {"run", "down"} /\ full' = FALSE
      /\ UNCHANGED <<index, dirtyIndex, info, dirtyInfo, last, best, disk, blk, present, toPrune, stopping>>
  BY Zenon DEF FlushEnd, IInv, Running, files
<1>1. toPrune = {}
  BY <1>0 DEF IInv, FlushInv
<1>2. TypeOK'
  BY <1>0, Zenon DEF TypeOK
<1>3. Quiet
  BY <1>0, Zenon DEF Quiet
<1>4. FlushInv'
  BY <1>0, <1>1 DEF FlushInv
<1> QED BY <1>2, <1>3, <1>4, QuietKeeps, Zenon DEF IInv

-----------------------------------------------------------------------------
(* A crash and the restart after it.                                       *)

\* The databases loaded again, over files in which what they point to is as it was.
LEMMA ReloadKeeps ==
  ASSUME IInv, Reload, UNCHANGED <<disk, present, world>>,
         toPrune' = {}, full' \in BOOLEAN, stopping' = FALSE,
         pc' \in {"down", "prune", "failed"},
         pc' = "prune" => \A b \in Blocks : disk.index[b].data => disk.index[b].file \in present,
         blk' \in [Files -> Seq(Record)],
         \A b \in Blocks : disk.index[b].data /\ Stored(disk.index[b], b) /\ Durable(disk.index[b]) =>
             Stored(disk.index[b], b)' /\ Durable(disk.index[b])'
  PROVE  IInv'
<1>0. /\ TypeOK /\ index' = disk.index /\ info' = disk.info /\ last' = disk.last
      /\ dirtyIndex' = {} /\ dirtyInfo' = {} /\ tip' = disk.coins /\ best' = disk.coins
  BY Zenon DEF Reload, IInv
<1>1. TypeOK'
  BY <1>0, Zenon DEF TypeOK
<1>2. FlushInv'
  BY DEF FlushInv
<1>3. LastInv'
  <2>1. disk.last <= disk.last
    BY <1>0 DEF TypeOK, Files
  <2> QED BY <1>0, <2>1, Zenon DEF IInv, LastInv
<1>4. FitInv'
  <2>1. Running' => pc' = "prune"
    BY DEF Running
  <2>2. ASSUME NEW b \in Blocks, disk.index[b].data, disk.index[b].file \in present
        PROVE  Fits(disk.info[disk.index[b].file], disk.index[b], b)
    BY <2>2, Zenon DEF IInv, FitInv
  <2> QED BY <1>0, <2>1, <2>2, Zenon DEF FitInv
<1>5. FileInv'
  BY <1>0, Zenon DEF IInv, FileInv
<1>6. ReadInv'
  <2>1. Running' => pc' = "prune"
    BY DEF Running
  <2> SUFFICES ASSUME "write" \notin world.faults, NEW b \in Blocks
               PROVE  /\ Running' => (disk.index[b].data => disk.index[b].file \in present)
                      /\ disk.index[b].data /\ disk.index[b].file \in present =>
                             Stored(disk.index[b], b)' /\ Durable(disk.index[b])'
    BY <1>0, Zenon DEF ReadInv, Stored, Durable
  <2>2. disk.index[b].data /\ disk.index[b].file \in present =>
            Stored(disk.index[b], b) /\ Durable(disk.index[b])
    BY Zenon DEF IInv, ReadInv
  <2> QED BY <2>1, <2>2, Zenon
<1>7. TxInv'
  BY <1>0, Zenon DEF IInv, TxInv
<1> QED BY <1>1, <1>2, <1>3, <1>4, <1>5, <1>6, <1>7, Zenon DEF IInv

LEMMA CrashStep == ASSUME IInv, Crash, world' = world PROVE IInv'
<1>0. /\ TypeOK /\ Reload /\ UNCHANGED <<disk, present>> /\ toPrune' = {} /\ full' = FALSE
      /\ stopping' = FALSE /\ pc' = "down"
  BY Zenon DEF Crash, IInv
<1>1. CASE blk' = blk
  <2>1. blk' \in [Files -> Seq(Record)]
    BY <1>0, <1>1, Zenon DEF TypeOK
  <2> QED BY <1>0, <1>1, <2>1, ReloadKeeps, Zenon DEF Stored, Durable
<1>2. CASE blk' = [f \in Files |-> AfterPowerLoss(blk[f])]
  <2>1. \A f \in Files : blk[f] \in Seq(Record)
    BY <1>0 DEF TypeOK
  <2>2. blk' \in [Files -> Seq(Record)]
    BY <1>2, <2>1, PowerLossIs, Zenon
  <2>3. ASSUME NEW b \in Blocks, Stored(disk.index[b], b), Durable(disk.index[b])
        PROVE  Stored(disk.index[b], b)' /\ Durable(disk.index[b])'
    <3> DEFINE e == disk.index[b]
    <3>1. e.file \in Files /\ e.pos \in Nat /\ disk'.index[b] = e
      BY <1>0, Zenon DEF TypeOK, Entry
    <3> HIDE DEF e
    <3>2. e.pos < Len(blk[e.file]) /\ blk[e.file][e.pos + 1].b = b /\ blk[e.file][e.pos + 1].sync
      BY <2>3, Zenon DEF Stored, ReadAt, Durable, e
    <3>3. /\ e.pos < Len(AfterPowerLoss(blk[e.file]))
          /\ AfterPowerLoss(blk[e.file])[e.pos + 1] = blk[e.file][e.pos + 1]
      BY <2>1, <3>1, <3>2, PowerLossIs, Zenon
    <3>4. blk'[e.file] = AfterPowerLoss(blk[e.file])
      BY <1>2, <3>1, Zenon
    <3> QED BY <3>1, <3>2, <3>3, <3>4, Zenon DEF Stored, ReadAt, Durable, e
  <2> QED BY <1>0, <2>2, <2>3, ReloadKeeps, Zenon
<1> QED BY <1>1, <1>2, Zenon DEF Crash

LEMMA StartStep == ASSUME IInv, Start, world' = world PROVE IInv'
<1>0. /\ TypeOK /\ Reload /\ UNCHANGED <<disk, present, toPrune, full>> /\ blk' = blk
      /\ stopping' = FALSE /\ pc = "down" /\ pc' \in {"prune", "failed"} /\ (pc' = "prune" => Loads)
  BY DEF Start, IInv, files
<1>1. toPrune' = {}
  BY <1>0 DEF IInv, FlushInv
<1> QED BY <1>0, <1>1, ReloadKeeps, Zenon DEF Stored, Durable, Loads, TypeOK

-----------------------------------------------------------------------------
(* A block arrives.                                                        *)

\* Leaving a file and writing the next record keep every record below the size of its file, and
\* those of the file left become durable.
LEMMA AcceptFiles ==
  ASSUME TypeOK, NEW f \in Files, NEW b \in Blocks,
         NEW blk1, blk1 = IF f # last THEN FlushedBlk(TRUE) ELSE blk,
         NEW new, new = blk1 \/ new = [blk1 EXCEPT ![f] = PutAt(@, info[f].size, b)]
  PROVE  /\ new \in [Files -> Seq(Record)]
         /\ new = [blk1 EXCEPT ![f] = PutAt(@, info[f].size, b)] => ReadAt(new[f], info[f].size, b)
         /\ \A e \in Entry, c \in Blocks :
               ReadAt(blk[e.file], e.pos, c) /\ e.pos < info[e.file].size =>
                  /\ ReadAt(new[e.file], e.pos, c)
                  /\ blk[e.file][e.pos + 1].sync \/ (f # last /\ e.file = last) =>
                         new[e.file][e.pos + 1].sync
<1>1. /\ blk1 \in [Files -> Seq(Record)]
      /\ \A e \in Entry, c \in Blocks :
            ReadAt(blk[e.file], e.pos, c) /\ e.pos < info[e.file].size =>
               /\ ReadAt(blk1[e.file], e.pos, c)
               /\ blk[e.file][e.pos + 1].sync \/ (f # last /\ e.file = last) =>
                      blk1[e.file][e.pos + 1].sync
  <2>1. CASE f = last
    BY <2>1, Zenon DEF TypeOK
  <2>2. CASE f # last
    <3>1. blk1 = FlushedBlk(TRUE)
      BY <2>2, Zenon
    <3>2. /\ blk1 \in [Files -> Seq(Record)]
          /\ \A g \in Files : g # last => blk1[g] = blk[g]
          /\ \A p \in Nat : p < Len(blk[last]) /\ p < info[last].size =>
                p < Len(blk1[last]) /\ blk1[last][p + 1].b = blk[last][p + 1].b /\ blk1[last][p + 1].sync
      BY <3>1, FlushedIs, Zenon
    <3>3. \A e \in Entry : e.file \in Files /\ e.pos \in Nat
      BY Zenon DEF Entry
    <3> QED BY <3>2, <3>3, Zenon DEF ReadAt
  <2> QED BY <2>1, <2>2, Zenon
<1>2. CASE new = blk1 /\ new # [blk1 EXCEPT ![f] = PutAt(@, info[f].size, b)]
  BY <1>1, <1>2, Zenon
<1>3. CASE new = [blk1 EXCEPT ![f] = PutAt(@, info[f].size, b)]
  <2> DEFINE pos == info[f].size
             rec == PutAt(blk1[f], pos, b)
  <2>1. pos \in Nat /\ blk1[f] \in Seq(Record)
    BY <1>1, Zenon DEF TypeOK, Info
  <2> HIDE DEF pos
  <2>2. /\ rec \in Seq(Record) /\ ReadAt(rec, pos, b)
        /\ \A p \in Nat : p # pos /\ p < Len(blk1[f]) => p < Len(rec) /\ rec[p + 1] = blk1[f][p + 1]
    BY <2>1, PutAtIs, ZenonT(60)
  <2> HIDE DEF rec
  <2>3. new = [blk1 EXCEPT ![f] = rec]
    BY <1>3, Zenon DEF rec, pos
  <2>4. new \in [Files -> Seq(Record)] /\ new[f] = rec /\ \A g \in Files : g # f => new[g] = blk1[g]
    BY <1>1, <2>2, <2>3, Zenon
  <2>5. ASSUME NEW e \in Entry, NEW c \in Blocks, ReadAt(blk1[e.file], e.pos, c),
               e.pos < info[e.file].size
        PROVE  ReadAt(new[e.file], e.pos, c) /\ new[e.file][e.pos + 1].sync = blk1[e.file][e.pos + 1].sync
    <3>1. e.file \in Files /\ e.pos \in Nat
      BY Zenon DEF Entry
    <3>2. CASE e.file = f
      <4>1. e.pos # pos
        BY <2>1, <2>5, <3>1, <3>2 DEF pos
      <4>2. e.pos < Len(blk1[f]) /\ blk1[f][e.pos + 1].b = c
        BY <2>5, <3>2, Zenon DEF ReadAt
      <4> QED BY <2>2, <2>4, <3>1, <3>2, <4>1, <4>2, Zenon DEF ReadAt
    <3>3. CASE e.file # f
      BY <2>4, <2>5, <3>1, <3>3, Zenon
    <3> QED BY <3>2, <3>3, Zenon
  <2> QED BY <1>1, <2>2, <2>4, <2>5, Zenon DEF pos
<1> QED BY <1>2, <1>3, Zenon

\* The entry a block gets: the next position of file f.
NewEntry(e, f) == [data |-> TRUE, undo |-> e.undo, file |-> f, pos |-> info[f].size,
                   upos |-> 0, tx |-> TRUE]

LEMMA BlockCounted ==
  ASSUME NEW i \in Info, NEW b \in Nat
  PROVE  /\ AddBlock(i, b) \in Info /\ i.size \in Nat /\ i.high \in Nat
         /\ AddBlock(i, b).size = i.size + 1
         /\ AddBlock(i, b).high >= i.high /\ AddBlock(i, b).high >= b
<1>1. i.size \in Nat /\ i.high \in Nat
  BY Zenon DEF Info
<1>2. Max2(i.high, b) \in Nat /\ Max2(i.high, b) >= i.high /\ Max2(i.high, b) >= b
  BY <1>1 DEF Max2
<1>3. PICK m \in Nat, n \in Nat : m = Max2(i.high, b) /\ n = i.size + 1
  BY <1>1, <1>2
<1>4. AddBlock(i, b) = [i EXCEPT !.size = n, !.high = m]
  BY <1>3, Zenon DEF AddBlock
<1>5. /\ [i EXCEPT !.size = n, !.high = m] \in Info
      /\ [i EXCEPT !.size = n, !.high = m].size = n
      /\ [i EXCEPT !.size = n, !.high = m].high = m
  BY Zenon DEF Info
<1> QED BY <1>1, <1>2, <1>3, <1>4, <1>5, Zenon

\* What every way through AcceptBlock has in common.
LEMMA AcceptKeeps ==
  ASSUME IInv, TypeOK', FlushInv', Running, NEW b \in Blocks, NEW f \in Files,
         ~index[b].data, last <= f, last' = f, pc' \notin {"batch", "unlink"},
         info' = [info EXCEPT ![f] = AddBlock(@, b)],
         UNCHANGED <<tip, best, world>>,
         disk'.index = disk.index, disk'.info = disk.info, disk'.last = disk.last,
         disk'.coins = disk.coins, disk.pruned => disk'.pruned,
         present \subseteq present', present' \subseteq present \cup {last, f},
         f # last => last \in present',
         \A c \in Blocks : c # b => index'[c] = index[c],
         dirtyIndex \subseteq dirtyIndex', dirtyIndex' \subseteq dirtyIndex \cup {b},
         dirtyInfo \subseteq dirtyInfo',
         \/ index'[b] = index[b] /\ dirtyIndex' = dirtyIndex
         \/ index'[b] = NewEntry(index[b], f) /\ b \in dirtyIndex' /\ f \in dirtyInfo',
         "write" \notin world.faults /\ index'[b].data =>
             f \in present' /\ ReadAt(blk'[f], info[f].size, b),
         \A e \in Entry, c \in Blocks :
            ReadAt(blk[e.file], e.pos, c) /\ e.pos < info[e.file].size =>
               /\ ReadAt(blk'[e.file], e.pos, c)
               /\ blk[e.file][e.pos + 1].sync \/ (f # last /\ e.file = last) =>
                      blk'[e.file][e.pos + 1].sync
  PROVE  IInv'
<1>0. TypeOK /\ last \in Nat /\ f \in Nat /\ disk.last \in Nat /\ b \in Nat /\ disk.last <= last
  BY SMTT(60), Z3T(60) DEF IInv, TypeOK, Files, Blocks, LastInv
<1>1. /\ \A g \in Files : g # f => info'[g] = info[g]
      /\ info'[f].size = info[f].size + 1 /\ info'[f].high >= info[f].high /\ info'[f].high >= b
      /\ info[f].size \in Nat /\ info[f].high \in Nat
  <2>1. info'[f] = AddBlock(info[f], b) /\ info[f] \in Info /\ \A g \in Files : g # f => info'[g] = info[g]
    BY <1>0, Zenon DEF TypeOK
  <2>2. PICK i \in Info : i = info[f]
    BY <2>1, Zenon
  <2>3. /\ AddBlock(i, b).size = i.size + 1 /\ i.size \in Nat /\ i.high \in Nat
        /\ AddBlock(i, b).high >= i.high /\ AddBlock(i, b).high >= b
    BY <1>0, BlockCounted, ZenonT(60)
  <2> QED BY <2>1, <2>2, <2>3, Zenon
<1>2. ASSUME NEW g \in Files, NEW e \in Entry, NEW c \in Blocks, Fits(info[g], e, c)
      PROVE  Fits(info'[g], e, c)
  <2>1. e.pos \in Nat /\ c \in Nat /\ info'[f].high \in Nat
    BY SMTT(60), Z3T(60) DEF Entry, Blocks, TypeOK, Info
  <2>2. CASE g = f
    BY <1>1, <1>2, <2>1, <2>2 DEF Fits
  <2>3. CASE g # f
    BY <1>1, <1>2, <2>3, Zenon DEF Fits
  <2> QED BY <2>2, <2>3, SMTT(60), Z3T(60)
<1>3. \A c \in Blocks : index[c] \in Entry /\ disk.index[c] \in Entry /\ index[c].file \in Files
                        /\ disk.index[c].file \in Files
  BY <1>0, ZenonT(60) DEF TypeOK, Entry
<1>4. \A c \in Blocks : disk.index[c].data /\ disk.index[c].file \in present' =>
          disk.index[c].file \in present
  <2> SUFFICES ASSUME NEW c \in Blocks, disk.index[c].data, disk.index[c].file \in {last, f}
               PROVE  disk.index[c].file \in present
    BY Zenon
  <2>1. disk.index[c].file <= disk.last /\ disk.last \in present
    BY ZenonT(60) DEF IInv, LastInv
  <2>2. disk.index[c].file = disk.last
    BY <1>0, <2>1, SMTT(60), Z3T(60)
  <2> QED BY <2>1, <2>2, Zenon
<1>5. ASSUME index'[b].data
      PROVE  /\ index'[b].file = f /\ index'[b].pos = info[f].size /\ index'[b].tx
             /\ b \in dirtyIndex' /\ f \in dirtyInfo'
  BY <1>5 DEF NewEntry
<1>6. LastInv'
  <2>1. ASSUME NEW c \in Blocks, index'[c].data PROVE index'[c].file <= f
    <3>1. CASE c = b
      BY <1>0, <1>5, <2>1, <3>1, SMTT(60), Z3T(60)
    <3>2. CASE c # b
      <4>1. index'[c] = index[c] /\ index[c].file <= last /\ index[c].file \in Files
        BY <1>3, <2>1, <3>2, ZenonT(60) DEF IInv, LastInv
      <4> QED BY <1>0, <4>1 DEF Files
    <3> QED BY <3>1, <3>2, SMTT(60), Z3T(60)
  <2>2. disk.last <= f
    BY <1>0
  <2> QED BY <2>1, <2>2, ZenonT(60) DEF IInv, LastInv
<1>7. FitInv'
  <2>1. ASSUME NEW c \in Blocks, index'[c].data PROVE Fits(info[index[c].file], index[c], c)'
    <3>1. CASE c = b
      BY <1>0, <1>1, <1>5, <2>1, <3>1 DEF Fits
    <3>2. CASE c # b
      <4>1. index'[c] = index[c] /\ Fits(info[index[c].file], index[c], c)
        BY <2>1, <3>2, Zenon DEF IInv, FitInv
      <4>2. Fits(info'[index[c].file], index[c], c)
        BY <1>2, <1>3, <4>1, Zenon
      <4> QED BY <4>1, <4>2, Zenon
    <3> QED BY <3>1, <3>2, SMTT(60), Z3T(60)
  <2>2. ASSUME NEW c \in Blocks, disk'.index[c].data, disk'.index[c].file \in present'
        PROVE  /\ Fits(info[disk.index[c].file], disk.index[c], c)'
               /\ Fits(disk.info[disk.index[c].file], disk.index[c], c)'
    <3>1. /\ Fits(info[disk.index[c].file], disk.index[c], c)
          /\ Fits(disk.info[disk.index[c].file], disk.index[c], c)
      BY <1>4, <2>2, Zenon DEF IInv, FitInv
    <3>2. Fits(info'[disk.index[c].file], disk.index[c], c)
      BY <1>2, <1>3, <3>1, Zenon
    <3> QED BY <3>1, <3>2, Zenon
  <2>3. ASSUME NEW c \in dirtyIndex', index'[c].data, index'[c].file \notin dirtyInfo'
        PROVE  Fits(disk.info[index[c].file], index[c], c)'
    <3>1. c # b
      BY <1>5, <2>3, Zenon
    <3>2. c \in dirtyIndex /\ c \in Blocks
      BY <1>0, <2>3, <3>1, Zenon DEF TypeOK
    <3>3. index'[c] = index[c] /\ Fits(disk.info[index[c].file], index[c], c)
      BY <2>3, <3>1, <3>2, ZenonT(60) DEF IInv, FitInv
    <3> QED BY <3>3, Zenon
  <2> QED BY <2>1, <2>2, <2>3, ZenonT(60) DEF FitInv
<1>8. FileInv'
  <2> SUFFICES ASSUME NEW g \in Files, (info'[g].size > 0 /\ g # f) \/ disk.info[g].size > 0
               PROVE  g \in present' \/ disk.pruned
    BY Zenon DEF FileInv
  <2>1. CASE g = last /\ g # f
    BY <2>1, Zenon
  <2>2. CASE g # last \/ g = f
    BY <1>1, <2>2, Zenon DEF IInv, FileInv
  <2> QED BY <2>1, <2>2
<1>9. ReadInv'
  <2> SUFFICES ASSUME "write" \notin world.faults, NEW c \in Blocks
               PROVE  /\ index'[c].data => /\ index'[c].file \in present' /\ Stored(index[c], c)'
                                           /\ index'[c].file # f => Durable(index[c])'
                      /\ disk.index[c].data /\ disk.index[c].file \in present =>
                            Stored(disk.index[c], c)' /\ Durable(disk.index[c])'
    BY <1>4, ZenonT(60) DEF ReadInv
  <2>1. ASSUME index'[c].data
        PROVE  /\ index'[c].file \in present' /\ Stored(index[c], c)'
               /\ index'[c].file # f => Durable(index[c])'
    <3>1. CASE c = b
      BY <1>5, <2>1, <3>1, Zenon DEF Stored
    <3>2. CASE c # b
      <4>1. /\ index'[c] = index[c] /\ index[c].file \in present /\ Stored(index[c], c)
            /\ index[c].file # last => Durable(index[c])
        BY <2>1, <3>2, Zenon DEF IInv, ReadInv
      <4>2. Fits(info[index[c].file], index[c], c)
        BY <2>1, <4>1, Zenon DEF IInv, FitInv
      <4>3. /\ ReadAt(blk'[index[c].file], index[c].pos, c)
            /\ blk[index[c].file][index[c].pos + 1].sync \/ (f # last /\ index[c].file = last) =>
                   blk'[index[c].file][index[c].pos + 1].sync
        BY <1>3, <4>1, <4>2, Zenon DEF Stored, Fits
      <4> QED BY <4>1, <4>3, Zenon DEF Stored, Durable
    <3> QED BY <3>1, <3>2
  <2>2. ASSUME disk.index[c].data, disk.index[c].file \in present
        PROVE  Stored(disk.index[c], c)' /\ Durable(disk.index[c])'
    <3>1. /\ Stored(disk.index[c], c) /\ Durable(disk.index[c])
          /\ Fits(info[disk.index[c].file], disk.index[c], c)
      BY <2>2, Zenon DEF IInv, ReadInv, FitInv
    <3>2. /\ ReadAt(blk'[disk.index[c].file], disk.index[c].pos, c)
          /\ blk'[disk.index[c].file][disk.index[c].pos + 1].sync
      BY <1>3, <3>1, Zenon DEF Stored, Durable, Fits
    <3> QED BY <3>2, Zenon DEF Stored, Durable
  <2> QED BY <2>1, <2>2, Zenon
<1>10. TxInv'
  <2> SUFFICES ASSUME "batch" \notin world.faults, NEW c \in Blocks
               PROVE  /\ (index'[c].data \/ c <= tip \/ c <= best) => index'[c].tx
                      /\ (disk.index[c].data \/ c <= disk.coins) => disk.index[c].tx
                      /\ disk.index[c].tx => index'[c].tx
                      /\ index'[c].tx /\ c \notin dirtyIndex' => disk.index[c].tx
    BY Zenon DEF TxInv
  <2>1. /\ (index[c].data \/ c <= tip \/ c <= best) => index[c].tx
        /\ (disk.index[c].data \/ c <= disk.coins) => disk.index[c].tx
        /\ disk.index[c].tx => index[c].tx
        /\ index[c].tx /\ c \notin dirtyIndex => disk.index[c].tx
    BY Zenon DEF IInv, TxInv
  <2>2. CASE index'[c] = index[c]
    BY <2>1, <2>2, Zenon
  <2>3. CASE c = b /\ index'[b] = NewEntry(index[b], f) /\ b \in dirtyIndex'
    <3>1. NewEntry(index[b], f).tx
      BY DEF NewEntry
    <3> QED BY <2>1, <2>3, <3>1, ZenonT(60)
  <2> QED BY <2>2, <2>3, Zenon
<1> QED BY <1>6, <1>7, <1>8, <1>9, <1>10, ZenonT(60) DEF IInv

LEMMA AcceptBlockStep == ASSUME IInv, NEW b \in Blocks, AcceptBlock(b), world' = world PROVE IInv'
<1> DEFINE f == NextFile
           pos == info[f].size
           newInfo == [info EXCEPT ![f] = AddBlock(@, b)]
           chk == check \/ NewChunk(FindBlockPos.pos, BlockChunk)
           blk1 == IF f # last THEN FlushedBlk(TRUE) ELSE blk
           present1 == IF f # last THEN present \cup {last} ELSE present
           written == [blk1 EXCEPT ![f] = PutAt(@, pos, b)]
<1>0. /\ TypeOK /\ Running /\ pc = "run" /\ ~index[b].data /\ f \in Files /\ last <= f
      /\ last \in Files /\ FindBlockPos.pos = pos
      /\ info' = newInfo /\ last' = f /\ UNCHANGED <<tip, best, stopping>>
  <2>1. /\ TypeOK /\ pc = "run" /\ ~index[b].data /\ f <= MaxFile
        /\ info' = newInfo /\ last' = f /\ UNCHANGED <<tip, best, stopping>>
    BY Zenon DEF AcceptBlock, IInv
  <2>2. f \in Files /\ last <= f
    BY <2>1, NextFileIs
  <2>3. FindBlockPos.pos = pos
    BY DEF FindBlockPos
  <2> QED BY <2>1, <2>2, <2>3, Zenon DEF Running, TypeOK
<1>1. newInfo \in [Files -> Info] /\ pos \in Nat
  <2>1. info[f] \in Info /\ b \in Nat
    BY <1>0 DEF TypeOK, Blocks
  <2>2. AddBlock(info[f], b) \in Info /\ pos \in Nat
    BY <2>1, BlockCounted, Zenon
  <2> QED BY <1>0, <2>2, Zenon DEF TypeOK
<1>2. PICK old : old = blk1
  BY Zenon
<1>3. ASSUME blk' = blk1 \/ blk' = written
      PROVE  /\ blk' \in [Files -> Seq(Record)]
             /\ blk' = written => ReadAt(blk'[f], pos, b)
             /\ \A e \in Entry, c \in Blocks :
                   ReadAt(blk[e.file], e.pos, c) /\ e.pos < info[e.file].size =>
                      /\ ReadAt(blk'[e.file], e.pos, c)
                      /\ blk[e.file][e.pos + 1].sync \/ (f # last /\ e.file = last) =>
                             blk'[e.file][e.pos + 1].sync
  <2>1. PICK new : new = blk'
    BY Zenon
  <2>2. old = IF f # last THEN FlushedBlk(TRUE) ELSE blk
    BY <1>2, Zenon
  <2>3. new = old \/ new = [old EXCEPT ![f] = PutAt(@, info[f].size, b)]
    BY <1>2, <1>3, <2>1, Zenon
  <2>4. blk' = written => new = [old EXCEPT ![f] = PutAt(@, info[f].size, b)]
    BY <1>2, <2>1, Zenon
  <2> HIDE DEF f, pos, blk1, written
  <2>5. /\ new \in [Files -> Seq(Record)]
        /\ new = [old EXCEPT ![f] = PutAt(@, info[f].size, b)] => ReadAt(new[f], info[f].size, b)
        /\ \A e \in Entry, c \in Blocks :
              ReadAt(blk[e.file], e.pos, c) /\ e.pos < info[e.file].size =>
                 /\ ReadAt(new[e.file], e.pos, c)
                 /\ blk[e.file][e.pos + 1].sync \/ (f # last /\ e.file = last) =>
                        new[e.file][e.pos + 1].sync
    BY <1>0, <2>2, <2>3, AcceptFiles, ZenonT(60)
  <2> QED BY <2>1, <2>4, <2>5, Zenon DEF pos
<1>4. NewEntry(index[b], f) \in Entry
  BY <1>0, <1>1 DEF NewEntry, Entry, TypeOK
<1>5. /\ present \subseteq present1 /\ present1 \subseteq present \cup {last, f}
      /\ f # last => last \in present1
  BY Zenon
<1> HIDE DEF f, pos, newInfo, chk, blk1, present1, written
<1>6. CASE /\ blk' = blk1 /\ present' = present1
           /\ UNCHANGED <<index, dirtyIndex, dirtyInfo, disk, pc, toPrune, full>>
  <2>1. toPrune = {}
    BY <1>0, Zenon DEF IInv, FlushInv
  <2>2. TypeOK'
    BY <1>0, <1>1, <1>3, <1>5, <1>6, Zenon DEF TypeOK
  <2>3. FlushInv'
    BY <1>0, <1>6, <2>1, Zenon DEF FlushInv
  <2>4. UNCHANGED <<tip, best, world>> /\ pc' \notin {"batch", "unlink"}
    BY <1>0, <1>6, Zenon
  <2>5. info' = [info EXCEPT ![f] = AddBlock(@, b)] /\ \A c \in Blocks : ~index'[b].data
    BY <1>0, <1>6, Zenon DEF newInfo
  <2> QED BY <1>0, <1>3, <1>5, <1>6, <2>2, <2>3, <2>4, <2>5, AcceptKeeps, ZenonT(60) DEF pos
<1>7. CASE /\ \/ blk' = written /\ present' = present1 \cup {f}
              \/ Fault("write") /\ blk' = blk1 /\ present' = present1
           /\ index' = [index EXCEPT ![b] =
                 [data |-> TRUE, undo |-> @.undo, file |-> f, pos |-> FindBlockPos.pos,
                  upos |-> 0, tx |-> TRUE]]
           /\ dirtyIndex' = dirtyIndex \cup {b}
           /\ dirtyInfo' = dirtyInfo \cup {f}
           /\ IF chk THEN Enter(FindFilesToPrune(newInfo, f), FALSE, {"none"})
              ELSE UNCHANGED <<disk, pc, toPrune, full>>
  <2>1. /\ index' = [index EXCEPT ![b] = NewEntry(@, f)]
    BY <1>0, <1>7, Zenon DEF NewEntry, pos
  <2>2. /\ index' \in [Blocks -> Entry] /\ index'[b] = NewEntry(index[b], f)
        /\ \A c \in Blocks : c # b => index'[c] = index[c]
    BY <1>0, <1>4, <2>1, Zenon DEF TypeOK
  <2>3. /\ present \subseteq present' /\ present' \subseteq present \cup {last, f}
        /\ f # last => last \in present'
        /\ dirtyIndex' \subseteq Blocks /\ dirtyInfo' \subseteq Files
        /\ b \in dirtyIndex' /\ f \in dirtyInfo'
        /\ dirtyIndex \subseteq dirtyIndex' /\ dirtyIndex' \subseteq dirtyIndex \cup {b}
        /\ dirtyInfo \subseteq dirtyInfo'
    BY <1>0, <1>5, <1>7, Zenon DEF TypeOK
  <2>4. /\ blk' \in [Files -> Seq(Record)]
        /\ "write" \notin world.faults => f \in present' /\ ReadAt(blk'[f], pos, b)
    BY <1>3, <1>7, ZenonT(60) DEF Fault
  <2>5. /\ toPrune' \subseteq Files /\ \A g \in toPrune' : g < f /\ newInfo[g].high + Keep <= tip
        /\ full' \in BOOLEAN /\ pc' \in {"run", "sync", "end"}
        /\ toPrune' # {} => full' /\ disk'.pruned /\ pc' = "sync"
        /\ disk' \in [index : [Blocks -> Entry], info : [Files -> Info], last : Files,
                      coins : Blocks, pruned : BOOLEAN]
        /\ disk'.index = disk.index /\ disk'.info = disk.info /\ disk'.last = disk.last
        /\ disk'.coins = disk.coins /\ (disk.pruned => disk'.pruned)
    <3>1. CASE chk
      <4>1. /\ FindFilesToPrune(newInfo, f) \subseteq Files
            /\ \A g \in FindFilesToPrune(newInfo, f) : g < f /\ newInfo[g].high + Keep <= tip
        BY <1>0, <1>1, FilesToPrune, Zenon
      <4>2. Enter(FindFilesToPrune(newInfo, f), FALSE, {"none"})
        BY <1>7, <3>1, Zenon
      <4> QED BY <1>0, <4>1, <4>2, EnterIs, Zenon
    <3>2. CASE ~chk
      <4>1. toPrune = {}
        BY <1>0, Zenon DEF IInv, FlushInv
      <4> QED BY <1>0, <1>7, <3>2, <4>1, ZenonT(60) DEF TypeOK
    <3> QED BY <3>1, <3>2
  <2>6. TypeOK'
    BY <1>0, <1>1, <2>2, <2>3, <2>4, <2>5, ZenonT(60) DEF TypeOK
  <2>7. FlushInv'
    BY <1>0, <2>5, Zenon DEF FlushInv
  <2>8. UNCHANGED <<tip, best, world>> /\ pc' \notin {"batch", "unlink"}
    BY <1>0, <2>5, Zenon
  <2>9. info' = [info EXCEPT ![f] = AddBlock(@, b)]
    BY <1>0, Zenon DEF newInfo
  <2>10. \A e \in Entry, c \in Blocks :
            ReadAt(blk[e.file], e.pos, c) /\ e.pos < info[e.file].size =>
               /\ ReadAt(blk'[e.file], e.pos, c)
               /\ blk[e.file][e.pos + 1].sync \/ (f # last /\ e.file = last) =>
                      blk'[e.file][e.pos + 1].sync
    BY <1>3, <1>7, Zenon
  <2> QED BY <1>0, <2>2, <2>3, <2>4, <2>5, <2>6, <2>7, <2>8, <2>9, <2>10, AcceptKeeps, ZenonT(60) DEF pos
<1> QED BY <1>6, <1>7, Zenon DEF AcceptBlock, f, newInfo, chk, blk1, present1, written, pos, FindBlockPos

-----------------------------------------------------------------------------
(* The theorems.                                                           *)

LEMMA InitIInv == Init => IInv
<1> SUFFICES ASSUME Init PROVE IInv
  OBVIOUS
<1>0. 0 \in Blocks /\ 0 \in Files
  BY KeepAssumption DEF Blocks, Files
<1> DEFINE genesis == [data |-> TRUE, undo |-> FALSE, file |-> 0, pos |-> 0, upos |-> 0, tx |-> TRUE]
           first == AddBlock(NoInfo, 0)
           rec == [b |-> 0, sync |-> TRUE]
<1>1. /\ genesis \in Entry /\ NoData(FALSE) \in Entry /\ NoInfo \in Info /\ rec \in Record
      /\ genesis.data /\ genesis.tx /\ genesis.file = 0 /\ genesis.pos = 0
      /\ ~NoData(FALSE).data /\ ~NoData(FALSE).tx /\ NoInfo.size = 0 /\ NoInfo.high = 0
      /\ rec.b = 0 /\ rec.sync
  BY <1>0 DEF Entry, NoData, NoInfo, Info, Record
<1>2. first \in Info /\ first.size = 1 /\ first.high >= 0
  BY <1>1, BlockCounted, SMTT(60), Z3T(60)
<1>3. /\ index = [b \in Blocks |-> IF b = 0 THEN genesis ELSE NoData(FALSE)]
      /\ info = [f \in Files |-> IF f = 0 THEN first ELSE NoInfo]
      /\ disk = [index |-> index, info |-> info, last |-> 0, coins |-> 0, pruned |-> FALSE]
      /\ blk = [f \in Files |-> IF f = 0 THEN <<rec>> ELSE <<>>]
      /\ dirtyIndex = {} /\ dirtyInfo = {} /\ last = 0 /\ tip = 0 /\ best = 0
      /\ present = {0} /\ pc = "run" /\ toPrune = {} /\ full = FALSE /\ stopping = FALSE
  BY Zenon DEF Init
<1> HIDE DEF genesis, first, rec
<1>4. /\ index \in [Blocks -> Entry] /\ index[0] = genesis
      /\ \A b \in Blocks : b # 0 => index[b] = NoData(FALSE)
      /\ info \in [Files -> Info] /\ info[0] = first /\ \A f \in Files : f # 0 => info[f] = NoInfo
  BY <1>0, <1>1, <1>2, <1>3, ZenonT(60)
<1>5. /\ disk.index = index /\ disk.info = info /\ disk.last = 0 /\ disk.coins = 0
      /\ disk \in [index : [Blocks -> Entry], info : [Files -> Info], last : Files,
                   coins : Blocks, pruned : BOOLEAN]
  BY <1>0, <1>3, <1>4, SMTT(60), Z3T(60)
<1>6. <<rec>> \in Seq(Record) /\ Len(<<rec>>) = 1 /\ <<rec>>[1] = rec /\ <<>> \in Seq(Record)
  BY <1>1
<1>7. blk \in [Files -> Seq(Record)] /\ blk[0] = <<rec>>
  BY <1>0, <1>3, <1>6, Zenon
<1>8. ReadAt(blk[0], 0, 0) /\ blk[0][0 + 1].sync
  BY <1>1, <1>6, <1>7 DEF ReadAt
<1>9. TypeOK
  BY <1>0, <1>3, <1>4, <1>5, <1>7, Zenon DEF TypeOK
<1>10. \A b \in Blocks : index[b].data =>
           b = 0 /\ index[b].file = 0 /\ index[b].pos = 0 /\ index[b].file <= 0
  <2>1. index[0].file <= 0
    BY <1>1, <1>4
  <2> QED BY <1>1, <1>4, <2>1, Zenon
<1>11. Fits(info[0], index[0], 0) /\ 0 <= 0
  BY <1>1, <1>2, <1>4 DEF Fits
<1>12. FlushInv
  BY <1>3, Zenon DEF FlushInv
<1>13. LastInv
  <2>1. disk.last <= last /\ disk.last \in present
    BY <1>3, <1>5
  <2> QED BY <1>3, <1>5, <1>10, <2>1, ZenonT(60) DEF LastInv
<1>14. FitInv
  <2>1. \A b \in Blocks : index[b].data => Fits(info[index[b].file], index[b], b)
    BY <1>10, <1>11, Zenon
  <2> QED BY <1>3, <1>5, <2>1, Zenon DEF FitInv
<1>15. FileInv
  <2>1. \A f \in Files : info[f].size > 0 => f = 0
    BY <1>1, <1>4
  <2> QED BY <1>3, <1>5, <2>1, Zenon DEF FileInv
<1>16. ReadInv
  <2>1. \A b \in Blocks : index[b].data =>
            index[b].file \in present /\ Stored(index[b], b) /\ Durable(index[b])
    BY <1>3, <1>8, <1>10, Zenon DEF Stored, Durable
  <2> QED BY <1>5, <2>1, Zenon DEF ReadInv
<1>17. TxInv
  <2>1. \A b \in Blocks : b <= 0 => b = 0
    BY DEF Blocks
  <2> QED BY <1>0, <1>1, <1>3, <1>4, <1>5, <1>10, <2>1, ZenonT(60) DEF TxInv
<1> QED BY <1>9, <1>12, <1>13, <1>14, <1>15, <1>16, <1>17, ZenonT(60) DEF IInv

LEMMA NextIInv == IInv /\ [Next]_vars => IInv'
<1>1. ASSUME IInv, Next PROVE IInv'
  <2>1. world' = world /\ Step
    BY <1>1, Zenon DEF Next
  <2>2. CASE \E b \in Blocks : AcceptBlock(b)
    BY <1>1, <2>1, <2>2, AcceptBlockStep, Zenon
  <2>3. CASE \E h \in Blocks : PruneBlockchain(h)
    BY <1>1, <2>1, <2>3, PruneBlockchainStep, Zenon
  <2>4. CASE Connect \/ Disconnect \/ Periodic \/ Shutdown \/ PruneAndFlush
    BY <1>1, <2>1, <2>4, ConnectStep, DisconnectStep, PeriodicStep, ShutdownStep, PruneAndFlushStep, ZenonT(60)
  <2>5. CASE FlushSync \/ FlushBatch \/ FlushUnlink \/ FlushCoins \/ FlushEnd
    BY <1>1, <2>1, <2>5, FlushSyncStep, FlushBatchStep, FlushUnlinkStep, FlushCoinsStep, FlushEndStep, ZenonT(60)
  <2>6. CASE Crash \/ Start
    BY <1>1, <2>1, <2>6, CrashStep, StartStep, Zenon
  <2> QED BY <2>1, <2>2, <2>3, <2>4, <2>5, <2>6, Zenon DEF Step
<1>2. ASSUME IInv, UNCHANGED vars PROVE IInv'
  <2>1. UNCHANGED <<index, dirtyIndex, info, dirtyInfo, last, tip, best, disk, blk, present, pc,
                    toPrune, full, stopping, world>>
    BY <1>2, Zenon DEF vars, memory, files, flush
  <2>2. TypeOK' /\ FlushInv'
    BY <1>2, <2>1, Zenon DEF IInv, TypeOK, FlushInv
  <2>3. LastInv' /\ FileInv'
    BY <1>2, <2>1, Zenon DEF IInv, LastInv, FileInv
  <2>4. FitInv'
    BY <1>2, <2>1, Zenon DEF IInv, FitInv, Fits, Running
  <2>5. ReadInv'
    BY <1>2, <2>1, Zenon DEF IInv, ReadInv, Stored, Durable, Running
  <2>6. TxInv'
    BY <1>2, <2>1, Zenon DEF IInv, TxInv
  <2> QED BY <2>2, <2>3, <2>4, <2>5, <2>6, Zenon DEF IInv
<1> QED BY <1>1, <1>2, Zenon

\* The invariant of FindBlockPos, FlushStateToDisk, PruneOneBlockFile and LoadBlockIndexDB: no
\* entry points past the current file or past the size of its file, and files go missing only
\* from a directory marked as pruned, whatever fails and wherever the process is killed.
THEOREM BlockFilesInvariant == Spec => []IInv
<1> QED BY InitIInv, NextIInv, PTL DEF Spec

\* While the node runs, ReadBlockFromDisk finds every block whose index entry says it has data,
\* across prunes, crashes and power loss, unless a block write failed.
THEOREM IndexedBlocksAlwaysReadable == Spec => []IndexedBlocksReadable
<1>1. IInv => IndexedBlocksReadable
  <2> SUFFICES ASSUME IInv, Running, "write" \notin world.faults, NEW b \in Blocks, index[b].data
               PROVE  ReadBlockFromDisk(b)
    BY Zenon DEF IndexedBlocksReadable
  <2>1. index[b].file \in present /\ ReadAt(blk[index[b].file], index[b].pos, b)
    BY Zenon DEF IInv, ReadInv, Stored
  <2> QED BY <2>1, Zenon DEF ReadBlockFromDisk
<1> QED BY <1>1, BlockFilesInvariant, PTL

\* Wherever FlushStateToDisk is interrupted, what the block index database says is on the disk
\* is there and durable, the coins' best block is in the index, and a missing file is accounted
\* for by the prunedblockfiles flag.
THEOREM DatabaseAlwaysConsistent == Spec => []DatabaseConsistent
<1>1. IInv => DatabaseConsistent
  <2> SUFFICES ASSUME IInv PROVE DatabaseConsistent
    OBVIOUS
  <2>1. (\E f \in Files : disk.info[f].size > 0 /\ f \notin present) => disk.pruned
    BY Zenon DEF IInv, FileInv
  <2>2. ASSUME "batch" \notin world.faults PROVE disk.index[disk.coins].tx
    <3>1. disk.coins \in Blocks /\ disk.coins <= disk.coins
      BY DEF IInv, TypeOK, Blocks
    <3> QED BY <2>2, <3>1, Zenon DEF IInv, TxInv
  <2>3. ASSUME "write" \notin world.faults, NEW b \in Blocks, disk.index[b].data,
               disk.index[b].file \in present
        PROVE  /\ ReadAt(blk[disk.index[b].file], disk.index[b].pos, b)
               /\ blk[disk.index[b].file][disk.index[b].pos + 1].sync
    BY <2>3, Zenon DEF IInv, ReadInv, Stored, Durable
  <2> QED BY <2>1, <2>2, <2>3, Zenon DEF DatabaseConsistent
<1> QED BY <1>1, BlockFilesInvariant, PTL

\* PruneOneBlockFile drops no block closer than Keep (MIN_BLOCKS_TO_KEEP) to the tip.
THEOREM PruningKeepsRecent == Spec => PruneKeepsRecent
<1> DEFINE Recent == \A b \in Blocks :
             (Running /\ pc' \notin {"down", "failed"} /\ index[b].data /\ ~index'[b].data)
                 => b + Keep <= tip
<1>1. ASSUME IInv, [Next]_vars PROVE [Recent]_vars
  <2> SUFFICES ASSUME Step, NEW b \in Blocks, Running, pc' \notin {"down", "failed"},
                      index[b].data, ~index'[b].data
               PROVE  b + Keep <= tip
    BY <1>1, Zenon DEF Next
  <2>0. TypeOK
    BY <1>1, Zenon DEF IInv
  <2>1. ASSUME NEW c \in Blocks, AcceptBlock(c) PROVE FALSE
    <3>1. CASE UNCHANGED index
      BY <3>1, Zenon
    <3>2. CASE \E f, p : index' = [index EXCEPT ![c] =
                   [data |-> TRUE, undo |-> @.undo, file |-> f, pos |-> p, upos |-> 0, tx |-> TRUE]]
      <4>1. PICK e : index' = [index EXCEPT ![c] = e] /\ e.data
        BY <3>2
      <4> QED BY <2>0, <4>1, Zenon DEF TypeOK
    <3> QED BY <2>1, <3>1, <3>2, Zenon DEF AcceptBlock
  <2>2. CASE Connect
    <3>1. PICK f, c, u : UNCHANGED index \/ index' = [index EXCEPT ![c] = WithUndo(@, u)]
      BY <2>2, Zenon DEF Connect
    <3>2. index[b] \in Entry => WithUndo(index[b], u).data = index[b].data
      BY Zenon DEF Entry, WithUndo
    <3> QED BY <2>0, <3>1, <3>2, Zenon DEF TypeOK
  <2>3. CASE FlushUnlink
    <3>1. index[b].file \in toPrune
      <4>1. LowestToPrune \in toPrune
        BY <2>0, <2>3, LowestIs, Zenon DEF FlushUnlink
      <4>2. PruneOneBlockFile(LowestToPrune) \/ UNCHANGED index
        BY <2>3, Zenon DEF FlushUnlink, LowestToPrune
      <4> HIDE DEF LowestToPrune
      <4>3. index[b].file # LowestToPrune => index'[b] = index[b]
        BY <4>2, Zenon DEF PruneOneBlockFile
      <4> QED BY <4>1, <4>3, Zenon
    <3>2. b <= info[index[b].file].high /\ info[index[b].file].high + Keep <= tip
      BY <1>1, <3>1, ZenonT(60) DEF IInv, FlushInv, FitInv, Fits
    <3>3. info[index[b].file].high \in Nat /\ b \in Nat /\ tip \in Nat
      <4>1. index[b].file \in Files /\ tip \in Blocks
        BY <2>0, Zenon DEF TypeOK, Entry
      <4>2. info[index[b].file].high \in Nat
        BY <2>0, <4>1, Zenon DEF TypeOK, Info
      <4> QED BY <4>1, <4>2 DEF Blocks
    <3> QED BY <3>2, <3>3, KeepAssumption
  <2>4. CASE Start \/ Crash
    BY <2>4, Zenon DEF Start, Crash, Running
  <2>5. CASE \/ Disconnect \/ Periodic \/ Shutdown \/ PruneAndFlush \/ FlushSync \/ FlushBatch
             \/ FlushCoins \/ FlushEnd \/ \E h \in Blocks : PruneBlockchain(h)
    <3>1. UNCHANGED index
      BY <2>5, Zenon DEF Disconnect, Periodic, Shutdown, PruneAndFlush, FlushSync, FlushBatch,
                         FlushCoins, FlushEnd, PruneBlockchain, memory
    <3> QED BY <3>1, Zenon
  <2> QED BY <2>1, <2>2, <2>3, <2>4, <2>5, Zenon DEF Step
<1>2. [][Recent]_vars => PruneKeepsRecent
  BY DEF PruneKeepsRecent
<1> QED BY <1>1, <1>2, BlockFilesInvariant, PTL DEF Spec

=============================================================================
