------------------------------- MODULE Mempool -------------------------------
(***************************************************************************)
(* CTxMemPool and the mining journal it feeds: the links between entries,  *)
(* the ancestor and descendant statistics, mapNextTx, and the change sets  *)
(* through which the journal follows the mempool.                          *)
(*                                                                         *)
(* A transaction is a number; numbers are in the order of the hashes, the  *)
(* order of setEntries.  Every transaction has size 1, so sizes and        *)
(* signature operations behave like the counts; a fee is a small number    *)
(* and MinFee is what blockMinTxfee asks of one transaction.  Operations   *)
(* run under cs_main, one at a time.  The mempool is a record s:           *)
(*   tx: its entries; par, chi: mapLinks; ca, cd: counts with ancestors    *)
(*   and descendants; fa, fd: modified fees with them; fee: modified fees; *)
(*   next: mapNextTx; jr: the current journal; ops: the pending change     *)
(*   set; ok: no assertion has failed.                                     *)
(***************************************************************************)
EXTENDS Integers, FiniteSets, SequencesExt

CONSTANTS N,                \* transactions 1..N; 0 is confirmed
          Ins, NOuts, Fee,  \* inputs (outpoints), outputs, fees
          MinFee,           \* the fee a transaction needs to be mined
          MinHeight,        \* the chain length from which a transaction is final
          Coinbase,         \* transactions that exist in blocks only
          Blocks,           \* blocks: sequences of transactions
          Deltas,           \* fee deltas of prioritisetransaction
          MaxPool, Expiring, MaxChain

Tx == 1..N

VARIABLES s,                \* the mempool and its journal
          mapDeltas,        \* fee deltas
          chain,            \* the blocks of the active chain
          grown             \* no block has been disconnected so far

vars == <<s, mapDeltas, chain, grown>>

Outs(t) == {<<t, i>> : i \in 0..NOuts[t] - 1}
ParentsOf(t) == {op[1] : op \in Ins[t]}
Confirmed(c) == UNION {ToSet(c[i]) : i \in DOMAIN c}
Coins(c) == UNION {Outs(t) : t \in Confirmed(c) \cup {0}} \ UNION {Ins[t] : t \in Confirmed(c)}

(* Everything that the relation rel (a function to sets) reaches from S.   *)
Reach(rel, S) ==
  LET grow[D \in SUBSET Tx] ==
        LET E == D \cup UNION {rel[t] : t \in D} IN IF E = D THEN D ELSE grow[E]
  IN  grow[S]

Anc(m, t) == Reach(m.par, m.par[t])
Sum(f, S) == FoldSet(LAMBDA t, n : n + f[t], 0, S)
Lex(a, i, b, k) == a < b \/ (a = b /\ i < k)
InOrder(S) == SetToSortSeq(S, <)

-----------------------------------------------------------------------------
(* The journal.  A basic change set is applied after every operation, one  *)
(* for a block or a reorg when it is complete.  An operation refers to the *)
(* count of the entry, which outlives the entry: n is 0 while it lives.    *)
Journalled(m, t) == \E i \in DOMAIN m.jr : m.jr[i] = t
LastOp(m, t) ==
  LET mine == SelectSeq(m.ops, LAMBDA o : o.t = t)
  IN  IF mine = <<>> THEN "none" ELSE Last(mine).op

AddTo(j, t) == IF t \in ToSet(j) THEN j ELSE Append(j, t)
RemoveFrom(j, t) == SelectSeq(j, LAMBDA u : u # t)

AddOperation(m, op, t) ==
  IF m.reason = "basic"
  THEN [m EXCEPT !.jr = IF op = "add" THEN AddTo(@, t) ELSE RemoveFrom(@, t)]
  ELSE [m EXCEPT !.ops = Append(@, [op |-> op, t |-> t, n |-> 0])]

(* CJournalChangeSet::applyNL and CJournal::applyChanges.  The changes of  *)
(* a reorg are sorted by ancestor count and added in front of what the     *)
(* journal held before.                                                    *)
SortedOps(m) ==
  LET Key(i) == IF m.ops[i].n = 0 THEN m.ca[m.ops[i].t] ELSE m.ops[i].n
      order == SetToSortSeq(DOMAIN m.ops, LAMBDA i, k : Lex(Key(i), i, Key(k), k))
  IN  [i \in DOMAIN order |-> m.ops[order[i]]]

Apply(m) ==
  LET step(o, j) ==
        IF o.op = "remove" THEN [front |-> RemoveFrom(j.front, o.t), back |-> RemoveFrom(j.back, o.t)]
        ELSE IF o.t \in ToSet(j.front \o j.back) THEN j
        ELSE IF m.reason = "reorg" THEN [j EXCEPT !.front = Append(@, o.t)]
        ELSE [j EXCEPT !.back = Append(@, o.t)]
      ops == IF m.reason = "reorg" THEN SortedOps(m) ELSE m.ops
      j1 == FoldLeft(LAMBDA j, o : step(o, j), [front |-> <<>>, back |-> m.jr], ops)
  IN  [m EXCEPT !.jr = j1.front \o j1.back, !.ops = <<>>, !.reason = "basic"]

-----------------------------------------------------------------------------
(* getConnectedNL: what hangs together with S, through entries that pass   *)
(* the filter and are not in S.                                            *)
Connected(m, S, pass) ==
  LET near == [t \in Tx |-> ((m.par[t] \cup m.chi[t]) \cap pass) \ S]
  IN  Reach(near, UNION {near[t] : t \in S})

OutsideJournal(m) == {t \in Tx : ~Journalled(m, t) /\ LastOp(m, t) # "add"}

EnsureAdded(m, t) ==
  IF IF Journalled(m, t) THEN LastOp(m, t) = "remove" ELSE LastOp(m, t) # "add"
  THEN AddOperation(m, "add", t) ELSE m
EnsureRemoved(m, t) ==
  IF IF Journalled(m, t) THEN LastOp(m, t) # "remove" ELSE LastOp(m, t) = "add"
  THEN AddOperation(m, "remove", t) ELSE m

(* topoSortedTxFromSet: by count with ancestors, ties by hash.             *)
Topo(m, S) == SetToSortSeq(S, LAMBDA t, u : Lex(m.ca[t], t, m.ca[u], u))

Debt(m, t) == IF m.fee[t] < MinFee THEN MinFee - m.fee[t] ELSE 0

\* Mutant: the child is added before the parents it pays for.
VisitChildFirst(a, t) ==
  LET poor == a.m.par[t] \cap DOMAIN a.debt
      owing == poor \cup UNION {a.debt[p] : p \in poor}
  IN  IF a.m.fee[t] - MinFee >= Sum([u \in Tx |-> Debt(a.m, u)], owing)
      THEN [m |-> FoldLeft(EnsureAdded, EnsureAdded(a.m, t), Topo(a.m, owing)),
            debt |-> [u \in DOMAIN a.debt \ owing |-> a.debt[u]],
            cpfp |-> a.cpfp \/ owing # {}]
      ELSE [a EXCEPT !.debt = [u \in DOMAIN a.debt \cup {t} |->
                                 IF u \in DOMAIN a.debt THEN a.debt[u] ELSE owing]]

(* One entry of one round: debt maps an entry that does not pay enough to  *)
(* its ancestors that do not.                                              *)
Visit(a, t) ==
  LET poor == a.m.par[t] \cap DOMAIN a.debt
      owing == poor \cup UNION {a.debt[p] : p \in poor}
  IN  IF a.m.fee[t] - MinFee >= Sum([u \in Tx |-> Debt(a.m, u)], owing)
      THEN [m |-> EnsureAdded(FoldLeft(EnsureAdded, a.m, Topo(a.m, owing)), t),
            debt |-> [u \in DOMAIN a.debt \ owing |-> a.debt[u]],
            cpfp |-> a.cpfp \/ owing # {}]
      ELSE [a EXCEPT !.debt = [u \in DOMAIN a.debt \cup {t} |->
                                 IF u \in DOMAIN a.debt THEN a.debt[u] ELSE owing]]

\* Mutant: one round only.
CheckJournalOnce(m, affected) ==
  LET a == FoldLeft(Visit, [m |-> m, debt |-> <<>>, cpfp |-> FALSE], Topo(m, affected))
  IN  FoldLeft(EnsureRemoved, a.m, InOrder(DOMAIN a.debt))

(* checkJournalAcceptanceNL: at most three rounds; when a round has let a  *)
(* child pay for its parents, those left in debt are looked at again.      *)
CheckJournalAcceptance(m, affected) ==
  LET round(a, i) ==
        IF a.cpfp THEN FoldLeft(Visit, [m |-> a.m, debt |-> <<>>, cpfp |-> FALSE], Topo(a.m, DOMAIN a.debt))
        ELSE a
      last == FoldLeft(round, [m |-> m, debt |-> [t \in affected |-> {}], cpfp |-> TRUE], <<1, 2, 3>>)
  IN  FoldLeft(EnsureRemoved, last.m, InOrder(DOMAIN last.debt))

-----------------------------------------------------------------------------
(* Statistics: UpdateDescendantState and UpdateAncestorState, with their   *)
(* assertions.                                                             *)
Bump(f, A, n) == [t \in Tx |-> IF t \in A THEN f[t] + n ELSE f[t]]
UpdateDescendantState(m, A, fee, n) ==
  [m EXCEPT !.cd = Bump(@, A, n), !.fd = Bump(@, A, fee),
            !.ok = @ /\ \A t \in A : m.cd[t] + n > 0]
UpdateAncestorState(m, A, fee, n) ==
  [m EXCEPT !.ca = Bump(@, A, n), !.fa = Bump(@, A, fee),
            !.ok = @ /\ \A t \in A : m.ca[t] + n > 0]

Link(m, p, c) == [m EXCEPT !.chi[p] = @ \cup {c}, !.par[c] = @ \cup {p}]

(* AddUncheckedNL, with the ancestors that CalculateMemPoolAncestors finds *)
(* by searching for parents.                                               *)
AddUnchecked(m, t, deltas) ==
  LET parents == ParentsOf(t) \cap m.tx
      anc == Reach(m.par, parents)
      fee == Fee[t] + deltas[t]
      m1 == [m EXCEPT !.tx = @ \cup {t},
                      !.par[t] = parents, !.chi = [u \in Tx |-> IF u \in parents THEN @[u] \cup {t} ELSE @[u]],
                      !.fee[t] = fee, !.cd[t] = 1, !.fd[t] = fee,
                      !.ca[t] = 1 + Cardinality(anc), !.fa[t] = fee + Sum(m.fee, anc),
                      !.next = @ \cup {<<op, t>> : op \in Ins[t]}]
      m2 == UpdateDescendantState(m1, anc, fee, 1)
  IN  IF fee < MinFee THEN m2
      ELSE CheckJournalAcceptance(m2, {t} \cup Connected(m2, {t}, OutsideJournal(m2)))

(* removeUncheckedNL.                                                      *)
RemoveUnchecked(m, t) ==
  LET m1 == AddOperation(m, "remove", t)
  IN  [m1 EXCEPT !.tx = @ \ {t}, !.par[t] = {}, !.chi[t] = {}, !.next = {e \in @ : e[2] # t},
                 !.ops = [i \in DOMAIN @ |-> IF @[i].t = t /\ @[i].n = 0
                                             THEN [@[i] EXCEPT !.n = m.ca[t]] ELSE @[i]],
                 !.ca[t] = 0, !.cd[t] = 0, !.fa[t] = 0, !.fd[t] = 0, !.fee[t] = 0]

(* updateForRemoveFromMempoolNL: statistics first, then the links that     *)
(* point to what is removed.                                               *)
UpdateForRemove(m, S, updateDescendants) ==
  LET below(mm, r) == UpdateAncestorState(mm, Reach(m.chi, {r}) \ {r}, -m.fee[r], -1)
      above(mm, r) == [UpdateDescendantState(mm, Anc(mm, r), -m.fee[r], -1) EXCEPT
                         !.chi = [u \in Tx |-> IF u \in m.par[r] THEN @[u] \ {r} ELSE @[u]]]
      m1 == IF updateDescendants THEN FoldLeft(below, m, InOrder(S)) ELSE m
      m2 == FoldLeft(above, m1, InOrder(S))
  IN  [m2 EXCEPT !.par = [c \in Tx |-> @[c] \ {r \in S : c \in m2.chi[r]}]]

(* removeStagedNL.                                                         *)
RemoveStaged(m, S, updateDescendants, updateJournal) ==
  LET m1 == UpdateForRemove(m, S, updateDescendants)
      m2 == FoldLeft(RemoveUnchecked, m1, InOrder(S))
  IN  IF updateJournal
      THEN CheckJournalAcceptance(m2, Connected(m1, S, Tx)) ELSE m2

(* removeRecursiveNL: the transaction, or what spends it when it is not    *)
(* there itself, with all descendants.                                     *)
RemoveRecursive(m, t) ==
  LET S == IF t \in m.tx THEN {t} ELSE {e[2] : e \in {x \in m.next : x[1] \in Outs(t)}}
  IN  RemoveStaged(m, Reach(m.chi, S), FALSE, TRUE)

RemoveAll(m, S) == RemoveStaged(m, Reach(m.chi, S), FALSE, TRUE)

Conflicts(m, t) == {e[2] : e \in {x \in m.next : x[1] \in Ins[t]}} \ {t}

(* RemoveForBlock.                                                         *)
RemoveForBlock(m, b) ==
  LET here == ToSet(b) \cap m.tx
      affected == Connected(m, here, OutsideJournal(m))
      confirm(mm, t) == IF t \in mm.tx THEN RemoveStaged(mm, {t}, TRUE, FALSE) ELSE mm
      drop(mm, t) == FoldLeft(RemoveRecursive, mm, InOrder(Conflicts(mm, t)))
  IN  FoldLeft(drop, CheckJournalAcceptance(FoldLeft(confirm, m, b), affected), b)

(* The deltas that RemoveForBlock clears.                                  *)
ClearedBy(m, b) == ToSet(b) \cup UNION {Conflicts(m, b[i]) : i \in DOMAIN b}
Cleared(deltas, S) == [t \in Tx |-> IF t \in S THEN 0 ELSE deltas[t]]

(* TrimToSize: packages go, one at a time, until the size fits; any        *)
(* package may have the lowest fee rate.  Results are a set.               *)
RECURSIVE Trim(_)
Trim(m) ==
  IF Cardinality(m.tx) <= MaxPool THEN {m}
  ELSE UNION {Trim(RemoveAll(m, {r})) : r \in m.tx}

(* LimitMempoolSize: old entries (any, when Expiring) go first.            *)
Limit(m) == UNION {Trim(RemoveAll(m, old)) : old \in IF Expiring THEN SUBSET m.tx ELSE {{}}}

\* Mutant: descendants that were in the block are counted again.
UpdateTwice(m, hashes) ==
  LET included == ToSet(hashes)
      Children(mm, t) == {e[2] : e \in {x \in mm.next : x[1] \in Outs(t)}} \ included
      linked(mm, t) == FoldSet(LAMBDA c, acc : Link(acc, t, c), mm, Children(mm, t))
      update(t, mm) ==
        LET m1 == linked(mm, t)
            D == Reach(m1.chi, m1.chi[t])
            m2 == UpdateAncestorState(m1, D, m1.fee[t], 1)
        IN  UpdateDescendantState(m2, {t}, Sum(m1.fee, D), Cardinality(D))
      m3 == FoldRight(update, hashes, m)
  IN  CheckJournalAcceptance(m3, Connected(m3, included, Tx))

(* UpdateTransactionsFromBlock: the entries of a disconnected block learn  *)
(* of the children the mempool already had.                                *)
UpdateTransactionsFromBlock(m, hashes) ==
  LET included == ToSet(hashes)
      Children(mm, t) == {e[2] : e \in {x \in mm.next : x[1] \in Outs(t)}} \ included
      linked(mm, t) == FoldSet(LAMBDA c, acc : Link(acc, t, c), mm, Children(mm, t))
      update(t, mm) ==
        LET m1 == linked(mm, t)
            D == Reach(m1.chi, m1.chi[t]) \ included
            m2 == UpdateAncestorState(m1, D, m1.fee[t], 1)
        IN  UpdateDescendantState(m2, {t}, Sum(m1.fee, D), Cardinality(D))
      m3 == FoldRight(update, hashes, m)
  IN  CheckJournalAcceptance(m3, Connected(m3, included, Tx))

-----------------------------------------------------------------------------
HaveInputs(m, t, c) == Ins[t] \subseteq Coins(c) \cup UNION {Outs(u) : u \in m.tx}

(* What TxnValidation asks of a loose transaction.                         *)
Acceptable(m, t, c) ==
  /\ t \notin Coinbase \cup m.tx \cup Confirmed(c)
  /\ HaveInputs(m, t, c) /\ Conflicts(m, t) = {} /\ MinHeight[t] <= Len(c)

(* UpdateMempoolForReorg: the transactions q of disconnected blocks, the   *)
(* earliest first, are validated again (policy may refuse some), or only   *)
(* removed when readd is FALSE; then the mempool is limited, what depends  *)
(* on a transaction that did not make it is removed, links are completed,  *)
(* and what is not final any more is removed.                              *)
UpdateMempoolForReorg(m, q, c, readd, refused) ==
  LET gone == SelectSeq(q, LAMBDA t : ~readd \/ t \in Coinbase)
      kept == SelectSeq(q, LAMBDA t : readd /\ t \notin Coinbase)
      accept(mm, t) == IF Acceptable(mm, t, c) /\ t \notin refused
                       THEN AddUnchecked(mm, t, mapDeltas) ELSE mm
      m1 == FoldLeft(accept, FoldLeft(RemoveRecursive, m, gone), kept)
      lost(mm, t) == IF t \in mm.tx THEN mm ELSE RemoveRecursive(mm, t)
      rest(m2) ==
        LET hashes == SelectSeq(kept, LAMBDA t : t \in m2.tx)
            m3 == UpdateTransactionsFromBlock(FoldLeft(lost, m2, kept), hashes)
        IN  RemoveAll(m3, {t \in m3.tx : MinHeight[t] > Len(c)})
  IN  {rest(m2) : m2 \in IF kept = <<>> THEN {m1} ELSE Limit(m1)}

Valid(b, c) ==
  /\ ToSet(b) \cap Confirmed(c) = {}
  /\ \A i \in DOMAIN b : /\ Ins[b[i]] \subseteq Coins(Append(c, SubSeq(b, 1, i - 1)))
                         /\ MinHeight[b[i]] <= Len(c)

-----------------------------------------------------------------------------
Zero == [t \in Tx |-> 0]
Empty == [tx |-> {}, par |-> [t \in Tx |-> {}], chi |-> [t \in Tx |-> {}],
          ca |-> Zero, cd |-> Zero, fa |-> Zero, fd |-> Zero, fee |-> Zero,
          next |-> {}, jr |-> <<>>, ops |-> <<>>, reason |-> "basic", ok |-> TRUE]

Init == s = Empty /\ mapDeltas = Zero /\ chain = <<>> /\ grown = TRUE

(* CommitTxToMempool for a transaction that passed TxnValidation.          *)
Accept(t) ==
  /\ Acceptable(s, t, chain)
  /\ s' = AddUnchecked(s, t, mapDeltas)
  /\ UNCHANGED <<mapDeltas, chain, grown>>

LimitMempoolSize ==
  /\ s' \in Limit(s)
  /\ UNCHANGED <<mapDeltas, chain, grown>>

(* prioritisetransaction: the delta of a transaction, present or not.      *)
Prioritise(t, d) ==
  LET deltas == [mapDeltas EXCEPT ![t] = @ + d]
      gain == Fee[t] + deltas[t] - s.fee[t]
      m1 == [s EXCEPT !.fee[t] = @ + gain, !.fa[t] = @ + gain, !.fd[t] = @ + gain]
      m2 == UpdateDescendantState(m1, Anc(s, t), d, 0)
      m3 == UpdateAncestorState(m2, Reach(s.chi, {t}) \ {t}, d, 0)
  IN  /\ deltas[t] \in Deltas
      /\ mapDeltas' = deltas
      /\ s' = IF t \notin s.tx THEN s
              ELSE CheckJournalAcceptance(m3, {t} \cup Connected(m3, {t}, Tx))
      /\ UNCHANGED <<chain, grown>>

(* ConnectTip on top of the active chain.                                  *)
ConnectBlock(b) ==
  /\ Len(chain) < MaxChain /\ Valid(b, chain)
  /\ chain' = Append(chain, b)
  /\ s' = Apply(RemoveForBlock([s EXCEPT !.reason = "block"], b))
  /\ mapDeltas' = Cleared(mapDeltas, ClearedBy(s, b))
  /\ UNCHANGED grown

(* ActivateBestChainStep that disconnects the tip: its transactions wait   *)
(* in the disconnect pool, which has a limit, until the new blocks (at     *)
(* most one here; none when they turn out invalid) are connected.  After a *)
(* system error nothing is added again and the change set stays one of a   *)
(* block.                                                                  *)
Reorg(new, readd) ==
  /\ chain # <<>> /\ grown' = FALSE
  /\ LET base == Front(chain)
         queued == Reverse(Last(chain))
         over == IF Len(queued) > MaxPool THEN Len(queued) - MaxPool ELSE 0
         m1 == FoldLeft(RemoveRecursive, [s EXCEPT !.reason = "block"], SubSeq(queued, 1, over))
         m2 == FoldLeft(RemoveForBlock, m1, new)
         q == SelectSeq(SubSeq(queued, over + 1, Len(queued)),
                        LAMBDA t : \A i \in DOMAIN new : t \notin ToSet(new[i]))
         m3 == [m2 EXCEPT !.reason = IF readd THEN "reorg" ELSE "block"]
     IN  /\ \A i \in DOMAIN new : new[i] # Last(chain) /\ Valid(new[i], base)
         /\ chain' = base \o new
         /\ \E refused \in SUBSET ToSet(q) :
              \E m4 \in UpdateMempoolForReorg(m3, Reverse(q), chain', readd, refused) :
                s' = Apply(m4)
         /\ mapDeltas' = Cleared(mapDeltas, UNION {ClearedBy(m1, new[i]) : i \in DOMAIN new})

Next ==
  \/ \E t \in Tx : Accept(t)
  \/ LimitMempoolSize
  \/ \E t \in Tx, d \in {-1, 1} : Prioritise(t, d)
  \/ \E b \in Blocks : ConnectBlock(b)
  \/ \E new \in {<<>>} \cup {<<b>> : b \in Blocks}, readd \in BOOLEAN : Reorg(new, readd)

Spec == Init /\ [][Next]_vars

-----------------------------------------------------------------------------
TypeOK ==
  /\ s.tx \subseteq Tx /\ s.ops = <<>> /\ s.reason = "basic"
  /\ mapDeltas \in [Tx -> Deltas]

PoolMinable ==
  /\ s.tx \cap Confirmed(chain) = {}
  /\ \A t, u \in s.tx : t # u => Ins[t] \cap Ins[u] = {}
  /\ \A t \in s.tx : MinHeight[t] <= Len(chain)

(* What CheckMempool asserts between operations: the links are those of    *)
(* the inputs, mapNextTx holds exactly the inputs of the entries, every    *)
(* input is a coin or an output of an entry, and the statistics that are   *)
(* only ever updated by differences are the sums over ancestors and        *)
(* descendants.  Nor has an assertion of UpdateAncestorState or            *)
(* UpdateDescendantState failed: no count of an entry drops to zero while  *)
(* it is in the mempool, not even in the middle of a reorg, when links are *)
(* incomplete.  Nothing in it is confirmed, conflicts with another entry   *)
(* or is not final at the height of the chain.                             *)
CheckMempool ==
  LET par == [t \in Tx |-> IF t \in s.tx THEN ParentsOf(t) \cap s.tx ELSE {}]
      chi == [t \in Tx |-> {c \in s.tx : t \in par[c]}]
  IN  /\ TypeOK /\ PoolMinable
      /\ s.ok /\ s.par = par /\ s.chi = chi
      /\ s.next = UNION {{<<op, t>> : op \in Ins[t]} : t \in s.tx}
      /\ \A t \in s.tx :
           LET up == {t} \cup Reach(par, par[t])
               down == Reach(chi, {t})
           IN  /\ HaveInputs(s, t, chain)
               /\ s.ca[t] = Cardinality(up) /\ s.fa[t] = Sum(s.fee, up)
               /\ s.cd[t] = Cardinality(down) /\ s.fd[t] = Sum(s.fee, down)

(* The journal never offers the miner a transaction the mempool has lost;  *)
(* and, while the chain only grows, checkJournalNL finds nothing wrong: a  *)
(* parent that is in the mempool is in the journal when its child is, and  *)
(* stands before it, so a block assembled in journal order is valid.       *)
CheckJournal ==
  \A k \in DOMAIN s.jr :
    /\ s.jr[k] \in s.tx
    /\ grown => \A p \in ParentsOf(s.jr[k]) \cap s.tx : \E i \in 1..k : s.jr[i] = p

(* While the chain only grows, no entry that pays for itself, and whose    *)
(* parents are all confirmed or in the journal, is kept from the miner.    *)
JournalComplete ==
  grown => \A t \in s.tx :
    s.fee[t] >= MinFee /\ (\A p \in s.par[t] : Journalled(s, p)) => Journalled(s, t)
=============================================================================
