---------------------------- MODULE BlockDownload ----------------------------
(* Which peer each missing block is fetched from: the per-peer CNodeState, the *)
(* map of blocks in flight and its counters, and the handlers of inv, headers, *)
(* cmpctblock, blocktxn and block messages that change them.                   *)
(*                                                                             *)
(* Messages are handled one at a time by one thread; the tail of a block's     *)
(* processing runs on the async task pool, peers come and go on the socket     *)
(* thread.  Every block adds one unit of work.                                 *)
EXTENDS Integers, Sequences, FiniteSets, SequencesExt, TLC

CONSTANTS
    Peers,         \* peers that may be connected
    Outbound,      \* the ones the node connected to: preferred for download
    Whitelisted,
    Genesis,
    Prev,          \* hashPrevBlock of every block but the genesis block
    Window,        \* -blockdownloadwindow
    MaxHeaders,    \* MAX_HEADERS_RESULTS
    MaxAnnounce,   \* MAX_BLOCKS_TO_ANNOUNCE
    MaxCompact,    \* how many peers announce with compact blocks (3 in the code)
    KeepBlocks,    \* MIN_BLOCKS_TO_KEEP
    Recent,        \* whether the best header is less than a day old: what may be seen
    Worlds         \* the situations that are explored; see below

ASSUME DownloadAssumption ==
    /\ Outbound \subseteq Peers /\ Whitelisted \subseteq Peers
    /\ Prev \in [DOMAIN Prev -> DOMAIN Prev \cup {Genesis}]
    /\ {Window, MaxHeaders, MaxAnnounce, MaxCompact} \subseteq Nat \ {0}

VARIABLES
    dl,       \* the download state; see Downloads below
    index,    \* mapBlockIndex: the headers that are known
    data,     \* the blocks whose data is stored
    failed,   \* the blocks known to be invalid
    tip,      \* chainActive.Tip()
    ibd,      \* IsInitialBlockDownload()
    world,    \* the situation, one of Worlds; it never changes
    tasks,    \* the async tasks, each by the block it clears in the end, if any
    connects, \* connections made so far
    messages  \* unrequested messages received so far

vars == <<dl, index, data, failed, tip, ibd, world, tasks, connects, messages>>
chain == <<index, data, failed, tip, ibd, world>>

Blocks       == world.blocks    \* the blocks that exist
Bad          == world.bad       \* the ones ConnectBlock rejects
Prompt       == world.prompt    \* the peers that answer every request in time
Kinds        == world.kinds     \* the kinds of messages the others send
MaxInTransit == world.transit   \* MAX_BLOCKS_IN_TRANSIT_PER_PEER
MaxConnects  == world.connects  \* bound: how many connections the others make
MaxMessages  == world.messages  \* bound: messages received that answer no getdata

None == "none"
All  == DOMAIN Prev \cup {Genesis}

Ancestry[b \in All] == IF b = Genesis THEN <<Genesis>> ELSE Append(Ancestry[Prev[b]], b)
Height(b) == Len(Ancestry[b]) - 1
Ancestors(b) == ToSet(Ancestry[b])
GetAncestor(b, h) == Ancestry[b][h + 1]
LastCommonAncestor(a, b) ==
    CHOOSE c \in Ancestors(a) \cap Ancestors(b) :
        \A x \in Ancestors(a) \cap Ancestors(b) : Height(x) <= Height(c)
(* The blocks after a up to b, oldest first.                                   *)
Path(a, b) == SubSeq(Ancestry[b], Height(a) + 2, Len(Ancestry[b]))

Active     == Ancestors(tip)
HasChainTx(b) == Ancestors(b) \subseteq data

-----------------------------------------------------------------------------
(* CNodeState, and the maps and counters shared by all peers.                  *)
Entry == [hash : Blocks, partial : BOOLEAN, asked : BOOLEAN]
NodeState ==
    [best : All \cup {None}, unknown : Blocks \cup {None}, common : All \cup {None},
     queue : Seq(Entry), n : Nat, valid : Nat, stalling : BOOLEAN,
     preferred : BOOLEAN, sync : BOOLEAN, ban : BOOLEAN, disc : BOOLEAN]
NewNode(p) ==
    [best |-> None, unknown |-> None, common |-> None, queue |-> <<>>, n |-> 0, valid |-> 0,
     stalling |-> FALSE, preferred |-> p \in Outbound, sync |-> FALSE,
     ban |-> FALSE, disc |-> FALSE]

Nodes    == DOMAIN dl.nodes
InFlight == DOMAIN dl.inflight
Queued(p) == {dl.nodes[p].queue[i].hash : i \in DOMAIN dl.nodes[p].queue}
Without(f, S) == [x \in DOMAIN f \ S |-> f[x]]

(* Mutant: the last block received does not count the peer out.                *)
MarkBlockAsReceivedNoCount(s, b) ==
    IF b \notin DOMAIN s.inflight THEN s
    ELSE LET p == s.inflight[b] IN
         [s EXCEPT !.nodes[p] = [@ EXCEPT !.queue = SelectSeq(@, LAMBDA e : e.hash # b),
                                          !.n = @ - 1, !.valid = @ - 1, !.stalling = FALSE],
                   !.nDown = IF s.nodes[p].valid = 0 THEN @ - 1 ELSE @,
                   !.inflight = Without(@, {b})]
MarkBlockAsReceived(s, b) ==
    IF b \notin DOMAIN s.inflight THEN s
    ELSE LET p == s.inflight[b] IN
         [s EXCEPT !.nodes[p] = [@ EXCEPT !.queue = SelectSeq(@, LAMBDA e : e.hash # b),
                                          !.n = @ - 1, !.valid = @ - 1, !.stalling = FALSE],
                   !.nDown = IF s.nodes[p].valid = 1 THEN @ - 1 ELSE @,
                   !.inflight = Without(@, {b})]

(* The entry is not asked for yet: the callers send the request.               *)
MarkBlockAsInFlight(s, p, b, partial) ==
    LET r == MarkBlockAsReceived(s, b) IN
    IF b \in DOMAIN s.inflight /\ s.inflight[b] = p THEN s
    ELSE [r EXCEPT !.nodes[p] = [@ EXCEPT !.queue = Append(@, [hash |-> b, partial |-> partial, asked |-> FALSE]),
                                          !.n = @ + 1, !.valid = @ + 1],
                   !.nDown = IF r.nodes[p].valid = 0 THEN @ + 1 ELSE @,
                   !.inflight = (b :> p) @@ @]
SetEntry(s, p, b, f(_)) ==
    [s EXCEPT !.nodes[p].queue = [i \in DOMAIN @ |-> IF @[i].hash = b THEN f(@[i]) ELSE @[i]]]
(* A getdata or getblocktxn for b was sent to p.                               *)
Ask(s, p, b) == SetEntry(s, p, b, LAMBDA e : [e EXCEPT !.asked = TRUE])

(* A penalty that may reach the ban score.                                     *)
Misbehaving(s, p, bans) ==
    IF bans /\ p \in DOMAIN s.nodes THEN [s EXCEPT !.nodes[p].ban = TRUE] ELSE s

Better(n, b) == n.best = None \/ Height(b) >= Height(n.best)

ProcessBlockAvailability(known, n) ==
    IF n.unknown \in known
    THEN [n EXCEPT !.best = IF Better(n, n.unknown) THEN n.unknown ELSE @, !.unknown = None]
    ELSE n

UpdateBlockAvailability(known, n, b) ==
    LET m == ProcessBlockAvailability(known, n) IN
    IF b \in known THEN [m EXCEPT !.best = IF Better(m, b) THEN b ELSE @]
    ELSE [m EXCEPT !.unknown = b]

-----------------------------------------------------------------------------
(* Choosing what to download.                                                  *)

(* Mutant: a block is stored, whether or not its ancestors are.                *)
FetchStepAnyData(s, p, count, windowEnd, w, b) ==
    CASE w.done -> w
      [] ~w.done /\ b \in failed -> [w EXCEPT !.done = TRUE]
      [] ~w.done /\ b \notin failed /\ b \in data \cup Active -> [w EXCEPT !.common = b]
      [] ~w.done /\ b \notin failed \cup data \cup Active /\ b \notin DOMAIN s.inflight ->
            IF Height(b) > windowEnd THEN [w EXCEPT !.done = TRUE]
            ELSE [w EXCEPT !.blocks = Append(@, b), !.done = Len(w.blocks) + 1 = count]
      [] OTHER -> w
(* Mutant: the last block of the window is left out.                           *)
FetchStepShort(s, p, count, windowEnd, w, b) ==
    CASE w.done -> w
      [] ~w.done /\ b \in failed -> [w EXCEPT !.done = TRUE]
      [] ~w.done /\ b \notin failed /\ b \in data \cup Active ->
            IF HasChainTx(b) THEN [w EXCEPT !.common = b] ELSE w
      [] ~w.done /\ b \notin failed \cup data \cup Active /\ b \notin DOMAIN s.inflight ->
            IF Height(b) >= windowEnd
            THEN [w EXCEPT !.done = TRUE,
                           !.staller = IF w.blocks = <<>> /\ w.waiting # p THEN w.waiting ELSE @]
            ELSE [w EXCEPT !.blocks = Append(@, b), !.done = Len(w.blocks) + 1 = count]
      [] OTHER -> [w EXCEPT !.waiting = IF @ = None THEN s.inflight[b] ELSE @]

(* One block of the walk of FindNextBlocksToDownload; w.done is its return.    *)
FetchStep(s, p, count, windowEnd, w, b) ==
    CASE w.done -> w
      [] ~w.done /\ b \in failed -> [w EXCEPT !.done = TRUE]
      [] ~w.done /\ b \notin failed /\ b \in data \cup Active ->
            IF HasChainTx(b) THEN [w EXCEPT !.common = b] ELSE w
      [] ~w.done /\ b \notin failed \cup data \cup Active /\ b \notin DOMAIN s.inflight ->
            IF Height(b) > windowEnd
            THEN [w EXCEPT !.done = TRUE,
                           !.staller = IF w.blocks = <<>> /\ w.waiting # p THEN w.waiting ELSE @]
            ELSE [w EXCEPT !.blocks = Append(@, b), !.done = Len(w.blocks) + 1 = count]
      [] OTHER -> [w EXCEPT !.waiting = IF @ = None THEN s.inflight[b] ELSE @]

FindNextBlocksToDownload(s, p, count) ==
    LET n      == s.nodes[p]
        guess  == IF n.common # None THEN n.common
                  ELSE GetAncestor(tip, IF Height(n.best) < Height(tip) THEN Height(n.best) ELSE Height(tip))
        common == LastCommonAncestor(guess, n.best)
        wEnd   == Height(common) + Window
        top    == IF Height(n.best) < wEnd + 1 THEN Height(n.best) ELSE wEnd + 1
        start  == [common |-> n.common, blocks |-> <<>>, waiting |-> None, staller |-> None, done |-> FALSE]
    IN  IF n.best = None \/ Height(n.best) < Height(tip) THEN start
        ELSE FoldLeft(LAMBDA w, b : FetchStep(s, p, count, wEnd, w, b),
                      [start EXCEPT !.common = common], Path(common, GetAncestor(n.best, top)))
Fetch(s, p) == s.nodes[p].preferred \/ s.nPref = 0

(* Request the blocks in bs from p, in order, while it has room.               *)
Request(s, p, bs) ==
    FoldLeft(LAMBDA r, b : Ask(MarkBlockAsInFlight(r, p, b, FALSE), p, b), s, bs)

SendGetDataBlocks(s, p) ==
    LET u == [s EXCEPT !.nodes[p] = ProcessBlockAvailability(index, @)]
        w == FindNextBlocksToDownload(u, p, MaxInTransit - s.nodes[p].n)
        r == Request([u EXCEPT !.nodes[p].common = w.common], p, w.blocks)
    IN  IF ~((Fetch(s, p) \/ ~ibd) /\ s.nodes[p].n < MaxInTransit) THEN s
        ELSE IF r.nodes[p].n = 0 /\ w.staller # None THEN [r EXCEPT !.nodes[w.staller].stalling = TRUE]
        ELSE r
(* recent: the best known header is less than a day old.                       *)
SendBlockSync(s, p, recent) ==
    IF ~s.nodes[p].sync /\ (recent \/ (s.nSync = 0 /\ Fetch(s, p)))
    THEN [s EXCEPT !.nodes[p].sync = TRUE, !.nSync = @ + 1]
    ELSE s

SendRejectsAndCheckIfBanned(s, p) ==
    [s EXCEPT !.nodes[p] = [@ EXCEPT !.ban = FALSE, !.disc = p \notin Whitelisted]]

SendMessages(p) ==
    /\ p \in Nodes /\ ~dl.nodes[p].disc
    /\ \E recent \in Recent :
          dl' = IF dl.nodes[p].ban THEN SendRejectsAndCheckIfBanned(dl, p)
                ELSE SendGetDataBlocks(SendBlockSync(dl, p, recent), p)
    /\ UNCHANGED <<chain, tasks, connects, messages>>

(* Whether and when a peer is dropped depends on the clock and on the speed    *)
(* of its connection; either rule needs a block in flight from it.             *)
DetectStalling(p) ==
    /\ p \in Nodes \ Prompt /\ ~dl.nodes[p].disc
    /\ dl.nodes[p].stalling \/ Len(dl.nodes[p].queue) > 0
    /\ dl' = [dl EXCEPT !.nodes[p].disc = TRUE]
    /\ UNCHANGED <<chain, tasks, connects, messages>>

-----------------------------------------------------------------------------
(* Peers come and go.                                                          *)
InitializeNode(p) ==
    /\ p \notin Nodes /\ (p \in Prompt \/ connects < MaxConnects)
    /\ dl' = [dl EXCEPT !.nodes = (p :> NewNode(p)) @@ @,
                        !.nPref = @ + (IF p \in Outbound THEN 1 ELSE 0)]
    /\ connects' = IF p \in Prompt THEN connects ELSE connects + 1
    /\ UNCHANGED <<chain, tasks, messages>>

CloseSocket(p) ==
    /\ p \in Nodes \ Prompt /\ ~dl.nodes[p].disc
    /\ dl' = [dl EXCEPT !.nodes[p].disc = TRUE]
    /\ UNCHANGED <<chain, tasks, connects, messages>>

Finalize(s, p) ==
    LET n == s.nodes[p]
        mine == {n.queue[i].hash : i \in DOMAIN n.queue}
    IN  [s EXCEPT !.nodes = Without(@, {p}),
                  !.inflight = Without(@, mine),
                  !.source = Without(@, {b \in DOMAIN @ : @[b].peer = p}),
                  !.nSync = @ - (IF n.sync THEN 1 ELSE 0),
                  !.nPref = @ - (IF n.preferred THEN 1 ELSE 0),
                  !.nDown = @ - (IF n.valid # 0 THEN 1 ELSE 0)]
FinalizeNode(p) ==
    /\ p \in Nodes /\ dl.nodes[p].disc
    /\ dl' = Finalize(dl, p)
    /\ UNCHANGED <<chain, tasks, connects, messages>>

-----------------------------------------------------------------------------
(* Validation, as far as downloading depends on it.                            *)

(* AcceptBlock: an unrequested block is stored only if it is new, has more     *)
(* work than the tip and is not too far ahead.                                 *)
Stores(b, force) ==
    /\ b \notin data
    /\ force \/ (Height(b) > Height(tip) /\ Height(b) <= Height(tip) + KeepBlocks)

(* BlockChecked: blame the source of an invalid block; ask the source of a     *)
(* valid one to announce with compact blocks when nothing else is in flight.   *)
BlockChecked(s, b, ok) ==
    IF b \notin DOMAIN s.source THEN s
    ELSE LET p == s.source[b].peer
             r == [s EXCEPT !.source = Without(@, {b})]
             l == SelectSeq(s.announce, LAMBDA x : x # p)
         IN  IF ~ok THEN Misbehaving(r, p, s.source[b].punish)
             ELSE IF ibd \/ DOMAIN s.inflight \ {b} # {} \/ p \notin DOMAIN s.nodes THEN r
             ELSE [r EXCEPT !.announce =
                      Append(IF Len(l) = Len(s.announce) /\ Len(l) >= MaxCompact THEN Tail(l) ELSE l, p)]

(* ProcessNewBlock on top of the download state s, up to the task that         *)
(* activates the best chain.  clear: that task also ends b's download.         *)
ProcessNewBlock(s, b, force, clear) ==
    IF Prev[b] \notin index \ failed
    THEN dl' = s /\ UNCHANGED <<index, data, failed, tasks>>
    ELSE IF b \in failed
    THEN dl' = BlockChecked(s, b, FALSE) /\ UNCHANGED <<index, data, failed, tasks>>
    ELSE /\ dl' = s
         /\ index' = index \cup {b}
         /\ data' = IF Stores(b, force) THEN data \cup {b} ELSE data
         /\ tasks' = tasks \cup {IF clear THEN b ELSE None}
         /\ UNCHANGED failed

Candidates == {b \in data : HasChainTx(b) /\ Ancestors(b) \cap failed = {} /\ Height(b) > Height(tip)}
Descendants(b) == {x \in index : b \in Ancestors(x)}

(* The task activates the best chain, block by block as ConnectTip accepts     *)
(* or rejects them, until no candidate is left.                                *)
ActivateBestChain(t) ==
    /\ t \in tasks /\ Candidates # {}
    /\ \E b \in Candidates :
          LET path == Path(LastCommonAncestor(tip, b), b)
              bads == {i \in DOMAIN path : path[i] \in Bad}
          IN  /\ \A x \in Candidates : Height(x) <= Height(b)
              /\ IF bads = {}
                 THEN /\ tip' = b
                      /\ dl' = FoldLeft(LAMBDA s, x : BlockChecked(s, x, TRUE), dl, path)
                      /\ UNCHANGED failed
                 ELSE LET i == CHOOSE j \in bads : \A k \in bads : j <= k IN
                      /\ failed' = failed \cup Descendants(path[i])
                      /\ dl' = BlockChecked(FoldLeft(LAMBDA s, x : BlockChecked(s, x, TRUE), dl, SubSeq(path, 1, i - 1)),
                                            path[i], FALSE)
                      /\ UNCHANGED tip
    /\ UNCHANGED <<index, data, ibd, world, tasks, connects, messages>>

EndTask(t) ==
    /\ t \in tasks /\ Candidates = {}
    /\ tasks' = tasks \ {t}
    /\ dl' = IF t \in data \ failed THEN MarkBlockAsReceived(dl, t) ELSE dl
    /\ UNCHANGED <<chain, connects, messages>>

LeaveInitialBlockDownload == ibd /\ ibd' = FALSE /\ UNCHANGED <<dl, index, data, failed, tip, world, tasks, connects, messages>>

-----------------------------------------------------------------------------
(* The handlers.  A peer that is not prompt sends any message about any block. *)
Listens(p) == p \in Nodes /\ ~dl.nodes[p].disc
Receives(p, kind) ==
    /\ Listens(p) /\ p \notin Prompt /\ kind \in Kinds /\ messages < MaxMessages
    /\ messages' = messages + 1

ProcessInv(p, b) ==
    /\ Receives(p, "inv")
    /\ dl' = [dl EXCEPT !.nodes[p] = UpdateBlockAvailability(index, @, b)]
    /\ UNCHANGED <<chain, tasks, connects>>

(* The blocks ProcessHeaders fetches at once to switch to last, newest first   *)
(* and at most one more than fit, as the loop over pindexWalk collects them.   *)
Missing(s, last) ==
    LET walk == Reverse(SelectSeq(Ancestry[last], LAMBDA b : b \notin Active))
        want(b) == b \notin data /\ b \notin DOMAIN s.inflight
        step(w, b) == IF Len(w.fetch) > MaxInTransit THEN [w EXCEPT !.all = FALSE]
                      ELSE IF want(b) THEN [w EXCEPT !.fetch = Append(@, b)] ELSE w
    IN  FoldLeft(step, [fetch |-> <<>>, all |-> TRUE], walk)

DirectFetch(s, p, last) ==
    LET m == Missing(s, last)
        room == MaxInTransit - s.nodes[p].n
        bs == Reverse(m.fetch)
    IN  IF m.all THEN Request(s, p, SubSeq(bs, 1, IF room < Len(bs) THEN room ELSE Len(bs))) ELSE s

(* Accept the headers hs in order up to the first refused one.                 *)
AcceptHeaders(hs) ==
    FoldLeft(LAMBDA a, b : IF ~a.ok THEN a
                           ELSE IF b \in failed THEN [a EXCEPT !.ok = FALSE]
                           ELSE IF Prev[b] \in failed THEN [a EXCEPT !.ok = FALSE]
                           ELSE [a EXCEPT !.known = @ \cup {b}],
             [known |-> index, ok |-> TRUE], hs)

ProcessHeaders(p, hs, direct, bans) ==
    LET last == hs[Len(hs)]
        acc  == AcceptHeaders(hs)
        upd(known) == [dl EXCEPT !.nodes[p] = UpdateBlockAvailability(known, @, last)]
    IN  IF Prev[hs[1]] \notin index
        THEN /\ dl' = IF Len(hs) < MaxAnnounce THEN Misbehaving(upd(index), p, bans)
                      ELSE Misbehaving(dl, p, bans)
             /\ UNCHANGED <<index, data, failed, tasks>>
        ELSE IF ~acc.ok
        THEN /\ dl' = Misbehaving(dl, p, bans)
             /\ index' = acc.known
             /\ UNCHANGED <<data, failed, tasks>>
        ELSE /\ index' = acc.known
             /\ dl' = IF direct /\ Height(tip) <= Height(last) THEN DirectFetch(upd(acc.known), p, last)
                      ELSE upd(acc.known)
             /\ UNCHANGED <<data, failed, tasks>>

ProcessHeadersMessage(p, first, last) ==
    /\ Receives(p, "headers")
    /\ first \in Ancestors(last) \ {Genesis} /\ Height(last) - Height(first) < MaxHeaders
    /\ \E direct, bans \in BOOLEAN :
          ProcessHeaders(p, SubSeq(Ancestry[last], Height(first) + 1, Height(last) + 1), direct, bans)
    /\ UNCHANGED <<tip, ibd, world, connects>>

(* status: what FillBlock makes of the transactions.                           *)
ProcessBlockTxn(s, p, b, status) ==
    IF ~\E i \in DOMAIN s.nodes[p].queue : s.nodes[p].queue[i].hash = b /\ s.nodes[p].queue[i].partial
    THEN dl' = s /\ UNCHANGED <<index, data, failed, tasks>>
    ELSE CASE status = "invalid" -> /\ dl' = Misbehaving(MarkBlockAsReceived(s, b), p, TRUE)
                                    /\ UNCHANGED <<index, data, failed, tasks>>
           [] status = "failed"  -> dl' = Ask(s, p, b) /\ UNCHANGED <<index, data, failed, tasks>>
           [] OTHER ->
                LET r == MarkBlockAsReceived(s, b) IN
                ProcessNewBlock([r EXCEPT !.source = @ @@ (b :> [peer |-> p, punish |-> FALSE])], b, TRUE, FALSE)

ProcessBlockTxnMessage(p, b) ==
    /\ Receives(p, "blocktxn")
    /\ \E status \in {"invalid", "failed", "ok"} : ProcessBlockTxn(dl, p, b, status)
    /\ UNCHANGED <<tip, ibd, world, connects>>

(* The block is, or may be put, in flight from p.                              *)
MayTake(p, b) == IF b \in InFlight THEN dl.inflight[b] = p ELSE dl.nodes[p].n < MaxInTransit

(* Mutant: a compact block that cannot be filled is not asked for in full.     *)
CompactFromPeerNoFallback(s, p, b, status) ==
    LET again == \E i \in DOMAIN s.nodes[p].queue : s.nodes[p].queue[i].hash = b /\ s.nodes[p].queue[i].partial
        r == SetEntry(MarkBlockAsInFlight(s, p, b, TRUE), p, b, LAMBDA e : [e EXCEPT !.partial = TRUE])
        quiet(x) == dl' = x /\ index' = index \cup {b} /\ UNCHANGED <<data, failed, tasks>>
    IN  CASE again                     -> quiet(s)
          [] ~again /\ status = "missing" -> quiet(Ask(r, p, b))
          [] OTHER                     -> quiet(r)
(* A compact block from the peer the block is, or will be, in flight from.     *)
(* status: what InitData makes of it, or FillBlock when no transaction is      *)
(* missing and the blocktxn handler is called at once.                         *)
CompactFromPeer(s, p, b, status) ==
    LET again == \E i \in DOMAIN s.nodes[p].queue : s.nodes[p].queue[i].hash = b /\ s.nodes[p].queue[i].partial
        r == SetEntry(MarkBlockAsInFlight(s, p, b, TRUE), p, b, LAMBDA e : [e EXCEPT !.partial = TRUE])
        quiet(x) == dl' = x /\ index' = index \cup {b} /\ UNCHANGED <<data, failed, tasks>>
    IN  CASE again                       -> quiet(s)
          [] ~again /\ status = "invalid" -> quiet(Misbehaving(MarkBlockAsReceived(r, b), p, TRUE))
          [] ~again /\ status \in {"failed", "missing"} -> quiet(Ask(r, p, b))
          [] OTHER -> ProcessNewBlock([MarkBlockAsReceived(r, b) EXCEPT
                                          !.source = @ @@ (b :> [peer |-> p, punish |-> FALSE])], b, TRUE, FALSE)

ProcessCompactBlock(p, b, direct, status) ==
    LET u == [dl EXCEPT !.nodes[p] = UpdateBlockAvailability(index \cup {b}, @, b)]
        flying == b \in InFlight
        quiet == dl' = u /\ index' = index \cup {b} /\ UNCHANGED <<data, failed, tasks>>
    IN  CASE Prev[b] \notin index -> UNCHANGED <<dl, index, data, failed, tasks>>
          [] Prev[b] \in index /\ (b \in failed \/ Prev[b] \in failed) ->
                dl' = Misbehaving(dl, p, TRUE) /\ UNCHANGED <<index, data, failed, tasks>>
          [] OTHER ->
                IF b \in data \/ Height(b) <= Height(tip) \/ (~flying /\ ~direct) THEN quiet
                ELSE IF Height(b) > Height(tip) + 2
                THEN IF flying THEN quiet ELSE ProcessHeaders(p, <<b>>, direct, FALSE)
                ELSE IF MayTake(p, b)
                THEN CompactFromPeer(u, p, b, status)
                ELSE IF status = "ok"
                THEN ProcessNewBlock([u EXCEPT !.source = @ @@ (b :> [peer |-> p, punish |-> FALSE])], b, TRUE, TRUE)
                ELSE quiet

ProcessCompactBlockMessage(p, b) ==
    /\ Receives(p, "cmpctblock")
    /\ \E direct \in BOOLEAN, status \in {"invalid", "failed", "missing", "ok"} :
          ProcessCompactBlock(p, b, direct, status)
    /\ UNCHANGED <<tip, ibd, world, connects>>

ProcessBlockMessage(p, b) ==
    /\ \/ Receives(p, "block")
       \/ Listens(p) /\ b \in Queued(p) /\ UNCHANGED messages
    /\ LET r == [MarkBlockAsReceived(dl, b) EXCEPT !.source = @ @@ (b :> [peer |-> p, punish |-> TRUE])]
       IN  ProcessNewBlock(r, b, b \in InFlight \/ (p \in Whitelisted /\ ~ibd), FALSE)
    /\ UNCHANGED <<tip, ibd, world, connects>>

(* The chain a prompt peer is on.                                              *)
Best == CHOOSE b \in Blocks : Ancestors(b) \cap Bad = {} /\ ~\E x \in Blocks : Prev[x] = b

(* A prompt peer tells what it has, in answer to a getheaders or by itself.    *)
AnswerHeaders(p) ==
    /\ p \in Prompt /\ Listens(p) /\ dl.nodes[p].best # Best
    /\ LET first == CHOOSE b \in Ancestors(Best) \ {Genesis} :
                       /\ Prev[b] \in index
                       /\ \A x \in Ancestors(Best) \ {Genesis} : Prev[x] \in index => Height(x) <= Height(b)
       IN  ProcessHeaders(p, SubSeq(Ancestry[Best], Height(first) + 1, Height(Best) + 1), FALSE, FALSE)
    /\ UNCHANGED <<tip, ibd, world, connects, messages>>

-----------------------------------------------------------------------------
Init ==
    /\ dl = [nodes |-> <<>>, inflight |-> <<>>, source |-> <<>>, announce |-> <<>>,
             nDown |-> 0, nPref |-> 0, nSync |-> 0]
    /\ index = {Genesis} /\ data = {Genesis} /\ failed = {} /\ tip = Genesis
    /\ world \in Worlds /\ ibd = TRUE /\ tasks = {} /\ connects = 0 /\ messages = 0

Next ==
    \/ \E p \in Peers : \/ SendMessages(p) \/ DetectStalling(p) \/ InitializeNode(p)
                        \/ CloseSocket(p) \/ FinalizeNode(p) \/ AnswerHeaders(p)
    \/ \E p \in Peers, b \in Blocks :
          \/ ProcessInv(p, b) \/ ProcessBlockTxnMessage(p, b)
          \/ ProcessCompactBlockMessage(p, b) \/ ProcessBlockMessage(p, b)
    \/ \E p \in Peers, first, last \in Blocks : ProcessHeadersMessage(p, first, last)
    \/ \E t \in tasks : ActivateBestChain(t) \/ EndTask(t)
    \/ LeaveInitialBlockDownload

(* The loops keep running; a prompt peer connects, tells what it has and       *)
(* answers every request; the clock moves on while another peer does not.  All *)
(* of it is weak fairness of an action that ends the state it is due in.       *)
SendDue(p) ==
    Listens(p) /\ (dl.nodes[p].ban \/ \E r \in Recent : SendGetDataBlocks(SendBlockSync(dl, p, r), p) # dl)
StallDue(p) == p \notin Prompt /\ Listens(p) /\ (dl.nodes[p].stalling \/ dl.nodes[p].queue # <<>>)
PromptDue(p) ==
    p \in Prompt /\ (p \in Nodes => dl.nodes[p].best # Best \/ Queued(p) # {})
Fairness ==
    /\ \A p \in Peers : /\ []<>~SendDue(p) /\ []<>~StallDue(p) /\ []<>~PromptDue(p)
                        /\ []<>(p \in Nodes => ~dl.nodes[p].disc)
    /\ []<>(tasks = {})
Spec == Init /\ [][Next]_vars /\ Fairness

-----------------------------------------------------------------------------
(* The map of blocks in flight and the peers' queues say the same thing: each  *)
(* block in flight is in exactly one queue, once, of a peer that is still      *)
(* there, so that the iterator MarkBlockAsReceived erases through is valid.    *)
(* The counters kept beside the queues equal what they count, so that the      *)
(* consistency check FinalizeNode makes when the last peer leaves passes, and  *)
(* no path requests more than MAX_BLOCKS_IN_TRANSIT_PER_PEER blocks.           *)
QueuesMatchMap ==
    /\ \A b \in InFlight : dl.inflight[b] \in Nodes /\ b \in Queued(dl.inflight[b])
    /\ \A p \in Nodes : /\ dl.nodes[p] \in NodeState
                        /\ \A b \in Queued(p) : b \in InFlight /\ dl.inflight[b] = p
                        /\ Cardinality(Queued(p)) = Len(dl.nodes[p].queue)
                        /\ dl.nodes[p].n = Len(dl.nodes[p].queue) /\ dl.nodes[p].valid = dl.nodes[p].n
                        /\ dl.nodes[p].n <= MaxInTransit
    /\ dl.nDown = Cardinality({p \in Nodes : dl.nodes[p].queue # <<>>})
    /\ dl.nPref = Cardinality({p \in Nodes : dl.nodes[p].preferred})
    /\ dl.nSync = Cardinality({p \in Nodes : dl.nodes[p].sync})

(* No slot of a peer is taken for nothing: a block in flight from it was       *)
(* really asked of it, a stored valid block is still in flight only while the  *)
(* task that clears it is pending, and a peer is held to be stalling, or a     *)
(* block to come from it, only while it owes one, or is connected.             *)
SlotsInUse ==
    /\ \A p \in Nodes : \A i \in DOMAIN dl.nodes[p].queue : dl.nodes[p].queue[i].asked
    /\ \A b \in (InFlight \cap data) \ failed : b \in tasks
    /\ \A p \in Nodes : dl.nodes[p].stalling => dl.nodes[p].queue # <<>>
    /\ \A b \in DOMAIN dl.source : dl.source[b].peer \in Nodes

(* Everything up to pindexLastCommonBlock has been stored, so starting the     *)
(* next search there never skips a block that is missing.                      *)
CommonIsStored ==
    \A p \in Nodes : dl.nodes[p].common # None => HasChainTx(dl.nodes[p].common)

(* With one prompt peer the whole of its chain is downloaded and connected,    *)
(* whatever the other peers announce, withhold or claim.                       *)
ChainDownloaded == []<>(Prompt # {} => Best \in data /\ tip = Best)
=============================================================================
