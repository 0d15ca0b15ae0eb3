----------------------------- MODULE ChainSync -----------------------------
(***************************************************************************)
(* A node that synchronises with a peer whose chain is heavier             *)
(* (daemon/src/p2p/chain_sync), on the chain of BlockDag, while blocks are *)
(* also added by propagation and the operator pops blocks.                 *)
(*                                                                         *)
(* chain.topoheight and chain.height are the values in memory; top holds   *)
(* the stored ones, which a rollback brings back.                          *)
(*   peer      the peer's chain (a sequence, by topoheight) and priority   *)
(*   sync      the task of chain_sync_loop: where it is, the topoheight of *)
(*             the common point, the blocks of the response, the ones left *)
(*             to do, the validator's blocks with their cumulative         *)
(*             difficulties, the pop count, skip (the last round failed),  *)
(*             failed (this round did); before and calls are the work and  *)
(*             the operator's calls when the round began                   *)
(*   commit    what a rollback of the open commit point restores           *)
(*   adder     the holder of add_block_semaphore between its check under   *)
(*             the read guard and its write: the block and what it read    *)
(*   raced     one of the interleavings the code does not exclude was met: *)
(*             the chain cut, or a block deleted, while another block was  *)
(*             between its check and its write; the chain used between a   *)
(*             rollback and the reload; an ordered block deleted to be     *)
(*             executed again                                              *)
(*   overshot  a rewind went below the common point: pop_blocks stops only *)
(*             at a block that is alone at its height                      *)
(* raced, overshot, sync.before and sync.calls are history.                *)
(* The peer's chain is a line and does not change; one block is requested  *)
(* at a time (no boost sync); the node is not stopped meanwhile; nothing   *)
(* is pruned.                                                              *)
(***************************************************************************)
EXTENDS BlockDag

CONSTANTS
    HeaderOf,       \* the header of every block
    Starts,         \* records: our chain and the peer's, two sequences
    MaxResponse,    \* accepted_response_size
    MaxTimeouts,    \* bound on the requests that fail
    MaxPropagated   \* bound on the blocks added by propagation

VARIABLES top, peer, sync, commit, adder, raced, overshot, timeouts, propagated

syncVars == <<top, peer, sync, commit, adder, raced, overshot, timeouts, propagated>>
stable == <<stable_height, stable_topoheight>>
allVars == <<vars, syncVars>>

NoCommit == [open |-> FALSE]
NoBlock == [by |-> "nobody"]
NoSync == [pc |-> "idle", common |-> 0, blocks |-> <<>>, todo |-> <<>>, valid |-> <<>>,
           count |-> 0, skip |-> FALSE, failed |-> FALSE, before |-> 0, calls |-> 0]

-----------------------------------------------------------------------------
(* A chain that is a line. *)
Line(s) ==
    LET at(n) == IF n < Len(s) THEN s[n + 1] ELSE Absent
        place(b) == IF b \in ToSet(s) THEN (CHOOSE i \in DOMAIN s : s[i] = b) - 1 ELSE Absent
    IN  [header     |-> HeaderOf,
         blocks     |-> ToSet(s),
         cum        |-> [b \in Blocks |-> FoldSet(LAMBDA n, acc : HeaderOf[s[n + 1]].difficulty + acc,
                                                  0, 0..place(b))],
         topo       |-> [b \in Blocks |-> place(b)],
         hash_at    |-> [n \in Topos |-> at(n)],
         applied    |-> [n \in Topos |-> at(n)],
         tips       |-> {Last(s)},
         height     |-> HeaderOf[Last(s)].height,
         topoheight |-> Len(s) - 1,
         ended      |-> Len(s) - 1]

SyncInit ==
    /\ \E start \in Starts, priority \in BOOLEAN :
          /\ chain = Line(start.ours)
          /\ peer = [order |-> start.theirs, priority |-> priority]
    /\ LET m == CommonBaseCached(chain, NoCaches, chain.tips)
       IN  /\ caches = m
           /\ stable_height = HeightOf(chain, m.common_base[chain.tips])
           /\ stable_topoheight = chain.topo[m.common_base[chain.tips]]
    /\ calls = 0
    /\ top = [topoheight |-> chain.topoheight, height |-> chain.height]
    /\ sync = NoSync /\ commit = NoCommit /\ adder = NoBlock
    /\ raced = FALSE /\ overshot = FALSE /\ timeouts = 0 /\ propagated = 0

TopBlock(c) == c.hash_at[c.topoheight]
TopWork(c) == IF TopBlock(c) = Absent THEN 0 ELSE c.cum[TopBlock(c)]
PeerWork == Line(peer.order).cum[Last(peer.order)]

(* How a round ends: the next one is told whether it failed. *)
Return(failed) == sync' = [NoSync EXCEPT !.skip = failed]

(* An error ends the round; under a commit point, the rollback comes first. *)
Fail == IF commit.open THEN sync' = [sync EXCEPT !.pc = "end", !.failed = TRUE]
                       ELSE Return(TRUE)

NextBlock == sync' = [sync EXCEPT !.pc = "blocks", !.todo = Tail(@)]

-----------------------------------------------------------------------------
(* A round, up to the response *)

(* select_random_best_peer takes the peer when it is heavier and ahead;    *)
(* the ids of our blocks are sent, and the peer answers from its side the  *)
(* highest one it has at the same topoheight, and its blocks from there.   *)
CanAsk ==
    /\ TopBlock(chain) # Absent
    /\ PeerWork > TopWork(chain)
    /\ \/ Len(peer.order) - 1 > chain.topoheight
       \/ HeaderOf[Last(peer.order)].height > chain.height

Ask ==
    /\ sync.pc = "idle"
    /\ CanAsk
    /\ LET common == Max({n \in 0..Min({chain.topoheight, Len(peer.order) - 1}) :
                             peer.order[n + 1] = chain.hash_at[n]})
       IN  sync' = [sync EXCEPT
                !.pc = "asked", !.common = common,
                !.blocks = SubSeq(peer.order, common + 1, Min({common + MaxResponse, Len(peer.order)})),
                !.before = TopWork(chain), !.calls = calls]
    /\ UNCHANGED <<vars, top, peer, commit, adder, raced, overshot, timeouts, propagated>>

(* handle_chain_response, up to the choice of the way to synchronise.      *)
PopCount ==
    IF sync.skip \/ peer.priority \/ HeaderOf[Head(sync.blocks)].height <= stable_height
    THEN IF chain.topoheight > sync.common THEN chain.topoheight - sync.common
                                           ELSE sync.common - chain.topoheight
    ELSE 0

Rewinds ==
    /\ PopCount > 0
    /\ Len(peer.order) - 1 > chain.topoheight
    /\ HeaderOf[Last(peer.order)].height >= chain.height
    /\ sync.skip \/ sync.common < stable_topoheight

HandleResponse ==
    /\ sync.pc = "asked"
    /\ CASE chain.topo[Head(sync.blocks)] # sync.common -> Return(TRUE)
         [] chain.topo[Head(sync.blocks)] = sync.common /\ ~Rewinds ->
               sync' = [sync EXCEPT !.pc = "blocks", !.todo = sync.blocks]
         [] chain.topo[Head(sync.blocks)] = sync.common /\ Rewinds /\ peer.priority ->
               sync' = [sync EXCEPT !.pc = "rewind", !.count = PopCount]
         [] OTHER ->
               IF PopCount > Len(sync.blocks) THEN Return(TRUE)
               ELSE sync' = [sync EXCEPT !.pc = "headers", !.todo = sync.blocks, !.count = PopCount]
    /\ UNCHANGED <<vars, top, peer, commit, adder, raced, overshot, timeouts, propagated>>

-----------------------------------------------------------------------------
(* The chain validator *)

(* ChainValidatorProvider: the chain, with the validator's blocks ordered  *)
(* above the common point; they hide the chain's blocks at their places.   *)
View ==
    LET own(i) == sync.valid[i].block
        new    == {own(i) : i \in DOMAIN sync.valid}
        idx(b) == CHOOSE i \in DOMAIN sync.valid : own(i) = b
        at     == [n \in {sync.common + i : i \in DOMAIN sync.valid} |-> own(n - sync.common)]
    IN  [chain EXCEPT
            !.blocks  = @ \cup new,
            !.cum     = [b \in Blocks |-> IF b \in new THEN sync.valid[idx(b)].cum ELSE @[b]],
            !.topo    = [b \in Blocks |-> IF b \in new THEN sync.common + idx(b) ELSE @[b]],
            !.hash_at = at @@ @]

(* The header is requested unless the block is known. *)
AskHeader ==
    /\ sync.pc = "headers" /\ sync.todo # <<>>
    /\ sync' = IF Head(sync.todo) \in chain.blocks THEN [sync EXCEPT !.todo = Tail(@)]
               ELSE [sync EXCEPT !.pc = "header"]
    /\ UNCHANGED <<vars, top, peer, commit, adder, raced, overshot, timeouts, propagated>>

(* insert_block.  The caches it fills are those of the chain. *)
InsertBlock ==
    LET b == Head(sync.todo)
        m == Counting(View, caches, b)
        base == m.common_base[Past(chain, b)]
    IN  /\ sync.pc = "header"
        /\ IF b \in chain.blocks \/ ~(PastOf(chain, b) \ {b} \subseteq View.blocks)
           THEN Return(TRUE) /\ UNCHANGED caches
           ELSE /\ caches' = m
                /\ sync' = [sync EXCEPT !.pc = "headers", !.todo = Tail(@),
                                        !.valid = Append(@, [block |-> b, cum |-> m.work[<<b, base>>]])]
        /\ UNCHANGED <<chain, stable, calls, top, peer, commit, adder, raced, overshot, timeouts, propagated>>

(* has_higher_cumulative_difficulty *)
Heavier == sync.valid # <<>> /\ TopBlock(chain) # Absent /\ Last(sync.valid).cum > TopWork(chain)

Compare ==
    /\ sync.pc = "headers" /\ sync.todo = <<>>
    /\ IF Heavier THEN sync' = [sync EXCEPT !.pc = "commit", !.valid = <<>>] ELSE Return(TRUE)
    /\ UNCHANGED <<vars, top, peer, commit, adder, raced, overshot, timeouts, propagated>>

-----------------------------------------------------------------------------
(* Rewinding *)

StartCommitPoint ==
    /\ sync.pc = "commit"
    /\ commit' = [open |-> TRUE, chain |-> chain, top |-> top]
    /\ sync' = [sync EXCEPT !.pc = "rewind"]
    /\ UNCHANGED <<vars, top, peer, adder, raced, overshot, timeouts, propagated>>

StoredTop(c) == [topoheight |-> c.topoheight, height |-> c.height]
Cut == raced' = (raced \/ adder # NoBlock \/ sync.pc = "reload")

(* rewind_chain, for the pop count of the response. *)
RewindForPeer ==
    /\ sync.pc = "rewind"
    /\ \/ /\ Rewind(sync.count, FALSE)
          /\ top' = StoredTop(chain')
          /\ Cut
          /\ overshot' = (overshot \/ chain'.topoheight < sync.common)
          /\ IF peer.priority THEN Return(FALSE)
             ELSE sync' = [sync EXCEPT !.pc = "blocks", !.todo = sync.blocks]
       \/ ~CanRewind(sync.count) /\ Fail /\ UNCHANGED <<vars, top, raced, overshot>>
    /\ UNCHANGED <<calls, peer, commit, adder, timeouts, propagated>>

(* Mutant: what was done before the error is kept. *)
EndCommitPointKept ==
    /\ sync.pc = "end"
    /\ commit' = NoCommit
    /\ Return(sync.failed)
    /\ UNCHANGED <<vars, top, peer, adder, raced, overshot, timeouts, propagated>>

(* end_commit_point: a rollback restores what is stored, and leaves the    *)
(* values in memory to reload_from_disk, under another guard.              *)
EndCommitPoint ==
    /\ sync.pc = "end"
    /\ commit' = NoCommit
    /\ IF sync.failed
       THEN /\ chain' = [commit.chain EXCEPT !.topoheight = chain.topoheight, !.height = chain.height]
            /\ top' = commit.top
            /\ sync' = [sync EXCEPT !.pc = "reload"]
            /\ Cut
       ELSE Return(FALSE) /\ UNCHANGED <<chain, top, raced>>
    /\ UNCHANGED <<caches, stable, calls, peer, adder, overshot, timeouts, propagated>>

(* Mutant: the topoheight and the height are not read again. *)
ReloadFromDiskKept ==
    /\ sync.pc = "reload"
    /\ caches' = NoCaches
    /\ Return(TRUE)
    /\ raced' = (raced \/ adder # NoBlock)
    /\ UNCHANGED <<chain, stable, calls, top, peer, commit, adder, overshot, timeouts, propagated>>

(* reload_from_disk: the caches are cleared after they were used. *)
ReloadFromDisk ==
    /\ sync.pc = "reload"
    /\ LET base == CommonBase(chain, caches, chain.tips)
       IN  stable_height' = HeightOf(chain, base) /\ stable_topoheight' = chain.topo[base]
    /\ chain' = [chain EXCEPT !.topoheight = top.topoheight, !.height = top.height]
    /\ caches' = NoCaches
    /\ Return(TRUE)
    /\ raced' = (raced \/ adder # NoBlock)
    /\ UNCHANGED <<calls, top, peer, commit, adder, overshot, timeouts, propagated>>

-----------------------------------------------------------------------------
(* The blocks of the response, one by one *)

(* A block is requested unless it is known. *)
RequestBlock ==
    /\ sync.pc = "blocks" /\ sync.todo # <<>>
    /\ sync' = [sync EXCEPT !.pc = IF Head(sync.todo) \in chain.blocks THEN "known" ELSE "requested"]
    /\ UNCHANGED <<vars, top, peer, commit, adder, raced, overshot, timeouts, propagated>>

(* It comes; without a commit point it is looked up once more. *)
ReceiveBlock ==
    /\ sync.pc = "requested"
    /\ IF ~commit.open /\ Head(sync.todo) \in chain.blocks THEN NextBlock
       ELSE sync' = [sync EXCEPT !.pc = "queued"]
    /\ UNCHANGED <<vars, top, peer, commit, adder, raced, overshot, timeouts, propagated>>

(* Mutant: a known block is never executed again. *)
TryReExecutionSkips ==
    /\ sync.pc = "known"
    /\ NextBlock
    /\ UNCHANGED <<vars, top, peer, commit, adder, raced, overshot, timeouts, propagated>>

(* try_re_execution_block: a known block that is not ordered ... *)
TryReExecution ==
    /\ sync.pc = "known"
    /\ IF Ordered(chain, Head(sync.todo)) THEN NextBlock
       ELSE sync' = [sync EXCEPT !.pc = "delete"]
    /\ UNCHANGED <<vars, top, peer, commit, adder, raced, overshot, timeouts, propagated>>

(* ... is deleted under the write guard, to be added again. *)
DeleteBlock ==
    LET b == Head(sync.todo) IN
    /\ sync.pc = "delete"
    /\ IF b \in chain.blocks
       THEN /\ chain' = [chain EXCEPT !.blocks = @ \ {b}, !.tips = @ \ {b}]
            /\ sync' = [sync EXCEPT !.pc = "queued"]
            /\ raced' = (raced \/ adder # NoBlock \/ Ordered(chain, b))
       ELSE Fail /\ UNCHANGED <<chain, raced>>
    /\ UNCHANGED <<caches, stable, calls, top, peer, commit, adder, overshot, timeouts, propagated>>

AllBlocksDone ==
    /\ sync.pc = "blocks" /\ sync.todo = <<>>
    /\ IF commit.open THEN sync' = [sync EXCEPT !.pc = "end"] ELSE Return(FALSE)
    /\ UNCHANGED <<vars, top, peer, commit, adder, raced, overshot, timeouts, propagated>>

(* A request times out, or the peer fails to answer. *)
TimeOut ==
    /\ sync.pc \in {"asked", "header", "requested"}
    /\ timeouts < MaxTimeouts /\ timeouts' = timeouts + 1
    /\ Fail
    /\ UNCHANGED <<vars, top, peer, commit, adder, raced, overshot, propagated>>

-----------------------------------------------------------------------------
(* add_new_block in two steps *)

(* What the read guard is held for. *)
Passes(b) ==
    /\ b \notin chain.blocks
    /\ Past(chain, b) \subseteq chain.blocks
    /\ Accepts(chain, b)
    /\ PastOf(chain, b) \ {b} \subseteq chain.blocks
    /\ chain.topo[CommonBase(chain, caches, Past(chain, b))] # Absent

Check(b, by) ==
    /\ adder = NoBlock
    /\ Passes(b)
    /\ \E m \in {Counting(chain, caches, b)} :
          /\ caches' = m
          /\ adder' = [by |-> by, block |-> b, topoheight |-> chain.topoheight, height |-> chain.height,
                       cum |-> Saved(chain, m, b).cum[b]]
    /\ raced' = (raced \/ sync.pc = "reload")
    /\ UNCHANGED <<chain, stable, calls, top, peer, commit, overshot, timeouts>>

CheckSynced ==
    /\ sync.pc = "queued"
    /\ \/ /\ Check(Head(sync.todo), "sync")
          /\ sync' = [sync EXCEPT !.pc = "writing"]
       \/ /\ adder = NoBlock /\ ~Passes(Head(sync.todo))
          /\ Fail
          /\ UNCHANGED <<vars, top, peer, commit, adder, raced, overshot, timeouts>>
    /\ UNCHANGED propagated

CheckPropagated ==
    /\ propagated < MaxPropagated /\ propagated' = propagated + 1
    /\ \E b \in Blocks : Check(b, "propagation")
    /\ UNCHANGED sync

(* The chain as the writer sees it: what it read in memory may be stale.   *)
Seen == [chain EXCEPT !.topoheight = adder.topoheight, !.height = adder.height,
                      !.blocks = @ \cup {adder.block}, !.cum[adder.block] = adder.cum]

(* The tips lead to a block that is gone, or the base is not ordered.      *)
Unreadable(c) ==
    \/ \E t \in NewTips(c, adder.block) : ~(PastOf(c, t) \subseteq c.blocks)
    \/ c.topo[CommonBase(c, caches, NewTips(c, adder.block))] = Absent

(* The blocks the cleaning loop has to read and cannot. *)
Missing(c, first) == {n \in first..c.topoheight : c.hash_at[n] \notin c.blocks}

Written(ok) ==
    /\ adder' = NoBlock
    /\ CASE adder.by = "propagation" -> UNCHANGED sync
         [] adder.by = "sync" /\ ok -> NextBlock
         [] OTHER -> Fail

(* The write: an error leaves what was done before it. *)
Write ==
    /\ adder # NoBlock
    /\ \/ /\ Unreadable(Seen)
          /\ chain' = [Seen EXCEPT !.topoheight = chain.topoheight, !.height = chain.height]
          /\ Written(FALSE)
          /\ UNCHANGED <<caches, stable, top>>
       \/ /\ ~Unreadable(Seen)
          /\ LET base  == CommonBase(Seen, caches, NewTips(Seen, adder.block))
                 from  == Seen.topo[base]
                 m     == BestTipCached(Seen, CommonBaseCached(Seen, caches, NewTips(Seen, adder.block)),
                                        NewTips(Seen, adder.block), base)
                 full  == FullOrder(Seen, m, BestTip(m, NewTips(Seen, adder.block), base), base)
                 first == from + Unmoved(Seen, full.order, from)
             IN  IF Missing(Seen, first) # {}
                 THEN /\ chain' = [Seen EXCEPT !.topoheight = chain.topoheight, !.height = chain.height,
                                     !.applied = [n \in Topos |-> IF n >= first /\ n < Min(Missing(Seen, first))
                                                                  THEN Absent ELSE @[n]]]
                      /\ caches' = full.caches
                      /\ Written(FALSE)
                      /\ UNCHANGED <<stable, top>>
                 ELSE \E to \in Integrated(Seen, caches, adder.block) :
                      LET extended == adder.height = 0 \/ to.chain.ended > adder.topoheight
                          higher   == adder.height = 0 \/ HeightOf(chain, adder.block) > adder.height
                      IN  /\ chain' = [to.chain EXCEPT
                                !.topoheight = IF extended THEN @ ELSE chain.topoheight,
                                !.height     = IF higher THEN HeightOf(chain, adder.block) ELSE chain.height]
                          /\ top' = [topoheight |-> IF extended THEN to.chain.topoheight ELSE top.topoheight,
                                     height |-> IF higher THEN HeightOf(chain, adder.block) ELSE top.height]
                          /\ caches' = to.caches
                          /\ stable_height' = HeightOf(to.chain, to.base)
                          /\ stable_topoheight' = from
                          /\ Written(TRUE)
    /\ UNCHANGED <<calls, peer, commit, raced, overshot, timeouts, propagated>>

(* The operator pops blocks. *)
PopBlocks ==
    /\ \E count \in 1..2 : RewindChain(count, TRUE)
    /\ top' = StoredTop(chain')
    /\ Cut
    /\ UNCHANGED <<peer, sync, commit, adder, overshot, timeouts, propagated>>

-----------------------------------------------------------------------------
SyncStep ==
    \/ Ask \/ HandleResponse
    \/ AskHeader \/ InsertBlock \/ Compare
    \/ StartCommitPoint \/ RewindForPeer \/ EndCommitPoint \/ ReloadFromDisk
    \/ RequestBlock \/ ReceiveBlock \/ TryReExecution \/ DeleteBlock \/ AllBlocksDone
    \/ CheckSynced

SyncNext == SyncStep \/ Write \/ TimeOut \/ CheckPropagated \/ PopBlocks

(* When the sync task has a step to take. *)
SyncReady ==
    CASE sync.pc = "idle"    -> CanAsk
      [] sync.pc = "queued"  -> adder = NoBlock
      [] sync.pc = "writing" -> FALSE
      [] OTHER               -> TRUE

(* Weak fairness of SyncStep and of Write, which is enabled as long as the *)
(* semaphore is held: no task is left waiting for ever.                    *)
Fairness ==
    /\ []<>~SyncReady \/ []<><<SyncStep>>_sync
    /\ []<>(adder = NoBlock)

SyncSpec == SyncInit /\ [][SyncNext]_allVars /\ Fairness

-----------------------------------------------------------------------------
(* Properties *)

(* After the disturbances, which are bounded, the node is as heavy as the  *)
(* peer it synchronises with: no error, timeout or rollback leaves         *)
(* chain_sync_loop repeating a round that cannot succeed.                  *)
CatchesUp == <>[](~raced /\ ~overshot /\ calls = 0 => TopWork(chain) >= PeerWork)

(* A round with a peer that is not trusted never leaves the node with less *)
(* work than it had: handle_chain_response rewinds only for a heavier      *)
(* chain, and takes all of it or rolls back.                               *)
NeverLighter ==
    [][sync.pc # "idle" /\ sync'.pc = "idle" /\ ~peer.priority /\ ~raced' /\ calls' = sync.calls
          => TopWork(chain') >= sync.before]_allVars

(* Between rounds the chain is whole, whatever was rewound, rolled back,   *)
(* executed again or cached by a validator: the order is topological and   *)
(* its state applied, the values in memory are the stored ones, and every  *)
(* cumulative difficulty is all the work below.                            *)
ChainWhole == ~raced /\ sync.pc = "idle" =>
    /\ ParentsFirst
    /\ \A n \in 0..chain.topoheight :
          chain.applied[n] = chain.hash_at[n] /\ Ordered(chain, chain.hash_at[n])
    /\ top = StoredTop(chain)
    /\ \A b \in chain.blocks : chain.cum[b] = Work(chain, b)
=============================================================================
