------------------------------ MODULE DagReorg ------------------------------
(***************************************************************************)
(* How a new block, a rewind and a pruning move the topological order of   *)
(* the chain (daemon/src/core/blockchain.rs, daemon/src/core/storage).     *)
(*                                                                         *)
(* add_new_block saves the block, asks the DAG for a full order starting   *)
(* at a base block, undoes the execution of every block whose place        *)
(* changed, then places and executes the rest of the order one block at a  *)
(* time.  The order itself is computed by the algorithms of module         *)
(* BlockDag; here it is any order that holds the base, repeats no block    *)
(* and takes no block from below the base.  The write guard on the         *)
(* storage is held from the first step of a job to its last, so two jobs   *)
(* never interleave; a crash may fall between any two steps.               *)
(* After a crash, and after an order shorter than the one it replaces,     *)
(* most properties are lost: they are stated up to then (~cut).            *)
(***************************************************************************)
EXTENDS Integers, Sequences

CONSTANTS
    Blocks,         \* the block hashes
    Genesis,        \* the block at topoheight 0
    Txs,            \* the transaction hashes
    TxsOf,          \* the transactions of each block
    None,           \* an absent key
    MaxTopo,        \* bound: the highest topoheight
    PRUNE_SAFETY_LIMIT,
    auto_prune_keep_n_blocks    \* 0 when auto pruning is off

Topos == 0..MaxTopo

ASSUME ConstantsAssumption ==
    /\ Genesis \in Blocks
    /\ None \notin Blocks /\ None \notin Int
    /\ TxsOf \in [Blocks -> SUBSET Txs] /\ TxsOf[Genesis] = {}
    /\ MaxTopo \in Nat /\ PRUNE_SAFETY_LIMIT \in Nat /\ auto_prune_keep_n_blocks \in Nat

VARIABLES
    blocks,         \* tree blocks: the saved block headers
    stored,         \* tree transactions
    linked,         \* tree tx_blocks: the blocks known to hold a transaction
    executed,       \* tree txs_executed: the block that executed a transaction
    hash_at_topo, topo_by_hash,
    applied,        \* the block whose changes the versioned data hold at a topoheight
    topoheight, stable_topoheight, pruned,
    placed,         \* the topoheight of the last block of the last full order
    pc,             \* the job that holds the write guard
    block,          \* the block being added
    base,           \* base_topo_height
    full_order,     \* the order from base up
    done,           \* hashes of full_order skipped or placed so far
    cursor,         \* the topoheight being cleaned, popped or pruned
    lowest,         \* where a rewind or a pruning stops
    is_written,
    stop,           \* stop_at_stable_height
    orphaned,       \* orphaned_transactions
    before,         \* history: the transactions executed when the job began
    cut             \* history: a job was cut short, or an order got shorter

storage == <<blocks, stored, linked, executed, hash_at_topo, topo_by_hash, applied>>
chain   == <<topoheight, stable_topoheight, pruned, placed>>
job     == <<block, base, full_order, done, cursor, lowest, is_written, stop, orphaned, before>>
vars    == <<storage, chain, pc, job, cut>>

(* is_block_topological_ordered: the two pointers name each other.         *)
Ordered(h) ==
    /\ topo_by_hash[h] # None
    /\ hash_at_topo[topo_by_hash[h]] = h

Init ==
    /\ blocks = {Genesis} /\ stored = {}
    /\ linked = [t \in Txs |-> {}] /\ executed = [t \in Txs |-> None]
    /\ hash_at_topo = [n \in Topos |-> IF n = 0 THEN Genesis ELSE None]
    /\ topo_by_hash = [h \in Blocks |-> IF h = Genesis THEN 0 ELSE None]
    /\ applied = [n \in Topos |-> IF n = 0 THEN Genesis ELSE None]
    /\ topoheight = 0 /\ stable_topoheight = 0 /\ pruned = 0 /\ placed = 0
    /\ pc = "idle" /\ block = Genesis /\ base = 0 /\ full_order = <<>>
    /\ done = 0 /\ cursor = 0 /\ lowest = 0 /\ is_written = FALSE /\ stop = FALSE
    /\ orphaned = {} /\ before = {} /\ cut = FALSE

(* The call returns: its local variables are gone.                         *)
Leave(next) ==
    /\ pc' = next /\ block' = Genesis /\ base' = 0 /\ full_order' = <<>>
    /\ done' = 0 /\ cursor' = 0 /\ lowest' = 0 /\ is_written' = FALSE /\ stop' = FALSE
    /\ orphaned' = {} /\ before' = {}

Return == Leave("idle")

Executed == {t \in Txs : executed[t] # None}

-----------------------------------------------------------------------------
(* add_new_block *)

(* Orders without repetition: generate_full_order returns an IndexSet.     *)
Orders ==
    {s \in UNION {[1..n -> Blocks] : n \in 1..MaxTopo + 1} :
        \A i, j \in DOMAIN s : s[i] = s[j] => i = j}

(* What the order of the DAG guarantees: the base block is ordered and is  *)
(* part of the order, though not always its first hash unless it is the    *)
(* genesis, and the order holds saved blocks, none of them ordered below   *)
(* the base (BlockDag, OrderAboveBase).                                    *)
FullOrder(s, from, known) ==
    /\ hash_at_topo[from] # None /\ topo_by_hash[hash_at_topo[from]] = from
    /\ \E k \in DOMAIN s : s[k] = hash_at_topo[from] /\ (from = 0 => k = 1)
    /\ from + Len(s) - 1 \in Topos
    /\ \A k \in DOMAIN s :
          /\ s[k] \in known
          /\ Ordered(s[k]) => topo_by_hash[s[k]] >= from

(* save_block stores the transactions that are missing, then the header;   *)
(* then the common base of the new tips and the order above it are         *)
(* computed.                                                               *)
SaveBlock(b, from, s) ==
    /\ pc = "idle"
    /\ b \notin blocks
    /\ FullOrder(s, from, blocks \cup {b})
    /\ blocks' = blocks \cup {b}
    /\ stored' = stored \cup TxsOf[b]
    /\ pc' = "clean" /\ block' = b /\ base' = from /\ full_order' = s
    /\ done' = 0 /\ cursor' = from
    /\ is_written' = (from = 0)
    /\ orphaned' = {} /\ before' = Executed
    /\ cut' = (cut \/ from + Len(s) - 1 < topoheight)
    /\ UNCHANGED <<linked, executed, hash_at_topo, topo_by_hash, applied, chain, lowest, stop>>

(* The rest of full_order once its first hashes were removed.              *)
Remaining == {full_order[k] : k \in done + 1..Len(full_order)}

(* The block at this topoheight did not move.                              *)
Stays ==
    /\ ~is_written /\ done < Len(full_order)
    /\ Ordered(full_order[done + 1])
    /\ full_order[done + 1] = hash_at_topo[cursor]

CleanSkip ==
    /\ pc = "clean" /\ cursor <= topoheight
    /\ hash_at_topo[cursor] # None
    /\ Stays
    /\ done' = done + 1 /\ cursor' = cursor + 1
    /\ UNCHANGED <<storage, chain, pc, block, base, full_order, lowest, is_written, stop, orphaned, before>>

(* Mutant: a block that is cleaned keeps its executions.                   *)
UndoneNever(h) == {}

(* The transactions a block executed.                                      *)
Undone(h) == {t \in TxsOf[h] : executed[t] = h}

(* Mutant: the transactions of a block left out are forgotten.             *)
LostNever(h) == {}

(* Those of a block that is no longer in the order wait for the mempool.   *)
Lost(h) == IF h \in Remaining THEN {} ELSE Undone(h)

(* Every transaction the block executed is unmarked, and the versioned     *)
(* data written at its topoheight are deleted.                             *)
CleanStep ==
    /\ pc = "clean" /\ cursor <= topoheight
    /\ hash_at_topo[cursor] # None /\ hash_at_topo[cursor] \in blocks
    /\ ~Stays
    /\ LET h == hash_at_topo[cursor]
       IN  /\ executed' = [t \in Txs |-> IF t \in Undone(h) THEN None ELSE executed[t]]
           /\ orphaned' = orphaned \cup Lost(h)
    /\ applied' = [applied EXCEPT ![cursor] = None]
    /\ is_written' = TRUE /\ cursor' = cursor + 1
    /\ UNCHANGED <<blocks, stored, linked, hash_at_topo, topo_by_hash, chain, pc,
                   block, base, full_order, done, lowest, stop, before>>

(* A pointer or a header that is missing ends the whole call with an       *)
(* error; what it wrote so far stays.                                      *)
CleanFail ==
    /\ pc = "clean" /\ cursor <= topoheight
    /\ hash_at_topo[cursor] = None \/ hash_at_topo[cursor] \notin blocks
    /\ Return
    /\ UNCHANGED <<storage, chain>>

CleanDone ==
    /\ pc = "clean" /\ cursor > topoheight
    /\ pc' = "order"
    /\ UNCHANGED <<storage, chain, job>>

(* The place of the next block of the order.                               *)
At == base + done
NextHash == full_order[done + 1]

(* A block that is found at its place is left alone, as long as nothing    *)
(* before it was rewritten.                                                *)
InPlace == ~is_written /\ Ordered(NextHash) /\ topo_by_hash[NextHash] = At

OrderSkip ==
    /\ pc = "order" /\ done < Len(full_order) /\ InPlace
    /\ done' = done + 1
    /\ UNCHANGED <<storage, chain, pc, block, base, full_order, cursor, lowest,
                   is_written, stop, orphaned, before>>

(* Mutant: one of the two pointers is set.                                 *)
SetTopoHeightHalf(h, n) ==
    /\ hash_at_topo' = [hash_at_topo EXCEPT ![n] = h]
    /\ UNCHANGED topo_by_hash

SetTopoHeight(h, n) ==
    /\ hash_at_topo' = [hash_at_topo EXCEPT ![n] = h]
    /\ topo_by_hash' = [topo_by_hash EXCEPT ![h] = n]

(* The transactions of the block are linked to it; those no block executed *)
(* yet are executed, except the ones that meet a used nonce or fail.       *)
OrderStep(valid) ==
    /\ pc = "order" /\ done < Len(full_order) /\ ~InPlace
    /\ TxsOf[NextHash] \subseteq stored
    /\ valid \subseteq {t \in TxsOf[NextHash] : executed[t] = None}
    /\ SetTopoHeight(NextHash, At)
    /\ linked' = [t \in Txs |-> IF t \in TxsOf[NextHash]
                                  THEN linked[t] \cup {NextHash} ELSE linked[t]]
    /\ executed' = [t \in Txs |-> IF t \in valid THEN NextHash ELSE executed[t]]
    /\ orphaned' = (orphaned \cup {t \in TxsOf[NextHash] : executed[t] = None}) \ valid
    /\ applied' = [applied EXCEPT ![At] = NextHash]
    /\ is_written' = TRUE /\ done' = done + 1
    /\ UNCHANGED <<blocks, stored, chain, pc, block, base, full_order, cursor, lowest, stop, before>>

(* get_block_by_hash fails once the block has its new place.               *)
OrderFail ==
    /\ pc = "order" /\ done < Len(full_order) /\ ~InPlace
    /\ ~(TxsOf[NextHash] \subseteq stored)
    /\ SetTopoHeight(NextHash, At)
    /\ Return
    /\ UNCHANGED <<blocks, stored, linked, executed, applied, chain>>

(* Auto pruning happens at every n-th topoheight, once there is a block    *)
(* above genesis to delete.                                                *)
PrunesAt(n) ==
    /\ auto_prune_keep_n_blocks > 0
    /\ n % auto_prune_keep_n_blocks = 0 /\ n > auto_prune_keep_n_blocks

(* The topoheight is raised when the order got longer, never lowered; a    *)
(* block left out of the order is linked to its transactions.  A longer    *)
(* chain may go on with an auto pruning.                                   *)
OrderDone ==
    /\ pc = "order" /\ done = Len(full_order)
    /\ topoheight' = IF At - 1 > topoheight THEN At - 1 ELSE topoheight
    /\ placed' = At - 1
    /\ stable_topoheight' = base
    /\ linked' = IF \E k \in DOMAIN full_order : full_order[k] = block THEN linked
                   ELSE [t \in Txs |-> IF t \in TxsOf[block]
                                         THEN linked[t] \cup {block} ELSE linked[t]]
    /\ Leave(IF At - 1 > topoheight /\ PrunesAt(At - 1) THEN "auto_prune" ELSE "idle")
    /\ UNCHANGED <<blocks, stored, executed, hash_at_topo, topo_by_hash, applied, pruned>>

-----------------------------------------------------------------------------
(* delete_block_at_topoheight; txs are the transactions it gets through.   *)
DeletePointers(n) ==
    /\ hash_at_topo' = [hash_at_topo EXCEPT ![n] = None]
    /\ topo_by_hash' = [topo_by_hash EXCEPT ![hash_at_topo[n]] = None]

(* Mutant: a transaction goes with the first of its blocks.                *)
UnlinkDeletes(h, txs) ==
    /\ linked' = [t \in Txs |-> IF t \in txs THEN linked[t] \ {h} ELSE linked[t]]
    /\ executed' = [t \in Txs |-> IF t \in txs /\ executed[t] = h THEN None ELSE executed[t]]
    /\ stored' = stored \ txs

(* Mutant: the mark of the execution stays.                                *)
UnlinkKeepsExecuted(h, txs) ==
    /\ linked' = [t \in Txs |-> IF t \in txs THEN linked[t] \ {h} ELSE linked[t]]
    /\ stored' = stored \ {t \in txs : linked[t] \ {h} = {}}
    /\ UNCHANGED executed

Unlink(h, txs) ==
    /\ linked' = [t \in Txs |-> IF t \in txs THEN linked[t] \ {h} ELSE linked[t]]
    /\ executed' = [t \in Txs |-> IF t \in txs /\ executed[t] = h THEN None ELSE executed[t]]
    /\ stored' = stored \ {t \in txs : linked[t] \ {h} = {}}

DeleteBlockAt(n) ==
    LET h == hash_at_topo[n] IN
    /\ h # None /\ topo_by_hash[h] # None /\ h \in blocks
    /\ TxsOf[h] \subseteq stored
    /\ DeletePointers(n)
    /\ blocks' = blocks \ {h}
    /\ Unlink(h, TxsOf[h])

(* The deletion stops at the first key it does not find.                   *)
DeleteFails(n) ==
    LET h == hash_at_topo[n] IN
    \/ h = None /\ UNCHANGED <<blocks, stored, linked, executed, hash_at_topo, topo_by_hash>>
    \/ /\ h # None /\ topo_by_hash[h] = None
       /\ hash_at_topo' = [hash_at_topo EXCEPT ![n] = None]
       /\ UNCHANGED <<blocks, stored, linked, executed, topo_by_hash>>
    \/ /\ h # None /\ topo_by_hash[h] # None /\ h \in blocks
       /\ \E txs \in SUBSET (TxsOf[h] \cap stored) :
             txs # TxsOf[h] /\ ~(TxsOf[h] \subseteq stored) /\ Unlink(h, txs)
       /\ DeletePointers(n)
       /\ blocks' = blocks \ {h}

(* rewind_chain_for_storage: a rewind that stops at the stable height goes *)
(* no lower than it, and pop_blocks looks for a lower place to stop at, a  *)
(* block alone at its height.                                              *)
RewindStart(count, at_stable, sync) ==
    LET safety == pruned + PRUNE_SAFETY_LIMIT
        until  == IF at_stable THEN stable_topoheight ELSE 0
        found  == IF pruned # 0 /\ sync <= safety /\ until # 0 THEN safety ELSE sync
    IN  /\ pc = "idle" /\ count <= topoheight
        /\ sync <= topoheight - count
        /\ sync = topoheight - count \/ sync >= pruned
        /\ pc' = "pop"
        /\ cursor' = topoheight
        /\ lowest' = IF found > until THEN found ELSE until
        /\ stop' = at_stable
        /\ UNCHANGED <<storage, chain, block, base, full_order, done, is_written, orphaned, before>>

PopStep ==
    /\ pc = "pop" /\ cursor > lowest /\ cursor > pruned
    /\ DeleteBlockAt(cursor)
    /\ applied' = [applied EXCEPT ![cursor] = None]
    /\ cursor' = cursor - 1
    /\ UNCHANGED <<chain, pc, block, base, full_order, done, lowest, is_written, stop, orphaned, before>>

(* Popping the block at the pruned topoheight restarts from genesis.       *)
PopReset ==
    /\ pc = "pop" /\ cursor > lowest /\ cursor <= pruned
    /\ DeleteBlockAt(cursor)
    /\ applied' = [n \in Topos |-> IF n = 0 THEN applied[0] ELSE None]
    /\ topoheight' = 0 /\ pruned' = 0 /\ placed' = 0 /\ stable_topoheight' = 0
    /\ Return

PopFail ==
    /\ pc = "pop" /\ cursor > lowest
    /\ DeleteFails(cursor)
    /\ Return
    /\ UNCHANGED <<applied, chain>>

(* The new topoheight is stored; without the stop at the stable height the *)
(* common base of the new tips gives the new stable block.                 *)
PopDone(common) ==
    /\ pc = "pop" /\ cursor <= lowest
    /\ topoheight' = cursor
    /\ placed' = IF placed > cursor THEN cursor ELSE placed
    /\ IF stop THEN common = stable_topoheight
               ELSE common <= cursor /\ hash_at_topo[common] # None
    /\ stable_topoheight' = common
    /\ Return
    /\ UNCHANGED <<storage, pruned>>

-----------------------------------------------------------------------------
(* prune_until_topoheight_for_storage: sync is the sync block located at   *)
(* or below the topoheight asked for; genesis is never deleted.            *)
LastPruned == IF pruned = 0 THEN 1 ELSE pruned

PruneStart(n, sync) ==
    /\ pc = "idle" \/ (pc = "auto_prune" /\ n = topoheight - auto_prune_keep_n_blocks)
    /\ n > 0 /\ n < topoheight /\ topoheight - n >= PRUNE_SAFETY_LIMIT
    /\ n >= LastPruned
    /\ sync <= n /\ sync <= stable_topoheight /\ sync > LastPruned
    /\ pc' = "prune" /\ cursor' = LastPruned /\ lowest' = sync
    /\ UNCHANGED <<storage, chain, block, base, full_order, done, is_written, stop, orphaned, before>>

(* The limits refuse the auto pruning, or no new sync block was located.   *)
AutoPruneNothing ==
    /\ pc = "auto_prune"
    /\ Return
    /\ UNCHANGED <<storage, chain>>

PruneStep ==
    /\ pc = "prune" /\ cursor < lowest
    /\ DeleteBlockAt(cursor)
    /\ cursor' = cursor + 1
    /\ UNCHANGED <<applied, chain, pc, block, base, full_order, done, lowest, is_written, stop,
                   orphaned, before>>

PruneFail ==
    /\ pc = "prune" /\ cursor < lowest
    /\ DeleteFails(cursor)
    /\ Return
    /\ UNCHANGED <<applied, chain>>

(* Mutant: the versioned data at the new limit go too.                     *)
AppliedFromNext(limit) == [n \in Topos |-> IF n <= limit THEN None ELSE applied[n]]

(* delete_versioned_data_below_topoheight                                  *)
AppliedFrom(limit) == [n \in Topos |-> IF n < limit THEN None ELSE applied[n]]

(* The versioned data below the new limit go, then the limit is stored.    *)
PruneDone ==
    /\ pc = "prune" /\ cursor = lowest
    /\ applied' = AppliedFrom(lowest)
    /\ pruned' = lowest
    /\ Return
    /\ UNCHANGED <<blocks, stored, linked, executed, hash_at_topo, topo_by_hash,
                   topoheight, stable_topoheight, placed>>

-----------------------------------------------------------------------------
(* The process stops inside a job.  Every write made so far is on disk; on *)
(* the next start the heights are read back and the stable block is the    *)
(* common base of the stored tips.                                         *)
Crash ==
    /\ pc # "idle"
    /\ cut' = TRUE
    /\ Return
    /\ UNCHANGED <<storage, chain>>

AddBlock ==
    /\ pc = "idle"
    /\ \E b \in Blocks \ blocks, from \in pruned..placed, s \in Orders : SaveBlock(b, from, s)
Order == \E valid \in SUBSET Txs : OrderStep(valid)
Rewind ==
    \E count \in 0..topoheight, at_stable \in BOOLEAN, sync \in Topos :
        RewindStart(count, at_stable, sync)
RewindDone == \E common \in Topos : PopDone(common)
Prune == \E n, sync \in Topos : PruneStart(n, sync)

Next ==
    \/ AddBlock
    \/ Crash
    \/ /\ \/ CleanSkip \/ CleanStep \/ CleanFail \/ CleanDone
          \/ OrderSkip \/ Order \/ OrderFail \/ OrderDone
          \/ Rewind \/ PopStep \/ PopReset \/ PopFail \/ RewindDone
          \/ Prune \/ AutoPruneNothing \/ PruneStep \/ PruneFail \/ PruneDone
       /\ UNCHANGED cut

Spec == Init /\ [][Next]_vars

-----------------------------------------------------------------------------
TypeOK ==
    /\ blocks \subseteq Blocks /\ stored \subseteq Txs
    /\ linked \in [Txs -> SUBSET Blocks]
    /\ executed \in [Txs -> Blocks \cup {None}]
    /\ hash_at_topo \in [Topos -> Blocks \cup {None}]
    /\ topo_by_hash \in [Blocks -> Topos \cup {None}]
    /\ applied \in [Topos -> Blocks \cup {None}]
    /\ {topoheight, stable_topoheight, pruned, placed, base} \subseteq Topos
    /\ pc \in {"idle", "clean", "order", "pop", "auto_prune", "prune"}
    /\ block \in Blocks /\ (full_order = <<>> \/ full_order \in Orders)
    /\ done \in 0..Len(full_order)
    /\ cursor \in 0..MaxTopo + 1 /\ lowest \in Nat
    /\ is_written \in BOOLEAN /\ stop \in BOOLEAN /\ cut \in BOOLEAN
    /\ orphaned \subseteq Txs /\ before \subseteq Txs

(* Between two calls the order has no hole and no block stands in it       *)
(* twice: each topoheight of the chain names a saved block, which names it *)
(* back.                                                                   *)
PointersAgree ==
    ~cut /\ pc = "idle" =>
        \A n \in pruned..topoheight :
            /\ hash_at_topo[n] \in blocks
            /\ topo_by_hash[hash_at_topo[n]] = n

(* Between two calls the versioned data at each topoheight of the order    *)
(* are those of the block that stands there: a reorganisation re-executes  *)
(* every block it moved and every block whose changes it deleted.  Genesis *)
(* is left out: a rewind past the pruned topoheight loses its changes, and *)
(* the next block, whose base is genesis, executes it again.               *)
StateMatchesOrder ==
    ~cut /\ pc = "idle" => \A n \in pruned..placed : n > 0 => applied[n] = hash_at_topo[n]

(* Between two calls a transaction marked as executed is one of the        *)
(* transactions of the block that executed it, and that block stands in    *)
(* the order: no execution survives in an orphaned block.                  *)
ExecutedInOrder ==
    ~cut /\ pc = "idle" =>
        \A t \in Executed :
            /\ t \in TxsOf[executed[t]]
            /\ \E n \in pruned..topoheight : hash_at_topo[n] = executed[t]

(* A transaction that was executed before a block came and is not any more *)
(* once the new order is executed was collected, to be offered to the      *)
(* mempool again.                                                          *)
NoTxLost ==
    ~cut /\ pc = "order" /\ done = Len(full_order) => before \ Executed \subseteq orphaned

(* Every saved block can be loaded: deleting a block never deletes a       *)
(* transaction another saved block still holds.                            *)
TxsAvailable == ~cut => \A h \in blocks : TxsOf[h] \subseteq stored

(* The block that executed a transaction is one of the blocks the          *)
(* transaction is linked to.                                               *)
ExecutedLinked == \A t \in Executed : executed[t] \in linked[t]

=============================================================================
