-------------------------- MODULE StorageCounters --------------------------
(***************************************************************************)
(* The counters a storage keeps beside its blocks: the number of blocks,   *)
(* the number of block executions and the pruned topoheight.  The rocksdb  *)
(* storage reads them from its columns.  The sled storage reads them from  *)
(* memory: from the cache of the snapshot while a commit point is set,     *)
(* from its own otherwise; what it writes to disk only serves to load the  *)
(* cache again.                                                            *)
(*                                                                         *)
(* The commit point itself is taken at its promise (TransactionalStore):   *)
(* "seen" is the data as reads show it, "kept" what a rollback or a        *)
(* restart returns to.                                                     *)
(***************************************************************************)
EXTENDS Integers, Sequences, FiniteSets

CONSTANTS
    Hashes,              \* hashes of blocks
    None,                \* no hash, no position, not pruned
    Backends,            \* the storages considered: "sled", "rocksdb"
    CommitPoints,        \* those on which the node sets commit points
    PRUNE_SAFETY_LIMIT,  \* topoheights that pruning leaves below the top
    MaxSaved             \* bound: how far saving blocks takes the counters

ASSUME BackendAssumption ==
    Backends \subseteq {"sled", "rocksdb"} /\ CommitPoints \subseteq Backends

VARIABLES
    backend,  \* the storage of the configuration (use_db_backend)
    seen,     \* the data as read through the commit point
    kept,     \* the data on disk
    open,     \* a commit point is set
    cache,    \* counters in memory (sled)
    scache    \* counters of the snapshot (sled)

vars == <<backend, seen, kept, open, cache, scache>>

Sled == backend = "sled"

\* count and executed are stored under BLOCKS_COUNT and BLOCKS_EXECUTION_ORDER_COUNT.
Data == [blocks : SUBSET Hashes, chain : Seq(Hashes \cup {None}),
         position : [Hashes -> Nat \cup {None}],
         count : Nat, executed : Nat, pruned : Nat \cup {None}]
Counters == [count : Nat, executed : Nat, pruned : Nat \cup {None}]

Blank == [count |-> 0, executed |-> 0, pruned |-> None]

\* The counters in force, and what the storage's getters return.
Mine == IF open THEN scache ELSE cache
Count == IF Sled THEN Mine.count ELSE seen.count
\* get_pruned_topoheight of the sled storage reads its own cache.
Pruned == IF Sled THEN cache.pruned ELSE seen.pruned
Reads == [count |-> Count, executed |-> IF Sled THEN Mine.executed ELSE seen.executed,
          pruned |-> Pruned]

OrElse(x, default) == IF x = None THEN default ELSE x
Orphans == seen.blocks \ {seen.chain[i] : i \in DOMAIN seen.chain}
topoheight == Len(seen.chain) - 1
HashAt(t) == seen.chain[t + 1]

-----------------------------------------------------------------------------

Init ==
    /\ backend \in Backends
    /\ seen = [blocks |-> {}, chain |-> <<>>, position |-> [h \in Hashes |-> None],
               count |-> 0, executed |-> 0, pruned |-> None]
    /\ kept = seen
    /\ open = FALSE
    /\ cache = Blank
    /\ scache = Blank

\* Where a write of the data goes.
Store(d) ==
    /\ seen' = d
    /\ kept' = IF open THEN kept ELSE d

\* Where a write of the counters in memory goes.
Remember(c) ==
    IF ~Sled THEN UNCHANGED <<cache, scache>>
    ELSE IF open THEN scache' = c /\ UNCHANGED cache
    ELSE cache' = c /\ UNCHANGED scache

\* load_cache_from_disk: what is not on disk does not reset the cache.
Loaded(c, d) ==
    IF ~Sled THEN c
    ELSE [count |-> d.count, executed |-> d.executed, pruned |-> OrElse(d.pruned, c.pruned)]

\* Mutant of ExecutionStored: the rocksdb storage stores the position too.
ExecutionStoredAsPosition(pos) == pos

\* add_block_execution_to_order: the sled storage stores the position itself
\* as the count, the rocksdb storage the one after it.
ExecutionStored(pos) == IF Sled THEN pos ELSE pos + 1

\* save_block and add_block_execution_to_order, when add_new_block accepts a
\* block the storage does not have; it may stay out of the DAG order.
SaveBlock(h, ordered) ==
    /\ h \notin seen.blocks
    /\ seen.chain = <<>> => ordered
    /\ Reads.executed < MaxSaved
    /\ Count < MaxSaved
    /\ LET pos == Reads.executed IN
       /\ Store([seen EXCEPT !.blocks = @ \cup {h},
                             !.chain = IF ordered THEN Append(@, h) ELSE @,
                             !.count = Count + 1,
                             !.position[h] = pos,
                             !.executed = ExecutionStored(pos)])
       /\ Remember([Mine EXCEPT !.count = @ + 1, !.executed = @ + 1])
    /\ UNCHANGED <<backend, open>>

\* delete_block_at_topoheight for the topoheights of ts.
Deleted(d, ts) ==
    LET gone == {d.chain[t + 1] : t \in ts}
    IN  [d EXCEPT !.blocks = @ \ gone,
                  !.chain = [i \in DOMAIN @ |-> IF i - 1 \in ts THEN None ELSE @[i]],
                  !.position = [h \in Hashes |-> IF h \in gone THEN None ELSE @[h]]]

\* Every topoheight of ts has its block.
AllStored(ts) == \A t \in ts : HashAt(t) # None

\* Mutant of ResetDone: the genesis block is counted too.
ResetDonePlusOne == topoheight + 1

\* The blocks a rewind past the pruned topoheight counts as removed.
ResetDone == topoheight

\* decrease_blocks_count, after clear_caches, for data d: only the rocksdb
\* storage writes the result down (saturating_sub).
Decreased(d, done) ==
    IF Sled THEN d ELSE [d EXCEPT !.count = IF @ < done THEN 0 ELSE @ - done]

PopTo(d, done) ==
    LET fresh == Loaded(IF open THEN cache ELSE [cache EXCEPT !.pruned = d.pruned], d)
        less(c) == [c EXCEPT !.count = @ - done]
    IN  /\ Store(Decreased(d, done))
        /\ cache' = IF Sled /\ ~open THEN less(fresh) ELSE fresh
        /\ scache' = IF Sled /\ open THEN less([scache EXCEPT !.pruned = d.pruned])
                                     ELSE scache
        /\ UNCHANGED <<backend, open>>

\* pop_blocks down to a topoheight at or above the pruned one.
PopBlocks(lowest) ==
    /\ lowest < topoheight
    /\ OrElse(Pruned, 0) <= lowest
    /\ AllStored(lowest + 1 .. topoheight)
    /\ LET d == Deleted(seen, lowest + 1 .. topoheight)
       IN  PopTo([d EXCEPT !.chain = SubSeq(@, 1, lowest + 1)], topoheight - lowest)

\* pop_blocks to below the pruned topoheight: the chain starts again from the
\* genesis block.
PopReset ==
    /\ Pruned # None
    /\ Pruned <= topoheight
    /\ AllStored(Pruned .. topoheight)
    /\ LET d == Deleted(seen, Pruned .. topoheight)
       IN  PopTo([d EXCEPT !.chain = SubSeq(@, 1, 1), !.pruned = None], ResetDone)

\* Mutant of PruneRange: the block at the new pruned topoheight goes too.
PruneRangeInclusive(p) == OrElse(Pruned, 1) .. p

\* What prune_until_topoheight deletes to prune until p.
PruneRange(p) == OrElse(Pruned, 1) .. p - 1

\* prune_until_topoheight, with the sync block at topoheight p.
Prune(p) ==
    /\ p < topoheight
    /\ topoheight - p >= PRUNE_SAFETY_LIMIT
    /\ OrElse(Pruned, 1) < p
    /\ AllStored(PruneRange(p))
    /\ Store([Deleted(seen, PruneRange(p)) EXCEPT !.pruned = p])
    /\ Remember([Mine EXCEPT !.pruned = p])
    /\ UNCHANGED <<backend, open>>

\* delete_block_with_hash, for try_re_execution_block: a block out of the DAG
\* order is deleted, to be added again.
DeleteBlock(h) ==
    /\ h \in Orphans
    /\ Store([seen EXCEPT !.blocks = @ \ {h}, !.count = IF Sled THEN Count - 1 ELSE @])
    /\ Remember([Mine EXCEPT !.count = @ - 1])
    /\ UNCHANGED <<backend, open>>

\* swap_blocks_executions_positions, a command of the console.
SwapPositions(l, r) ==
    /\ seen.position[l] # None
    /\ seen.position[r] # None
    /\ Store([seen EXCEPT !.position[l] = seen.position[r], !.position[r] = seen.position[l]])
    /\ UNCHANGED <<backend, open, cache, scache>>

StartCommitPoint ==
    /\ backend \in CommitPoints
    /\ ~open
    /\ open' = TRUE
    /\ scache' = cache
    /\ UNCHANGED <<backend, seen, kept, cache>>

EndCommitPointApply ==
    /\ open
    /\ open' = FALSE
    /\ kept' = seen
    /\ cache' = scache
    /\ scache' = Blank
    /\ UNCHANGED <<backend, seen>>

EndCommitPointRollback ==
    /\ open
    /\ open' = FALSE
    /\ seen' = kept
    /\ cache' = Loaded(cache, kept)
    /\ scache' = Blank
    /\ UNCHANGED <<backend, kept>>

\* The node is stopped and started again.
Restart ==
    /\ open' = FALSE
    /\ seen' = kept
    /\ cache' = Loaded(Blank, kept)
    /\ scache' = Blank
    /\ UNCHANGED <<backend, kept>>

Next ==
    \/ \E h \in Hashes, ordered \in BOOLEAN : SaveBlock(h, ordered)
    \/ \E t \in 0..Len(seen.chain) : PopBlocks(t) \/ Prune(t)
    \/ PopReset
    \/ \E h \in Hashes : DeleteBlock(h)
    \/ \E l, r \in Hashes : SwapPositions(l, r)
    \/ StartCommitPoint \/ EndCommitPointApply \/ EndCommitPointRollback \/ Restart

Spec == Init /\ [][Next]_vars

-----------------------------------------------------------------------------

(***************************************************************************)
(* The count of blocks never falls short of the blocks that are stored, so *)
(* no sequence of rewinds, prunings and re-executions makes a later        *)
(* decrease_blocks_count wrap around.                                      *)
(***************************************************************************)
CountCovers == Count >= Cardinality(seen.blocks)

(***************************************************************************)
(* With the rocksdb storage no two stored blocks have the same position in *)
(* the order of execution, across rewinds, commit points and restarts.     *)
(***************************************************************************)
PositionsUnique ==
    backend = "rocksdb" =>
        \A g, h \in seen.blocks : seen.position[g] = seen.position[h] => g = h

(***************************************************************************)
(* A pruning never meets a topoheight whose block an earlier one deleted:  *)
(* from the pruned topoheight that prune_until_topoheight reads to the top *)
(* every block is there.                                                   *)
(***************************************************************************)
PruneFindsBlocks == AllStored(OrElse(Pruned, 1) .. topoheight)
=============================================================================
