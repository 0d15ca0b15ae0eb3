----------------------------- MODULE CommitPoint -----------------------------
(***************************************************************************)
(* The commit point of the storage: while one is set, every write goes to  *)
(* an in-memory batch laid over the disk, until end_commit_point applies   *)
(* the batch key by key or drops it.  The sled storage has an LRU cache    *)
(* in front of some trees, which the commit point has to keep honest; the  *)
(* rocksdb storage is the same machine with cache_size = FALSE.  One tree  *)
(* (or column) is modelled; its keys are independent of other trees'.      *)
(***************************************************************************)
CONSTANTS
    Keys,        \* keys of the tree
    Values,      \* values stored under them
    None,        \* no value: absent from disk or cache, or a deletion in a batch
    Untouched,   \* the batch has no entry for the key
    cache_size   \* whether the storage is configured with an LRU cache

ASSUME ValueAssumption ==
    None \notin Values /\ Untouched \notin Values /\ None # Untouched
ASSUME CacheAssumption == cache_size \in BOOLEAN

VARIABLES
    disk,      \* the tree on disk
    open,      \* self.snapshot is Some
    writes,    \* the batch: of the snapshot, or what is left of it to apply
    applying,  \* end_commit_point(true) is applying the batch
    lru,       \* the LRU cache of the tree
    cached     \* the storage has an LRU cache

vars == <<disk, open, writes, applying, lru, cached>>

Cells == Values \cup {None}
NoWrites == [k \in Keys |-> Untouched]
Empty == [k \in Keys |-> None]

TypeInvariant ==
    /\ disk \in [Keys -> Cells]
    /\ open \in BOOLEAN
    /\ writes \in [Keys -> Cells \cup {Untouched}]
    /\ applying \in BOOLEAN
    /\ lru \in [Keys -> Cells]
    /\ cached \in BOOLEAN

\* The overlay read by load_optional_from_disk: the batch first, then the disk.
Overlay(k) == IF writes[k] = Untouched THEN disk[k] ELSE writes[k]

\* A cached read: the LRU only serves keys the snapshot has not touched.
CacheServes(k) == cached /\ writes[k] = Untouched

Read(k) == IF CacheServes(k) /\ lru[k] # None THEN lru[k] ELSE Overlay(k)

\* Mutant of Contains: a deletion in the batch falls through to the disk.
ContainsMissesDeletion(k) ==
    IF writes[k] \notin {None, Untouched}
      THEN TRUE
      ELSE (cached /\ lru[k] # None) \/ disk[k] # None

\* contains_data_cached: the batch, then the LRU, then the disk.
Contains(k) ==
    IF writes[k] # Untouched
      THEN writes[k] # None
      ELSE (cached /\ lru[k] # None) \/ disk[k] # None

-----------------------------------------------------------------------------

Init ==
    /\ disk \in [Keys -> Cells]
    /\ open = FALSE
    /\ writes = NoWrites
    /\ applying = FALSE
    /\ lru = Empty
    /\ cached = cache_size

Cleared == IF cached THEN Empty ELSE lru

\* Writing c (None: a removal) under the keys S: to the batch when there is one.
Store(S, c) ==
    IF open
      THEN /\ writes' = [k \in Keys |-> IF k \in S THEN c ELSE writes[k]]
           /\ UNCHANGED disk
      ELSE /\ disk' = [k \in Keys |-> IF k \in S THEN c ELSE disk[k]]
           /\ UNCHANGED writes

\* insert_into_disk, then the value is put in the LRU.
Insert(k, v) ==
    /\ ~applying
    /\ Store({k}, v)
    /\ lru' = IF cached THEN [lru EXCEPT ![k] = v] ELSE lru
    /\ UNCHANGED <<open, applying, cached>>

\* delete_cacheable_data: a missing key is an error, returned before the LRU
\* is touched, but after the batch has recorded the deletion.
Remove(k) ==
    /\ ~applying
    /\ Store({k}, None)
    /\ lru' = IF cached /\ Overlay(k) # None THEN [lru EXCEPT ![k] = None] ELSE lru
    /\ UNCHANGED <<open, applying, cached>>

\* get_optional_cacheable_data: a value loaded from disk enters the LRU.
Fetch(k) ==
    /\ ~applying
    /\ CacheServes(k)
    /\ lru[k] = None
    /\ Overlay(k) # None
    /\ lru' = [lru EXCEPT ![k] = Overlay(k)]
    /\ UNCHANGED <<disk, open, writes, applying, cached>>

\* The LRU makes room.
Evict(k) ==
    /\ ~applying
    /\ lru[k] # None
    /\ lru' = [lru EXCEPT ![k] = None]
    /\ UNCHANGED <<disk, open, writes, applying, cached>>

\* Mutant of DeleteVersioned: the caches are not cleared at the end.
DeleteVersionedKeepsCache(S) ==
    /\ ~applying
    /\ Store(S, None)
    /\ UNCHANGED <<open, applying, lru, cached>>

\* delete_versioned_data_above_topoheight and its siblings: entries go straight
\* from disk or batch, then clear_versioned_data_caches empties the LRU.
DeleteVersioned(S) ==
    /\ ~applying
    /\ Store(S, None)
    /\ lru' = Cleared
    /\ UNCHANGED <<open, applying, cached>>

StartCommitPoint ==
    /\ ~applying
    /\ ~open
    /\ open' = TRUE
    /\ UNCHANGED <<disk, writes, applying, lru, cached>>

\* end_commit_point(true): the snapshot is taken, and its cache, a clone that
\* keeps the counters and drops the LRU, replaces the storage's.
EndCommitPointApply ==
    /\ open
    /\ open' = FALSE
    /\ applying' = TRUE
    /\ cached' = FALSE
    /\ lru' = Empty
    /\ UNCHANGED <<disk, writes>>

\* Mutant of ApplyWrite: the deletions of the batch are skipped.
ApplyWriteNoDeletes(k) ==
    /\ applying
    /\ writes[k] # Untouched
    /\ disk' = IF writes[k] = None THEN disk ELSE [disk EXCEPT ![k] = writes[k]]
    /\ writes' = [writes EXCEPT ![k] = Untouched]
    /\ UNCHANGED <<open, applying, lru, cached>>

\* One iteration of the loop over the batch.
ApplyWrite(k) ==
    /\ applying
    /\ writes[k] # Untouched
    /\ disk' = [disk EXCEPT ![k] = writes[k]]
    /\ writes' = [writes EXCEPT ![k] = Untouched]
    /\ UNCHANGED <<open, applying, lru, cached>>

ApplyDone ==
    /\ applying
    /\ writes = NoWrites
    /\ applying' = FALSE
    /\ UNCHANGED <<disk, open, writes, lru, cached>>

\* end_commit_point(false): the batch is dropped and clear_caches runs.
EndCommitPointRollback ==
    /\ open
    /\ open' = FALSE
    /\ writes' = NoWrites
    /\ lru' = Cleared
    /\ UNCHANGED <<disk, applying, cached>>

\* The node stops and starts again: only the disk survives.
Crash ==
    /\ open' = FALSE
    /\ writes' = NoWrites
    /\ applying' = FALSE
    /\ lru' = Empty
    /\ cached' = cache_size
    /\ UNCHANGED disk

Next ==
    \/ \E k \in Keys, v \in Values : Insert(k, v)
    \/ \E k \in Keys : Remove(k) \/ Fetch(k) \/ Evict(k) \/ ApplyWrite(k)
    \/ \E S \in SUBSET Keys : DeleteVersioned(S)
    \/ StartCommitPoint \/ EndCommitPointApply \/ EndCommitPointRollback
    \/ ApplyDone \/ Crash

Spec == Init /\ [][Next]_vars

-----------------------------------------------------------------------------

(***************************************************************************)
(* The types of the state, and when there is a batch: nothing is left of   *)
(* one once neither a commit point is set nor a batch is being applied.    *)
(***************************************************************************)
TypeOK ==
    /\ TypeInvariant
    /\ ~(open /\ applying)
    /\ ~open /\ ~applying => writes = NoWrites

(***************************************************************************)
(* An LRU entry the storage may serve is the value on disk: inserts made   *)
(* under a commit point, its rollback or its application, bulk deletions   *)
(* and evictions never leave a stale one (get_optional_cacheable_data).    *)
(***************************************************************************)
CacheCoherent ==
    \A k \in Keys : CacheServes(k) /\ lru[k] # None => lru[k] = disk[k]

(***************************************************************************)
(* contains_data_cached answers for the tree as the commit point shows it: *)
(* neither a deletion in the batch nor an entry of the LRU misleads it.    *)
(***************************************************************************)
ContainsAgrees == \A k \in Keys : Contains(k) <=> Overlay(k) # None

Promised == INSTANCE TransactionalStore WITH
    seen <- [k \in Keys |-> Read(k)], kept <- disk, committing <- applying

(***************************************************************************)
(* Behind cache and batch, the storage is a transactional store: reads see *)
(* the last write, a rollback or a restart brings back the stored values,  *)
(* and applying the batch only ever installs what was already being read.  *)
(***************************************************************************)
ImplementsStore == Promised!Spec
=============================================================================
