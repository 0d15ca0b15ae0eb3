--------------------------- MODULE VersionedTree ---------------------------
(***************************************************************************)
(* One key of a versioned tree of the sled backend: a nonce, a multisig,   *)
(* a contract module, ... of one account or contract.                      *)
(*                                                                         *)
(* The value a block gives to the key is a version, stored under the       *)
(* topoheight of the block together with the topoheight of the version it  *)
(* replaces.  A second tree holds the pointer to the last version.  The    *)
(* chain executes blocks, undoes the execution of blocks that a new DAG    *)
(* order moves, rewinds, prunes, and cleans what a crash left above the    *)
(* top.  Keys do not interact: every loop of the code treats one key at a  *)
(* time, so one key stands for all.                                        *)
(*                                                                         *)
(* The loops that walk the list of versions are taken one iteration per    *)
(* step, under the write lock of the storage (pc is never "idle" between). *)
(***************************************************************************)
EXTENDS Integers, FiniteSets

CONSTANTS
    Values,              \* what a version may hold
    None,                \* no version, no pointer, nothing written
    Kinds,               \* the kinds of trees considered
    MaxTopo,             \* bound: highest topoheight
    PRUNE_SAFETY_LIMIT   \* topoheights that pruning leaves below the top

\* "tree" is every kind that uses the generic functions for all three
\* deletions: nonces, multisigs, contracts, contract data, assets supply.
AllKinds == {"tree", "balances", "contract_balances"}

ASSUME NoneAssumption == None \notin Int /\ None \notin Values
ASSUME KindAssumption == Kinds \subseteq AllKinds
ASSUME BoundAssumption == MaxTopo \in Nat /\ PRUNE_SAFETY_LIMIT \in Nat

Topos == 0..MaxTopo

VARIABLES
    kind,      \* which data the tree holds, the same for ever
    versions,  \* tree_versioned: topoheight -> version, for the stored ones
    pointer,   \* tree_pointer: topoheight of the last version
    pruned,    \* PRUNED_TOPOHEIGHT, 0 when the chain is not pruned
    stored,    \* TOP_TOPO_HEIGHT + 1: the number of ordered topoheights
    next,      \* length of the order whose blocks are executed
    hist,      \* history: the value each executed topoheight gave the key
    torn,      \* history: a crash fell into the middle of a reorg
    pc,        \* what holds the write lock
    base,      \* first topoheight the block being added executes
    cursor,    \* loop variable of the running deletion
    limit,     \* threshold of the running deletion
    patched    \* local of the pruning loops: from here on, erase

disk  == <<versions, pointer, pruned, stored>>
ghost == <<hist, torn>>
loop  == <<base, cursor, limit, patched>>
vars  == <<kind, disk, next, ghost, pc, loop>>

Version == [prev : Topos \cup {None}, val : Values, output : BOOLEAN]
IsVersionMap(vs) == DOMAIN vs \subseteq Topos /\ vs \in [DOMAIN vs -> Version]

TypeOK ==
    /\ kind \in Kinds
    /\ IsVersionMap(versions)
    /\ pointer \in Topos \cup {None}
    /\ pruned \in Topos
    /\ stored \in 0..MaxTopo + 1
    /\ next \in 0..MaxTopo + 1
    /\ hist \in [Topos -> Values \cup {None}]
    /\ torn \in BOOLEAN
    /\ pc \in {"idle", "clean", "exec", "above", "above_walk", "below"}
    /\ base \in 0..MaxTopo + 1
    /\ cursor \in 0..MaxTopo + 1 \cup {None}
    /\ limit \in Topos
    /\ patched \in BOOLEAN

Init ==
    /\ kind \in Kinds
    /\ versions = [t \in {} |-> None]
    /\ pointer = None
    /\ pruned = 0
    /\ stored = 0
    /\ next = 0
    /\ hist = [t \in Topos |-> None]
    /\ torn = FALSE
    /\ pc = "idle"
    /\ base = 0
    /\ cursor = None
    /\ limit = 0
    /\ patched = FALSE

Without(t) == [u \in DOMAIN versions \ {t} |-> versions[u]]

---------------------------------------------------------------------------
(* Adding a block: cleaning what the new order moves, executing, committing *)

\* Mutant of DeleteAt: the pointer is dropped instead of falling back.
DeleteAtDropsPointer(t) ==
    IF kind = "contract_balances" \/ t \notin DOMAIN versions
    THEN UNCHANGED <<versions, pointer>>
    ELSE /\ versions' = Without(t)
         /\ pointer' = IF pointer # None /\ pointer >= t THEN None ELSE pointer

\* delete_versioned_data_at_topoheight of one topoheight: the version goes
\* and a pointer at or above it falls back to the version it replaced.
\* The balances of contracts are not among the data it deletes.
DeleteAt(t) ==
    IF kind = "contract_balances" \/ t \notin DOMAIN versions
    THEN UNCHANGED <<versions, pointer>>
    ELSE /\ versions' = Without(t)
         /\ pointer' = IF pointer # None /\ pointer >= t
                       THEN versions[t].prev ELSE pointer

\* add_new_block generated an order that agrees with the old one below b.
\* The base of the order is never below the pruned topoheight and stays,
\* unless it is the genesis block.
AddBlock(b) ==
    /\ pc = "idle"
    /\ ~torn
    /\ b = 0 => pruned = 0
    /\ b > 0 => b > pruned
    /\ b <= next
    /\ b <= MaxTopo
    /\ pc' = "clean"
    /\ base' = b
    /\ cursor' = b
    /\ next' = b
    /\ UNCHANGED <<kind, disk, ghost, limit, patched>>

\* Delete changes made by the block at the next topoheight.
CleanStep ==
    /\ pc = "clean"
    /\ cursor < stored
    /\ DeleteAt(cursor)
    /\ hist' = [hist EXCEPT ![cursor] = None]
    /\ cursor' = cursor + 1
    /\ UNCHANGED <<kind, pruned, stored, next, torn, pc, base, limit, patched>>

CleanDone ==
    /\ pc = "clean"
    /\ cursor >= stored
    /\ pc' = "exec"
    /\ UNCHANGED <<kind, disk, next, ghost, loop>>

\* The version the execution starts from: get_*_at_maximum_topoheight with
\* the topoheight under execution, which is above every version.
Loadable == pointer = None \/ pointer \in DOMAIN versions

\* A block that does not touch the key.
ExecuteUntouched ==
    /\ pc = "exec"
    /\ next <= MaxTopo
    /\ next' = next + 1
    /\ UNCHANGED <<kind, disk, ghost, pc, loop>>

\* Mutant of ExecuteWrite: the version does not link to the one it replaces.
ExecuteWriteUnlinked(v, o) ==
    /\ pc = "exec"
    /\ next <= MaxTopo
    /\ Loadable
    /\ o => kind = "balances"
    /\ versions' = [t \in DOMAIN versions \cup {next} |->
                      IF t = next
                      THEN [prev |-> None, val |-> v, output |-> o]
                      ELSE versions[t]]
    /\ pointer' = next
    /\ hist' = [hist EXCEPT ![next] = v]
    /\ next' = next + 1
    /\ UNCHANGED <<kind, pruned, stored, torn, pc, loop>>

\* A block that gives the key a value: set_last_*_to stores the version and
\* moves the pointer.
ExecuteWrite(v, o) ==
    /\ pc = "exec"
    /\ next <= MaxTopo
    /\ Loadable
    /\ o => kind = "balances"
    /\ versions' = [t \in DOMAIN versions \cup {next} |->
                      IF t = next
                      THEN [prev |-> pointer, val |-> v, output |-> o]
                      ELSE versions[t]]
    /\ pointer' = next
    /\ hist' = [hist EXCEPT ![next] = v]
    /\ next' = next + 1
    /\ UNCHANGED <<kind, pruned, stored, torn, pc, loop>>

\* The top topoheight only ever grows when a block is added.
Commit ==
    /\ pc = "exec"
    /\ next > base
    /\ stored' = IF next > stored THEN next ELSE stored
    /\ pc' = "idle"
    /\ UNCHANGED <<kind, versions, pointer, pruned, next, ghost, loop>>

\* The process dies while adding a block and is started again with
\* check_db_integrity: everything above the top topoheight is deleted.
\* (Without a stored genesis block the chain starts anew instead.)
\* A crash after a reorg began leaves blocks undone that the top counts.
Crash ==
    /\ pc \in {"clean", "exec"}
    /\ stored > 0
    /\ torn' = (base < stored)
    /\ pc' = "above"
    /\ limit' = stored - 1
    /\ UNCHANGED <<kind, disk, next, hist, base, cursor, patched>>

---------------------------------------------------------------------------
(* delete_versioned_tree_above_topoheight                                  *)

\* The walk starts at a pointer above the threshold.
AboveStart ==
    /\ pc = "above"
    /\ pointer # None
    /\ pointer > limit
    /\ pointer \in DOMAIN versions
    /\ versions' = Without(pointer)
    /\ hist' = [hist EXCEPT ![pointer] = None]
    /\ cursor' = versions[pointer].prev
    /\ pc' = "above_walk"
    /\ UNCHANGED <<kind, pointer, pruned, stored, next, torn, base, limit, patched>>

\* Mutant of AboveNothing: a pointer one above the threshold is let through.
AboveNothingOffByOne ==
    /\ pc = "above"
    /\ ~(pointer # None /\ pointer > limit + 1)
    /\ next' = limit + 1
    /\ pc' = "idle"
    /\ UNCHANGED <<kind, disk, ghost, loop>>

AboveNothing ==
    /\ pc = "above"
    /\ ~(pointer # None /\ pointer > limit)
    /\ next' = limit + 1
    /\ pc' = "idle"
    /\ UNCHANGED <<kind, disk, ghost, loop>>

AboveStep ==
    /\ pc = "above_walk"
    /\ cursor # None
    /\ cursor > limit
    /\ cursor \in DOMAIN versions
    /\ versions' = Without(cursor)
    /\ hist' = [hist EXCEPT ![cursor] = None]
    /\ cursor' = versions[cursor].prev
    /\ UNCHANGED <<kind, pointer, pruned, stored, next, torn, pc, base, limit, patched>>

\* Either a version at or below the threshold was met, or the list ended.
AboveDone ==
    /\ pc = "above_walk"
    /\ ~(cursor # None /\ cursor > limit)
    /\ pointer' = cursor
    /\ next' = limit + 1
    /\ pc' = "idle"
    /\ UNCHANGED <<kind, versions, pruned, stored, ghost, loop>>

---------------------------------------------------------------------------
(* Rewinding: pop_blocks takes the blocks off the top, one by one          *)

PopBlock ==
    /\ pc = "idle"
    /\ ~torn
    /\ stored - 1 > pruned
    /\ DeleteAt(stored - 1)
    /\ hist' = [hist EXCEPT ![stored - 1] = None]
    /\ stored' = stored - 1
    /\ next' = IF next > stored - 1 THEN stored - 1 ELSE next
    /\ UNCHANGED <<kind, pruned, torn, pc, loop>>

---------------------------------------------------------------------------
(* delete_versioned_tree_below_topoheight, keeping the last version        *)

\* Prune until the sync block at topoheight p, a block of the current order.
Prune(p) ==
    /\ pc = "idle"
    /\ ~torn
    /\ p > pruned
    /\ p > 1
    /\ p + PRUNE_SAFETY_LIMIT < stored
    /\ p < next
    /\ pc' = "below"
    /\ limit' = p
    /\ IF pointer = None
       THEN cursor' = None /\ patched' = FALSE
       ELSE /\ Loadable
            /\ cursor' = versions[pointer].prev
            /\ patched' = (kind # "balances" /\ pointer < p)
    /\ UNCHANGED <<kind, disk, next, ghost, base>>

\* remove_from_disk reads the removed record back as a bare u64, although a
\* record starts with an Option: the walk goes on at 0 or at a topoheight
\* that no version has, where it ends.
DecodedU64(t) ==
    IF t \in DOMAIN versions /\ versions[t].prev = None THEN {0, None} ELSE {None}

BelowErase ==
    /\ pc = "below"
    /\ cursor # None
    /\ patched
    /\ versions' = Without(cursor)
    /\ cursor' \in DecodedU64(cursor)
    /\ UNCHANGED <<kind, pointer, pruned, stored, next, ghost, pc, base, limit, patched>>

\* Mutant of BelowPatch: the walk only moves when it cuts the list.
BelowPatchStuck ==
    /\ pc = "below"
    /\ kind # "balances"
    /\ cursor # None
    /\ ~patched
    /\ cursor \in DOMAIN versions
    /\ LET prev == versions[cursor].prev
           cut  == prev # None /\ prev < limit
       IN  /\ cursor' = IF cut THEN prev ELSE cursor
           /\ patched' = cut
           /\ versions' = IF cut THEN [versions EXCEPT ![cursor].prev = None]
                                 ELSE versions
    /\ UNCHANGED <<kind, pointer, pruned, stored, next, ghost, pc, base, limit>>

\* The first version that replaces one below the threshold ends the list.
BelowPatch ==
    /\ pc = "below"
    /\ kind # "balances"
    /\ cursor # None
    /\ ~patched
    /\ cursor \in DOMAIN versions
    /\ LET prev == versions[cursor].prev
           cut  == prev # None /\ prev < limit
       IN  /\ cursor' = prev
           /\ patched' = cut
           /\ versions' = IF cut THEN [versions EXCEPT ![cursor].prev = None]
                                 ELSE versions
    /\ UNCHANGED <<kind, pointer, pruned, stored, next, ghost, pc, base, limit>>

\* Mutant of BelowBalances: everything older than the last version goes.
BelowBalancesAll ==
    /\ pc = "below"
    /\ kind = "balances"
    /\ cursor # None
    /\ ~patched
    /\ cursor \in DOMAIN versions
    /\ cursor' = versions[cursor].prev
    /\ patched' = TRUE
    /\ UNCHANGED <<kind, disk, next, ghost, pc, base, limit>>

\* For balances: everything older than the last version with an output.
BelowBalances ==
    /\ pc = "below"
    /\ kind = "balances"
    /\ cursor # None
    /\ ~patched
    /\ cursor \in DOMAIN versions
    /\ cursor' = versions[cursor].prev
    /\ patched' = versions[cursor].output
    /\ UNCHANGED <<kind, disk, next, ghost, pc, base, limit>>

BelowDone ==
    /\ pc = "below"
    /\ cursor = None
    /\ pruned' = limit
    /\ pc' = "idle"
    /\ UNCHANGED <<kind, versions, pointer, stored, next, ghost, loop>>

---------------------------------------------------------------------------

\* The steps of the thread that holds the write lock.
Step ==
    \/ CleanStep \/ CleanDone
    \/ ExecuteUntouched \/ \E v \in Values, o \in BOOLEAN : ExecuteWrite(v, o)
    \/ Commit
    \/ AboveStart \/ AboveNothing \/ AboveStep \/ AboveDone
    \/ BelowErase \/ BelowPatch \/ BelowBalances \/ BelowDone

Next ==
    \/ \E b \in Topos : AddBlock(b)
    \/ PopBlock
    \/ \E p \in Topos : Prune(p)
    \/ Crash
    \/ Step

\* A job that holds the lock goes on until it is done: no step of it waits
\* for anything but the disk.
Spec == Init /\ [][Next]_vars /\ WF_vars(Step)

---------------------------------------------------------------------------
(* What a reader of the tree gets                                          *)

Corrupted == "NotFoundOnDisk"

\* The error of a read is not a value.
ASSUME CorruptedAssumption == Corrupted \notin Values /\ Corrupted # None

\* get_*_at_maximum_topoheight: start at the exact version if there is one,
\* at the pointer otherwise, and walk down to the first version at or below
\* the maximum.
GetAtMaximum(max) ==
    LET Walk[t \in Topos \cup {None}] ==
          IF t = None THEN None
          ELSE IF t \notin DOMAIN versions THEN Corrupted
          ELSE IF t <= max THEN versions[t].val
          ELSE Walk[versions[t].prev]
    IN  IF pointer = None THEN None
        ELSE IF max \in DOMAIN versions THEN Walk[max] ELSE Walk[pointer]

\* s is the last topoheight below n at which the history h has a write.
IsLast(h, s, n) ==
    IF s = None THEN \A u \in Topos : u < n => h[u] = None
    ELSE /\ s \in Topos
         /\ s < n
         /\ h[s] # None
         /\ \A u \in Topos : s < u /\ u < n => h[u] = None

\* The topoheight of the write that a read at max must find.
LastWrite(max) == CHOOSE s \in Topos \cup {None} : IsLast(hist, s, max + 1)

ValueAt(s) == IF s = None THEN None ELSE hist[s]

\* From where on the tree must answer: while it prunes, from the threshold.
Floor == IF pc = "below" THEN limit ELSE pruned

\* A value that a block wrote at or above the pruned topoheight is read back
\* at every topoheight up to the next write (get_nonce_at_maximum_topoheight
\* and its siblings never fail there), and nothing is read from a block that
\* was undone; without a pruning every read gives what the blocks wrote.
UnprunedWritesReadBack ==
    (kind = "tree" /\ pc \in {"idle", "below"} /\ ~torn) =>
        \A max \in Topos : (Floor <= max /\ max < next) =>
            LET s == LastWrite(max)
            IN  IF s # None /\ s >= Floor
                THEN GetAtMaximum(max) = hist[s]
                ELSE /\ GetAtMaximum(max) # Corrupted
                     /\ pruned = 0 /\ pc = "idle" => GetAtMaximum(max) = ValueAt(s)

\* get_last_nonce, get_last_balance and their siblings: the pointer leads to
\* a version, and that version holds the last value written at or above the
\* pruned topoheight, whatever was undone, rewound or erased before.
LastVersionIsCurrent ==
    (pc = "idle" /\ ~torn) =>
        /\ Loadable
        /\ \A u \in Topos : (pruned <= u /\ IsLast(hist, u, next)) =>
              /\ pointer = u
              /\ versions[u].val = hist[u]

\* The trees that use the generic deletions (delete_versioned_tree_*) keep
\* their last version right.
TreesKeepLastVersion == kind = "tree" => LastVersionIsCurrent

\* check_db_integrity "verify that no pointer or version is above our
\* current topoheight": after the restart a generic tree has none, wherever
\* the crash fell.
NoDataAboveTop ==
    (kind = "tree" /\ pc = "idle") =>
        /\ \A t \in DOMAIN versions : t < stored
        /\ pointer # None => pointer < stored

\* Pruning balances erases only what is older than a spent version (one with
\* an output) that stays below the pointer: "we need to keep track of them
\* until the latest spent version".
PruneKeepsSpent ==
    [][kind = "balances" /\ BelowErase /\ cursor \in DOMAIN versions =>
         \E t \in DOMAIN versions :
            cursor < t /\ t < pointer /\ versions[t].output /\ t \in DOMAIN versions']_vars

\* Cleaning, restarting and pruning a generic tree come to an end: every walk
\* of the list goes down and never meets a missing version.
EveryJobEnds == [](kind = "tree" /\ pc # "idle" => <>(pc = "idle"))

=============================================================================
