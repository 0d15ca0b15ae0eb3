------------------------------- MODULE Mempool -------------------------------
(***************************************************************************)
(* The mempool of the daemon (daemon/src/core/mempool.rs) and the paths of *)
(* blockchain.rs that change it: a transaction is submitted, a block is    *)
(* added (clean_up, then the orphaned transactions are submitted again),   *)
(* the chain is rewound (drain, then everything is submitted again), the   *)
(* mempool is cleared.                                                     *)
(*                                                                         *)
(* The chain is seen through what MempoolState reads from the storage: the *)
(* last nonce of an account, the balance its reference resolves to for an  *)
(* asset, its multisig setup.  A block or a reorganisation may change them *)
(* in any way.  A transaction is its source, its nonce, for each asset it  *)
(* has a source commitment for the balance its proof was built on, its     *)
(* effect on the multisig setup, and the setup its multisig signatures     *)
(* satisfy.  A ciphertext is the amount it encrypts and a transaction      *)
(* spends one unit of each asset it touches; its equality proof verifies   *)
(* against exactly the balance it was built on.                            *)
(*                                                                         *)
(* The storage lock is held from the change of the chain to the last       *)
(* transaction submitted again, so nothing interleaves while the queue is  *)
(* not empty.                                                              *)
(***************************************************************************)
EXTENDS Integers, FiniteSets

CONSTANTS
    Accounts,
    Assets,             \* each transaction touches some of them
    Txs,                \* the transactions that may be submitted
    Nonces,             \* the last nonces an account can have, None included
    Amounts,            \* the balances the chain can hold
    Setups,             \* the multisig setups an account can have
    None,               \* an absent Option
    disable_zkp_cache,  \* the configuration of the same name
    Batches,            \* bound: the transactions one chain change hands back
    MaxPopped           \* bound: the blocks that hold those popped

Kinds == {"plain", "setup", "reset"}

\* AccountCache: `txs' is an IndexSet, whose insertion order is `rank' and
\* whose next position is `next'.
Caches == [min: Nat, max: Nat, txs: SUBSET Txs, rank: [Txs -> Nat], next: Nat,
           balances: [Assets -> Nat \cup {None}], multisig: Setups \cup {None}]

ASSUME ChainAssumption == Nonces \subseteq Nat \cup {None} /\ Amounts \subseteq Nat

ASSUME NoneAssumption == None \notin Nat /\ None \notin Setups /\ None \notin Caches

ASSUME TxAssumption ==
    \A t \in Txs :
        /\ t.src \in Accounts /\ t.nonce \in Nat
        /\ t.base \in [Assets -> (Nat \ {0}) \cup {None}]
        /\ t.kind \in Kinds
        /\ t.setup \in Setups \cup {None} /\ t.signed \in Setups \cup {None}

ASSUME ConfigAssumption ==
    disable_zkp_cache \in BOOLEAN /\ Batches \subseteq SUBSET Txs /\ MaxPopped \in Nat

VARIABLES
    nonces,     \* storage.get_last_nonce, None for an account without one
    balances,   \* the balance a reference resolves to, per account and asset
    multisigs,  \* storage.get_multisig_at_maximum_topoheight_for
    txs,        \* Mempool.txs: the hashes pending
    caches,     \* Mempool.caches: an AccountCache per account or None
    queue       \* transactions still to submit again, with their order

chain == <<nonces, balances, multisigs>>
vars == <<nonces, balances, multisigs, txs, caches, queue>>

-----------------------------------------------------------------------------
(* What a verification reads: MempoolState over a cache (or None) and the  *)
(* storage values n, b and m of the account.                               *)

\* create_sender_account: an account without a nonce starts at 0.
NonceSeen(c, n) ==
    IF c # None THEN c.max + 1 ELSE IF n = None THEN 0 ELSE n

MultisigSeen(c, m) == IF c # None /\ c.multisig # None THEN c.multisig ELSE m

\* Mutant of BalanceSeen: the cached balances are not consulted.
BalanceSeenInStorage(c, b, x) == b[x]

\* internal_get_sender_balance, once the account entry has been created.
BalanceSeen(c, b, x) ==
    IF c # None /\ c.balances[x] # None THEN c.balances[x] ELSE b[x]

\* Transaction::verify: pre_verify, or verify_dynamic_parts when the hash is
\* already known; the latter skips the signatures.
Verified(c, n, b, m, t, known) ==
    /\ t.nonce = NonceSeen(c, n)
    /\ t.kind = "reset" => MultisigSeen(c, m) # None
    /\ known \/ t.signed = MultisigSeen(c, m)
    /\ \A x \in Assets : t.base[x] # None => BalanceSeen(c, b, x) = t.base[x]

\* The balances and the multisig setup MempoolState ends with: the assets
\* this transaction touched, and the setup only when it was fully verified.
Left(t) == [x \in Assets |-> IF t.base[x] = None THEN None ELSE t.base[x] - 1]

MultisigAfter(c, m, t, known) ==
    IF known \/ t.kind = "plain" THEN MultisigSeen(c, m)
    ELSE IF t.kind = "setup" THEN t.setup ELSE None

-----------------------------------------------------------------------------
(* AccountCache                                                            *)

Before(c, t) == {u \in c.txs : c.rank[u] < c.rank[t]}

\* IndexSet::get_index
AtIndex(c, i) == {t \in c.txs : Cardinality(Before(c, t)) = i}

\* has_tx_with_same_nonce: the hash found, as a set of at most one.
SameNonce(c, n) ==
    IF n < c.min \/ n > c.max \/ c.txs = {} THEN {}
    ELSE AtIndex(c, (n - c.min) % (c.max + 1 - c.min))

\* Mutant of Updated: update_nonce_range does not raise max.
UpdatedKeepsMax(c, m, t, known) ==
    [min |-> IF c = None THEN t.nonce ELSE c.min,
     max |-> IF c = None THEN t.nonce ELSE c.max,
     txs |-> IF c = None THEN {t} ELSE c.txs \cup {t},
     rank |-> [u \in Txs |-> IF u = t THEN IF c = None THEN 0 ELSE c.next
                             ELSE IF c = None THEN 0 ELSE c.rank[u]],
     next |-> IF c = None THEN 1 ELSE c.next + 1,
     balances |-> Left(t),
     multisig |-> MultisigAfter(c, m, t, known)]

\* update, set_balances and set_multisig, or the new AccountCache of add_tx.
Updated(c, m, t, known) ==
    LET old == IF c # None THEN c
               ELSE [min |-> t.nonce, max |-> t.nonce, txs |-> {},
                     rank |-> [u \in Txs |-> 0], next |-> 0]
    IN  [min |-> IF t.nonce < old.min THEN t.nonce ELSE old.min,
         max |-> IF t.nonce > old.max THEN t.nonce ELSE old.max,
         txs |-> old.txs \cup {t},
         rank |-> [old.rank EXCEPT ![t] = old.next],
         next |-> old.next + 1,
         balances |-> Left(t),
         multisig |-> MultisigAfter(c, m, t, known)]

-----------------------------------------------------------------------------
(* Submitting a transaction                                                *)

\* is_already_verified: whether the storage knows the hash is not modelled.
MayBeKnown == IF disable_zkp_cache THEN {FALSE} ELSE BOOLEAN

\* add_tx_to_mempool_with_storage_and_hash and Mempool::add_tx, over the
\* pending set p and the cache c of the source.
Accepted(p, c, t, known) ==
    /\ t \notin p
    /\ c # None => /\ SameNonce(c, t.nonce) = {}
                   /\ t.nonce <= c.max + 1 /\ t.nonce >= c.min
    /\ Verified(c, nonces[t.src], balances[t.src], multisigs[t.src], t, known)

Insert(t, known) ==
    /\ txs' = txs \cup {t}
    /\ caches' = [caches EXCEPT ![t.src] =
                    Updated(caches[t.src], multisigs[t.src], t, known)]

AddTx(t, known) ==
    /\ queue = {}
    /\ Accepted(txs, caches[t.src], t, known)
    /\ Insert(t, known)
    /\ UNCHANGED <<chain, queue>>

-----------------------------------------------------------------------------
(* clean_up, for the storage values n, b and m of the account of cache c   *)

Kept(c, p, n) == {t \in c.txs : t \in p /\ t.nonce >= n}

\* The verification runs with every cache taken out of the mempool.
FirstVerifies(c, kept, n, b, m) ==
    \A t \in kept :
        (\A u \in kept : c.rank[t] <= c.rank[u])
            => Verified(None, n, b, m, t, ~disable_zkp_cache)

\* Mutant of Cleaned: a cache above the nonce of the account is left alone.
CleanedKeepsOrphans(c, p, n, b, m) ==
    IF n = None THEN None
    ELSE IF n <= c.min THEN c
    ELSE None

Cleaned(c, p, n, b, m) ==
    LET kept == Kept(c, p, n)
        cut == [c EXCEPT !.txs = kept,
                         !.rank = [u \in Txs |-> IF u \in kept THEN c.rank[u] ELSE 0],
                         !.min = CHOOSE i \in {t.nonce : t \in kept} :
                                    \A t \in kept : i <= t.nonce,
                         !.max = CHOOSE i \in {t.nonce : t \in kept} :
                                    \A t \in kept : i >= t.nonce]
    IN  IF n = None \/ n < c.min THEN None
        ELSE IF n = c.min THEN c
        ELSE IF kept = {} THEN None
        ELSE IF kept # c.txs /\ ~FirstVerifies(c, kept, n, b, m) THEN None
        ELSE cut

TxsOf(c) == IF c = None THEN {} ELSE c.txs

\* Mutant of CleanUp: the transactions of a lost cache stay pending.
CleanUpGhosts(n, b, m) ==
    /\ caches' = [a \in Accounts |->
                    IF caches[a] = None THEN None
                    ELSE Cleaned(caches[a], txs, n[a], b[a], m[a])]
    /\ txs' = txs

\* Every cache against the new chain, and the transactions it loses.
CleanUp(n, b, m) ==
    LET cleaned == [a \in Accounts |->
                      IF caches[a] = None THEN None
                      ELSE Cleaned(caches[a], txs, n[a], b[a], m[a])]
    IN  /\ caches' = cleaned
        /\ txs' = txs \ UNION {TxsOf(caches[a]) \ TxsOf(cleaned[a]) : a \in Accounts}

-----------------------------------------------------------------------------
(* The chain changes                                                       *)

ChainTo(n, b, m) ==
    /\ nonces' = n /\ balances' = b /\ multisigs' = m

\* An entry of the queue: a smaller `turn' is submitted earlier, and among
\* the transactions of one account and turn a smaller `at'.
Entry(t, turn, at) == [tx |-> t, turn |-> turn, at |-> at]

Earlier(e, f) ==
    /\ e.tx.src = f.tx.src
    /\ e.turn < f.turn \/ (e.turn = f.turn /\ e.at < f.at)

\* The end of add_new_block: clean_up, then the orphaned transactions are
\* submitted again in the order of their blocks, without those clean_up
\* deleted when the orphan event is tracked.
BlockAdded(n, b, m, orphans, tracked) ==
    /\ queue = {}
    /\ ChainTo(n, b, m)
    /\ CleanUp(n, b, m)
    /\ queue' = {Entry(t, 0, t.nonce) :
                    t \in IF tracked THEN orphans \ (txs \ txs') ELSE orphans}

\* What pop_blocks can return: of an account, transactions whose nonces the
\* chain used and no longer has, each nonce once, a later nonce not in an
\* earlier block.
Popped(n, popped, topo) ==
    /\ popped \cap txs = {}
    /\ \A a \in Accounts :
        /\ n[a] # None => nonces[a] # None /\ n[a] <= nonces[a]
        /\ \A t \in popped : t.src = a =>
            NonceSeen(None, n[a]) <= t.nonce /\ t.nonce < NonceSeen(None, nonces[a])
    /\ \A t, u \in popped :
        t.src = u.src /\ t # u =>
            t.nonce # u.nonce /\ (t.nonce < u.nonce => topo[t] <= topo[u])

\* rewind_chain_for_storage: pop_blocks returns the transactions of the
\* popped blocks from the top block down, those of one block in order; then
\* come the drained ones, in order of arrival.  topo gives the block of each
\* popped transaction.
Rewind(n, b, m, popped, topo) ==
    /\ queue = {}
    /\ Popped(n, popped, topo)
    /\ ChainTo(n, b, m)
    /\ txs' = {}
    /\ caches' = [a \in Accounts |-> None]
    /\ queue' = {Entry(t, 0 - topo[t], t.nonce) : t \in popped}
                    \cup {Entry(t, 1, IF caches[t.src] = None THEN 0
                                      ELSE caches[t.src].rank[t]) : t \in txs}

Turn(e) == e \in queue /\ ~\E f \in queue : Earlier(f, e)

ReAdd(e, known) ==
    /\ Turn(e)
    /\ Accepted(txs, caches[e.tx.src], e.tx, known)
    /\ Insert(e.tx, known)
    /\ queue' = queue \ {e}
    /\ UNCHANGED chain

Refuse(e, known) ==
    /\ Turn(e)
    /\ ~Accepted(txs, caches[e.tx.src], e.tx, known)
    /\ queue' = queue \ {e}
    /\ UNCHANGED <<chain, txs, caches>>

\* Mempool::clear, by stop and by the bootstrap sync, which also replaces
\* the chain.
Clear(n, b, m) ==
    /\ queue = {}
    /\ ChainTo(n, b, m)
    /\ txs' = {}
    /\ caches' = [a \in Accounts |-> None]
    /\ UNCHANGED queue

-----------------------------------------------------------------------------
Init ==
    /\ nonces \in [Accounts -> Nonces]
    /\ balances \in [Accounts -> [Assets -> Amounts]]
    /\ multisigs \in [Accounts -> Setups \cup {None}]
    /\ txs = {} /\ caches = [a \in Accounts |-> None]
    /\ queue = {}

ChainMoves ==
    \E n \in [Accounts -> Nonces], b \in [Accounts -> [Assets -> Amounts]],
       m \in [Accounts -> Setups \cup {None}] :
        \/ \E orphans \in Batches, tracked \in BOOLEAN :
            BlockAdded(n, b, m, orphans, tracked)
        \/ \E popped \in Batches : \E topo \in [popped -> 1 .. MaxPopped] :
            Rewind(n, b, m, popped, topo)
        \/ Clear(n, b, m)

Resubmit ==
    \E e \in queue, known \in MayBeKnown : ReAdd(e, known) \/ Refuse(e, known)

Next ==
    \/ \E t \in Txs, known \in MayBeKnown : AddTx(t, known)
    \/ ChainMoves
    \/ Resubmit

Spec == Init /\ [][Next]_vars

-----------------------------------------------------------------------------
(* Properties                                                              *)

\* The state keeps its shape: what Mempool, AccountCache and the re-submission
\* loops of blockchain.rs hold.
TypeOK ==
    /\ nonces \in [Accounts -> Nonces]
    /\ balances \in [Accounts -> [Assets -> Amounts]]
    /\ multisigs \in [Accounts -> Setups \cup {None}]
    /\ txs \subseteq Txs
    /\ caches \in [Accounts -> Caches \cup {None}]
    /\ queue \subseteq [tx: Txs, turn: Int, at: Nat]

\* The two structures agree: a pending hash is in the cache of its source
\* and a cache holds only pending hashes of its account, so clean_up, which
\* only walks the caches, reaches every pending transaction and leaves no
\* "ghost TX" (mempool.rs:374).
CachesMatchTxs ==
    \A a \in Accounts : TxsOf(caches[a]) = {t \in txs : t.src = a}

\* The transactions of a cache are non-empty, have exactly the nonces from min
\* to max, one each, and were inserted in the order of their nonces: what the
\* index formula of mempool.rs:47-48 and the block template's groups rest on.
NoncesContiguous ==
    \A a \in Accounts : caches[a] # None =>
        LET c == caches[a] IN
        /\ c.min <= c.max
        /\ \A i \in c.min .. c.max : \E t \in c.txs : t.nonce = i
        /\ \A t \in c.txs : c.min <= t.nonce /\ t.nonce <= c.max
        /\ \A t, u \in c.txs : c.rank[t] < c.rank[u] <=> t.nonce < u.nonce
        /\ \A t, u \in c.txs : t.nonce = u.nonce => t = u

\* "You can get the TX at nonce N by computing the index" (mempool.rs:48):
\* has_tx_with_same_nonce finds the transaction of that nonce and no other.
LookupExact ==
    \A a \in Accounts : caches[a] # None =>
        \A i \in caches[a].min .. caches[a].max :
            SameNonce(caches[a], i) = {t \in caches[a].txs : t.nonce = i}

\* A cache starts at the nonce the chain expects next from the account: a
\* block, a reorganisation, a rewind or a late submission never leaves a
\* pending transaction below it or a gap above it.
MinIsChainNonce ==
    \A a \in Accounts : caches[a] # None =>
        caches[a].min = NonceSeen(None, nonces[a])

\* "each TXs added in mempool are validated and compatible with previous"
\* (mempool.rs:440): of two transactions with consecutive nonces the second
\* builds on the balances the first leaves, and the cached balances are those
\* the last one leaves.
ConsecutiveCompatible ==
    \A a \in Accounts : caches[a] # None =>
        LET c == caches[a] IN
        /\ \A t, u \in c.txs : u.nonce = t.nonce + 1 =>
            \A x \in Assets :
                t.base[x] # None /\ u.base[x] # None => u.base[x] = t.base[x] - 1
        /\ \A t \in c.txs : t.nonce = c.max => c.balances = Left(t)

=============================================================================
