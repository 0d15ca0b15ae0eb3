----------------------------- MODULE MCMempool -----------------------------
(* Instances of Mempool for TLC.                                            *)
EXTENDS Mempool, TLC

CONSTANTS
    MaxNonce,       \* bound: highest nonce of a submitted transaction
    MaxBase,        \* bound: highest balance a transaction builds on
    Native,         \* the asset of the fees: every transaction touches it
    Minor,          \* bound: accounts that send one transaction, of the native asset
    Signers         \* bound: accounts that use the multisig

ASSUME BoundAssumption == Native \in Assets

NativeOnly(t) == \A x \in Assets \ {Native} : t.base[x] = None

MCTxs ==
    {t \in [src: Accounts, nonce: 0 .. MaxNonce,
            base: [Assets -> (1 .. MaxBase) \cup {None}],
            kind: Kinds,
            setup: Setups \cup {None}, signed: Setups \cup {None}] :
        /\ t.base[Native] # None
        /\ t.setup # None <=> t.kind = "setup"
        /\ t.src \in Minor => t.nonce = 0 /\ t.base[Native] = MaxBase /\ NativeOnly(t)
        /\ t.kind # "plain" \/ t.signed # None => t.src \in Signers}

\* Of the pairs, those that a chain can hold: consecutive nonces of one account.
MCBatches ==
    {{}} \cup {{t} : t \in Txs}
         \cup {b \in {{t, u} : t, u \in {v \in Txs : NativeOnly(v)}} :
                  \E t, u \in b : t.src = u.src /\ u.nonce = t.nonce + 1}

=============================================================================
