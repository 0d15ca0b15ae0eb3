------------------------------- MODULE Ledger -------------------------------
(***************************************************************************)
(* What the blocks of the order do to the accounts                         *)
(* (daemon/src/core/blockchain.rs, daemon/src/core/state,                  *)
(* daemon/src/core/nonce_checker.rs, common/src/transaction/verify).       *)
(*                                                                         *)
(* A balance is encrypted: a node adds and subtracts ciphertexts and never *)
(* learns the value.  Here a ciphertext is the set of the entries that     *)
(* were added to it, each <<kind, id, value>>.  A transaction proves that  *)
(* its sender's balance, minus what it sends, is not negative; the proof   *)
(* is bound to the exact ciphertext it was built on (spends), so it holds  *)
(* only as long as the node selects that same ciphertext for it.  Entries  *)
(* of kind "in" and "out" are encrypted and unique to their transaction,   *)
(* the others are public amounts of which only the sum is seen.            *)
(*                                                                         *)
(* The order is any order the DAG allows (module BlockDag), and one call   *)
(* of add_new_block is one step: module DagReorg has its inner steps and   *)
(* its crashes.  An order that gets shorter is left out.                   *)
(***************************************************************************)
EXTENDS Integers, Sequences, FiniteSets, SequencesExt, FiniteSetsExt

CONSTANTS
    Accounts,
    Miners,         \* the accounts that mine
    Start,          \* the coins some accounts own at genesis: a function
    Kinds,          \* the kinds of transactions that are built
    Amounts,        \* what a transaction sends, burns or freezes
    Fee, Reward,
    Lock,           \* duration_in_blocks of a freeze
    None,
    MaxBlocks,      \* bound: blocks, genesis included
    MaxTxs,         \* bound: transactions built
    MaxBlockTxs     \* bound: transactions in a block

ASSUME KindsAssumption == Kinds \subseteq {"transfer", "burn", "freeze", "unfreeze", "energy"}

VARIABLES
    txs,            \* the transactions built so far; an id is an index
    blocks,         \* the saved blocks; block 1 is genesis
    saving,         \* add_new_block saved a block and has yet to order it
    order,          \* the hashes from topoheight 0 up
    ledger          \* what the storage holds, and what happened to the calls

vars == <<txs, blocks, saving, order, ledger>>

Genesis == 1
Top == Len(order) - 1

(* f with f[x] = y, whether or not x is in its domain.                     *)
With(f, x, y) == [z \in DOMAIN f \cup {x} |-> IF z = x THEN y ELSE f[z]]
Without(f, S) == [z \in DOMAIN f \ S |-> f[z]]

-----------------------------------------------------------------------------
(* Ciphertexts *)

Amount(ct) == MapThenSumSet(LAMBDA e : e[3], ct)
Encrypted(ct) == {e \in ct : e[1] \in {"in", "out"}}
Same(ct1, ct2) == Encrypted(ct1) = Encrypted(ct2) /\ Amount(ct1) = Amount(ct2)

NoOutput == {<<"none", None, 0>>}

(* A transfer that pays with energy has a fee of zero coins.               *)
FeeOf(kind) == IF kind = "energy" THEN 0 ELSE Fee

(* What a transaction costs to the builder (get_transaction_cost), and to  *)
(* the node, for which an unfreeze costs its fee only.                     *)
BuiltCost(kind, amount) == amount + FeeOf(kind)
VerifiedCost(kind, amount) == IF kind = "unfreeze" THEN Fee ELSE amount + FeeOf(kind)

Debit(t, cost) == {<<IF txs[t].kind \in {"transfer", "energy"} THEN "out" ELSE "plain", t, -cost>>}

(* get_sender_output_ct *)
OutputCt(t) == Debit(t, VerifiedCost(txs[t].kind, txs[t].amount))

-----------------------------------------------------------------------------
(* Versioned balances and nonces: s is the storage, n a topoheight.  A     *)
(* version holds the final balance, the output balance if any, and whether *)
(* its type contains an output.                                            *)

Version(ct) == [final |-> ct, output |-> NoOutput, out |-> FALSE]

At(f, n) == {m \in DOMAIN f : m <= n}

(* get_output_balance_in_range                                             *)
Outputs(f, min, max) == {m \in DOMAIN f : min <= m /\ m <= max /\ f[m].out}

(* get_new_versioned_balance: the final balance, its output forgotten.     *)
NewVersion(s, a, n) ==
    LET known == At(s.balances[a], n) IN
    Version(IF known = {} THEN {} ELSE s.balances[a][Max(known)].final)

(* take_balance_with, select_balance                                       *)
UsesOutput(v, output) == output /\ v.output # NoOutput
Selected(v, output) == IF UsesOutput(v, output) THEN v.output ELSE v.final

(* is_block_topological_ordered *)
Ordered(s, h) ==
    /\ h \in DOMAIN s.topo_by_hash
    /\ s.hash_at_topo[s.topo_by_hash[h]] = h

Lesser(m, n) == IF m < n THEN m ELSE n
Greater(m, n) == IF m > n THEN m ELSE n

(* create_sender_echange, search_versioned_balance_for_reference: the set  *)
(* of the answers, empty when there is none (NoPreviousBalanceFound).      *)
(* The output balance is selected when the sender spent after the          *)
(* reference, else the balance known at the reference.                     *)
Search(s, a, n, ref) ==
    LET f   == s.balances[a]
        at  == IF Ordered(s, ref.hash) /\ s.topo_by_hash[ref.hash] = ref.topo
                 THEN ref.topo ELSE Lesser(ref.topo, n)
        outs == Outputs(f, Lesser(at, n), n)
        Found(allow, new, v) ==
            {[allow |-> allow, new |-> new, version |-> v, sum |-> {}, used |-> FALSE]}
    IN  IF outs # {} /\ (ref.topo < Max(outs) \/ at < Max(outs))
          THEN Found(TRUE, FALSE, f[Max(outs)])
        ELSE IF At(f, at) # {} THEN Found(FALSE, FALSE, f[Max(At(f, at))])
        ELSE IF At(f, n) # {}  THEN Found(FALSE, TRUE, NewVersion(s, a, n))
        ELSE {}

-----------------------------------------------------------------------------
(* ChainState: the senders' accounts and the receivers' balances, read     *)
(* from the storage s on first use and written back by apply_changes.      *)

NoChainState == [nonces |-> <<>>, echanges |-> <<>>, receivers |-> <<>>]

(* create_sender_account: the nonce, when the account exists.              *)
NonceAt(s, a, n) == s.nonces[a][Max(At(s.nonces[a], n))]
Known(s, a, n) == At(s.nonces[a], n) # {}

Nonce(s, cs, a, n) == IF a \in DOMAIN cs.nonces THEN cs.nonces[a] ELSE NonceAt(s, a, n)

(* internal_get_sender_verification_balance, with Echange::get_balance:    *)
(* the accounts once the balance is looked up, or no answer.               *)
GetSenderBalance(s, cs, t, n) ==
    LET a == txs[t].source
        Echanges == IF a \in DOMAIN cs.echanges THEN {cs.echanges[a]}
                    ELSE IF Known(s, a, n) THEN Search(s, a, n, txs[t].reference) ELSE {}
    IN  {[cs EXCEPT !.nonces = With(@, a, Nonce(s, cs, a, n)),
                    !.echanges = With(@, a,
                        [e EXCEPT !.used = @ \/ UsesOutput(e.version, e.used \/ e.allow)])] :
            e \in Echanges}

(* The balance the proof is checked against.                               *)
Balance(cs, a) == Selected(cs.echanges[a].version, cs.echanges[a].used \/ cs.echanges[a].allow)

(* Mutant: a transaction that was verified once is not proved again.       *)
ProvedOnce(cs, t) == TRUE

(* The equality proof of the sender's commitment holds: the balance is the *)
(* one it was built on, and the builder took off what the node takes off.  *)
Proved(cs, t) ==
    /\ Same(Balance(cs, txs[t].source), txs[t].spends)
    /\ txs[t].cost = VerifiedCost(txs[t].kind, txs[t].amount)

(* The sender's verification balance and the sum of its outputs take the   *)
(* output of the transaction.                                              *)
Spend(cs, t) ==
    LET a == txs[t].source
        e == cs.echanges[a]
        v == IF UsesOutput(e.version, e.used \/ e.allow)
               THEN [e.version EXCEPT !.output = @ \cup OutputCt(t)]
               ELSE [e.version EXCEPT !.final = @ \cup OutputCt(t)]
    IN  [cs EXCEPT !.echanges = With(@, a, [e EXCEPT !.version = v, !.sum = @ \cup OutputCt(t)])]

SetNonce(cs, t) == [cs EXCEPT !.nonces = With(@, txs[t].source, txs[t].nonce + 1)]

(* internal_get_receiver_balance, then the addition.                       *)
Receive(s, cs, a, n, entry) ==
    LET v == IF a \in DOMAIN cs.receivers THEN cs.receivers[a] ELSE NewVersion(s, a, n)
    IN  [cs EXCEPT !.receivers = With(@, a, [v EXCEPT !.final = @ \cup {entry}])]

-----------------------------------------------------------------------------
(* Verification of a block that comes in: pre_verify_tx and                *)
(* verify_dynamic_parts, against the top of the chain.                     *)
VerifyTx(acc, t) ==
    LET s == ledger
        a == txs[t].source
        got == IF acc.ok /\ txs[t].reference.topo <= Top /\ Known(s, a, Top)
                    /\ Nonce(s, acc.cs, a, Top) = txs[t].nonce
                 THEN GetSenderBalance(s, SetNonce(acc.cs, t), t, Top) ELSE {}
    IN  IF \E cs \in got : Proved(cs, t)
          THEN [ok |-> TRUE, cs |-> Spend(CHOOSE cs \in got : TRUE, t)]
          ELSE [ok |-> FALSE, cs |-> acc.cs]

(* get_all_txs_until_height, from the stable height, which is genesis.     *)
RECURSIVE TxsUntil(_, _, _)
TxsUntil(queue, processed, hashes) ==
    IF queue = <<>> THEN hashes
    ELSE LET b    == blocks[Last(queue)]
             new  == SelectSeq(b.txs, LAMBDA t : ~Contains(hashes, t))
             tips == SelectSeq(b.tips, LAMBDA h : h \notin processed)
         IN  TxsUntil(Front(queue) \o SelectSeq(tips, LAMBDA h : ~Contains(Front(queue), h)),
                      processed \cup ToSet(b.tips), hashes \o new)

IsExecuted(s, t) == t \in DOMAIN s.executed

(* A block may not hold a transaction of its past.  One that was executed  *)
(* in another branch is not verified again; the transactions of the past   *)
(* that are not executed are verified before the block's own.              *)
Verified(b) ==
    LET parents == IF b.txs = <<>> THEN <<>> ELSE TxsUntil(b.tips, {}, <<>>)
        batch   == SelectSeq(parents \o b.txs, LAMBDA t : ~IsExecuted(ledger, t))
    IN  /\ ToSet(b.txs) \cap ToSet(parents) = {}
        /\ FoldLeft(VerifyTx, [ok |-> TRUE, cs |-> NoChainState], batch).ok

-----------------------------------------------------------------------------
(* Energy: an account's resource and its freeze records; a unit of amount  *)
(* is a whole coin and its energy.  The resource is read at the last       *)
(* topoheight it was stored at.                                            *)
NoEnergy == [total |-> 0, used |-> 0, frozen |-> 0, records |-> <<>>]

Energy(s, a) == IF a \in DOMAIN s.energy THEN s.energy[a] ELSE NoEnergy

(* freeze_tos_for_energy *)
Freeze(r, amount, height) ==
    [r EXCEPT !.total = @ + amount, !.frozen = @ + amount,
              !.records = Append(@, [amount |-> amount, unlock |-> height + Lock])]

Unlocked(r, height) ==
    FoldLeft(LAMBDA sum, record : IF record.unlock <= height THEN sum + record.amount ELSE sum,
             0, r.records)

(* unfreeze_tos: the unlocked records are used up in their order.          *)
Unfreeze(r, amount, height) ==
    LET step(acc, record) ==
            LET taken == IF record.unlock <= height THEN Lesser(acc.left, record.amount) ELSE 0
            IN  [left |-> acc.left - taken,
                 kept |-> IF taken = record.amount THEN acc.kept
                          ELSE Append(acc.kept, [record EXCEPT !.amount = @ - taken])]
    IN  [r EXCEPT !.frozen = @ - amount, !.total = Greater(0, @ - amount),
                  !.records = FoldLeft(step, [left |-> amount, kept |-> <<>>], @).kept]

(* The energy part of Transaction::apply can fail.                         *)
CanApply(s, t, height) ==
    LET tx == txs[t]
        r  == Energy(s, tx.source)
    IN  CASE tx.kind = "energy"   -> r.total - r.used >= 1
          [] tx.kind = "unfreeze" -> tx.amount <= r.frozen /\ tx.amount <= Unlocked(r, height)
          [] OTHER                -> TRUE

EnergyAfter(s, t, height) ==
    LET tx == txs[t]
        r  == Energy(s, tx.source)
    IN  CASE tx.kind = "energy"   -> With(s.energy, tx.source, [r EXCEPT !.used = @ + 1])
          [] tx.kind = "freeze"   -> With(s.energy, tx.source, Freeze(r, tx.amount, height))
          [] tx.kind = "unfreeze" -> With(s.energy, tx.source, Unfreeze(r, tx.amount, height))
          [] OTHER                -> s.energy

-----------------------------------------------------------------------------
(* Execution: one block at its place in the order *)

(* Mutant: the balance the proof was checked against is stored.            *)
SenderVersionVerified(s, cs, a, n) ==
    LET e == cs.echanges[a] IN
    [final |-> Selected(e.version, e.used), output |-> Selected(e.version, e.used), out |-> TRUE]

(* apply_changes: the version written for a sender.  The final balance is  *)
(* computed again from the stored one, with what came in; the balance used *)
(* for verification is kept as the output balance.                         *)
SenderVersion(s, cs, a, n) ==
    LET e    == cs.echanges[a]
        last == IF a \in DOMAIN cs.receivers THEN cs.receivers[a] ELSE NewVersion(s, a, n)
    IN  IF a \in DOMAIN cs.receivers \/ e.used \/ ~e.new
          THEN [final |-> last.final \cup e.sum, output |-> Selected(e.version, e.used), out |-> TRUE]
          ELSE [e.version EXCEPT !.out = TRUE]

(* Every sender gets a nonce version, a receiver only its first one.       *)
ApplyChanges(s, cs, n) ==
    [s EXCEPT
        !.balances = [a \in Accounts |->
            CASE a \in DOMAIN cs.echanges  -> With(@[a], n, SenderVersion(s, cs, a, n))
              [] a \in DOMAIN cs.receivers \ DOMAIN cs.echanges -> With(@[a], n, cs.receivers[a])
              [] OTHER                     -> @[a]],
        !.nonces = [a \in Accounts |->
            CASE a \in DOMAIN cs.nonces -> With(@[a], n, cs.nonces[a])
              [] a \in DOMAIN cs.receivers \ DOMAIN cs.nonces /\ DOMAIN @[a] = {} -> With(@[a], n, 0)
              [] OTHER                  -> @[a]]]

(* NonceChecker::use_nonce: the nonce an account has to use next.          *)
Expected(s, a, n) == IF a \in DOMAIN s.checker THEN s.checker[a] ELSE NonceAt(s, a, n)

(* Transaction::apply, once the sender is debited.  When the energy is     *)
(* missing the debit stays in the chain state.                             *)
Apply(acc, t, cs, b, n) ==
    LET tx == txs[t]
        s  == acc.s
    IN  IF ~CanApply(s, t, blocks[b].height)
          THEN [acc EXCEPT !.cs = cs, !.s.partial = TRUE]
          ELSE [s  |-> [s EXCEPT !.energy = EnergyAfter(s, t, blocks[b].height),
                                 !.executed = With(@, t, b)],
                cs |-> IF tx.kind \in {"transfer", "energy"}
                         THEN Receive(s, cs, tx.to, n, <<"in", t, tx.amount>>) ELSE cs,
                fees |-> acc.fees + FeeOf(tx.kind)]

(* apply_with_partial_verify                                               *)
ApplyWithPartialVerify(acc, t, b, n) ==
    LET got == GetSenderBalance(acc.s, acc.cs, t, n)
        cs  == CHOOSE c \in got : TRUE
    IN  IF got = {} THEN acc
        ELSE IF ~Proved(cs, t) THEN [acc EXCEPT !.cs = cs]
        ELSE Apply(acc, t, SetNonce(Spend(cs, t), t), b, n)

(* The nonce is the next one of the source, and the proof holds.           *)
Executable(s, cs, t, n) ==
    /\ Nonce(s, cs, txs[t].source, n) = txs[t].nonce
    /\ \E c \in GetSenderBalance(s, cs, t, n) : Proved(c, t)

(* The loop over the transactions of a block.  A source without a nonce    *)
(* ends the whole call with an error.                                      *)
ExecuteTx(acc, t, b, n) ==
    LET a == txs[t].source
        s == acc.s
        used(nonce) == [acc EXCEPT !.s.checker = With(@, a, nonce)]
    IN  IF s.aborted \/ IsExecuted(s, t) THEN acc
        ELSE IF a \notin DOMAIN s.checker /\ ~Known(s, a, n)
          THEN [acc EXCEPT !.s.aborted = TRUE]
        ELSE IF Expected(s, a, n) # txs[t].nonce
          THEN [used(Expected(s, a, n)) EXCEPT
                   !.s.refused = IF Executable(s, acc.cs, t, n) THEN @ \cup {t} ELSE @]
        ELSE ApplyWithPartialVerify(used(txs[t].nonce + 1), t, b, n)

(* The miner is rewarded, then the changes are written.                    *)
ExecuteBlock(s, b, n) ==
    LET placed == [s EXCEPT !.topo_by_hash = With(@, b, n), !.hash_at_topo = With(@, n, b)]
        acc    == FoldLeft(LAMBDA x, t : ExecuteTx(x, t, b, n),
                           [s |-> placed, cs |-> NoChainState, fees |-> 0], blocks[b].txs)
        cs     == Receive(acc.s, acc.cs, blocks[b].miner, n, <<"reward", b, Reward + acc.fees>>)
    IN  IF s.aborted THEN s
        ELSE IF acc.s.aborted THEN acc.s
        ELSE ApplyChanges(acc.s, cs, n)

(* delete_versioned_data_at_topoheight and unmark_tx_from_executed, from a *)
(* topoheight up.  The energy resources are not part of that data.         *)
Undo(s, from) ==
    LET above(f) == {n \in DOMAIN f : n >= from}
    IN  [s EXCEPT
            !.balances = [a \in Accounts |-> Without(@[a], above(@[a]))],
            !.nonces   = [a \in Accounts |-> Without(@[a], above(@[a]))],
            !.executed = Without(@, {t \in DOMAIN @ : \E n \in from..Top : s.hash_at_topo[n] = @[t]})]

(* A call of add_new_block executes the new order from a topoheight up,    *)
(* with one nonce checker.                                                 *)
Reorganise(s, new, from) ==
    FoldLeft(LAMBDA x, n : ExecuteBlock(x, new[n + 1], n),
             [Undo(s, from) EXCEPT !.checker = <<>>, !.refused = {}],
             [i \in 1..Len(new) - from |-> from + i - 1])

-----------------------------------------------------------------------------
(* Actions *)

Init ==
    /\ txs = <<>>
    /\ blocks = <<[tips |-> <<>>, past |-> {}, height |-> 0, txs |-> <<>>, miner |-> None]>>
    /\ saving = FALSE
    /\ order = <<Genesis>>
    /\ ledger =
        [balances |-> [a \in Accounts |-> IF a \in DOMAIN Start
                                            THEN With(<<>>, 0, Version({<<"start", a, Start[a]>>}))
                                            ELSE <<>>],
         nonces |-> [a \in Accounts |-> IF a \in DOMAIN Start THEN With(<<>>, 0, 0) ELSE <<>>],
         executed |-> <<>>, energy |-> <<>>,
         topo_by_hash |-> With(<<>>, Genesis, 0), hash_at_topo |-> With(<<>>, 0, Genesis),
         checker |-> <<>>,       \* the nonce checker of the call
         refused |-> {},         \* history: refused by the checker, though executable
         partial |-> FALSE,      \* history: a sender was debited by a transaction that failed
         aborted |-> FALSE]      \* a call ended with an error; what follows is left out

Idle == ~saving /\ ~ledger.aborted

(* The wallet builds on the balance it synced at a topoheight: the top, or *)
(* the stable one when nothing was spent above it.                         *)
FromChain(a) ==
    LET f == ledger.balances[a] IN
    {[nonce |-> NonceAt(ledger, a, Top), reference |-> [topo |-> r, hash |-> order[r + 1]],
      spends |-> f[Max(At(f, r))].final] :
        r \in {r \in 0..Top : At(f, r) # {} /\ Outputs(f, r + 1, Top) = {}}}

(* The tx cache: the next transaction is built on the one before, at the   *)
(* same reference.                                                         *)
FromCache(a) ==
    {[nonce |-> txs[t].nonce + 1, reference |-> txs[t].reference,
      spends |-> txs[t].spends \cup Debit(t, txs[t].cost)] :
        t \in {t \in DOMAIN txs : /\ txs[t].source = a /\ ~IsExecuted(ledger, t)
                                  /\ \A u \in DOMAIN txs : txs[u].source = a => u <= t}}

(* create_transaction_state_with_storage and build: enough is left.  The   *)
(* wallet's builder takes its own cost off the balance; a transaction from *)
(* elsewhere may agree with the node.                                      *)
Build(a, kind, to, amount) ==
    /\ Idle /\ Len(txs) < MaxTxs
    /\ (kind \in {"transfer", "energy"}) <=> (to # None)
    /\ to # a
    /\ \E state \in FromCache(a) \cup FromChain(a),
          cost \in {BuiltCost(kind, amount), VerifiedCost(kind, amount)} :
          /\ Amount(state.spends) >= cost
          /\ txs' = Append(txs, [source |-> a, kind |-> kind, to |-> to, amount |-> amount,
                                nonce |-> state.nonce, reference |-> state.reference,
                                spends |-> state.spends, cost |-> cost])
    /\ UNCHANGED <<blocks, saving, order, ledger>>

PastOf(h) == blocks[h].past \cup {h}

(* add_new_block, up to save_block: the transactions of the block pass.    *)
SaveBlock(tips, list, miner) ==
    /\ Idle /\ Len(blocks) < MaxBlocks
    /\ \A h \in tips : tips \cap blocks[h].past = {}
    /\ LET b == [tips |-> SetToSeq(tips), past |-> UNION {PastOf(h) : h \in tips},
                 height |-> 1 + Max({blocks[h].height : h \in tips}),
                 txs |-> list, miner |-> miner]
       IN  Verified(b) /\ blocks' = Append(blocks, b)
    /\ saving' = TRUE
    /\ UNCHANGED <<txs, order, ledger>>

DagTips == {h \in DOMAIN blocks : \A b \in DOMAIN blocks : h \notin blocks[b].past}

(* An order of the DAG: the past of one of its tips, parents first.        *)
DagOrder(new) ==
    /\ Last(new) \in DagTips
    /\ ToSet(new) = PastOf(Last(new))
    /\ \A i, j \in DOMAIN new : new[i] \in blocks[new[j]].past => i < j

(* The rest of add_new_block.  The blocks that stay at their place are     *)
(* skipped, unless the base of the order is genesis.                       *)
OrderDag(new, from) ==
    /\ saving
    /\ DagOrder(new) /\ Len(new) >= Len(order)
    /\ from \in {1, Len(LongestCommonPrefix({order, new}))}
    /\ order' = new
    /\ ledger' = Reorganise(ledger, new, from)
    /\ saving' = FALSE
    /\ UNCHANGED <<txs, blocks>>

TxLists == {l \in UNION {[1..n -> DOMAIN txs] : n \in 0..MaxBlockTxs} :
               \A i, j \in DOMAIN l : l[i] = l[j] => i = j}

Orders == UNION {SetToSeqs(PastOf(h)) : h \in DagTips}

BuildTx ==
    \E a \in Accounts, kind \in Kinds, to \in Accounts \cup {None}, amount \in Amounts :
        Build(a, kind, to, amount)
AddBlock ==
    \E tips \in SUBSET DOMAIN blocks \ {{}}, list \in TxLists, miner \in Miners :
        SaveBlock(tips, list, miner)
Reorder == saving /\ \E new \in Orders, from \in 1..MaxBlocks : OrderDag(new, from)

Next == BuildTx \/ AddBlock \/ Reorder

Spec == Init /\ [][Next]_vars

-----------------------------------------------------------------------------
(* What the order makes of the accounts, read off the order itself.        *)
BlockAt(n) == order[n + 1]
ExecutedUpTo(n) == {t \in DOMAIN ledger.executed : \E m \in 0..n : BlockAt(m) = ledger.executed[t]}
FeesOf(b) ==
    MapThenSumSet(LAMBDA t : FeeOf(txs[t].kind),
                  {t \in DOMAIN ledger.executed : ledger.executed[t] = b})

TrueBalance(a, n) ==
    {<<"start", a, Start[a]>> : x \in {a} \cap DOMAIN Start}
    \cup UNION {OutputCt(t) : t \in {t \in ExecutedUpTo(n) : txs[t].source = a}}
    \cup {<<"in", t, txs[t].amount>> : t \in {t \in ExecutedUpTo(n) : txs[t].to = a}}
    \cup {<<"reward", BlockAt(m), Reward + FeesOf(BlockAt(m))>> :
              m \in {m \in 1..n : blocks[BlockAt(m)].miner = a}}

(* The balance and the nonce a node answers for any topoheight are those   *)
(* of the transactions executed up to it in the present order, whatever    *)
(* reorganisations came before: nothing of an undone block is left,        *)
(* nothing is counted twice, and no two executed transactions of an        *)
(* account share a nonce.                                                  *)
LedgerExact ==
    Idle /\ ~ledger.partial =>
        \A a \in Accounts, n \in 0..Top :
            LET sent == {txs[t].nonce : t \in {t \in ExecutedUpTo(n) : txs[t].source = a}}
            IN  /\ NewVersion(ledger, a, n).final = TrueBalance(a, n)
                /\ Known(ledger, a, n) => NonceAt(ledger, a, n) = Max({-1} \cup sent) + 1
                /\ Cardinality(sent) =
                      Cardinality({t \in ExecutedUpTo(n) : txs[t].source = a})

(* No reorganisation lets an account spend what it does not have: a proof  *)
(* accepted against an older balance is never applied to one that no       *)
(* longer covers it.                                                       *)
Solvent ==
    \A a \in Accounts : \A n \in DOMAIN ledger.balances[a] :
        Amount(ledger.balances[a][n].final) >= 0

(* A transaction the nonce checker refuses as a double spending is one: it *)
(* could not be executed at its place, with the nonce of its source and    *)
(* the balance the order gives it.                                         *)
RefusedIsDoubleSpending == ledger.refused = {}

=============================================================================
