------------------------- MODULE DagReorgInvariant --------------------------
(***************************************************************************)
(* Proofs about module DagReorg, for any blocks, transactions, topoheight  *)
(* bound and pruning parameters.                                           *)
(*                                                                         *)
(* The types and the links of executed transactions hold whatever happens. *)
(* Core holds until a crash cuts a job short or an order is shorter than   *)
(* the one it replaces; it says for each job how far it went.              *)
(* Here it is shown of the initial state, of a rewind and of a pruning.    *)
(***************************************************************************)
EXTENDS DagReorg, TLAPS

(* TypeOK, and the bounds that keep a running job inside the topoheights.  *)
TypeInv ==
    /\ TypeOK
    /\ pc \in {"clean", "order"} =>
          full_order \in Orders /\ base + Len(full_order) - 1 \in Topos
    /\ pc = "pop" => cursor \in Topos
    /\ pc = "prune" => lowest \in Topos

Adding == pc \in {"clean", "order"}

(* The topoheights whose pointers are those of the chain...                *)
Low  == IF pc = "prune" THEN cursor ELSE pruned
High == IF pc = "order" THEN base + done - 1 ELSE IF pc = "pop" THEN cursor ELSE topoheight
InChain(n) == Low <= n /\ n <= High

(* ... and those whose block is executed: the cleaning loop opens a gap.   *)
Live(n) == InChain(n) /\ ~(pc = "clean" /\ base + done <= n /\ n < cursor)

Agree == \A n \in Topos : InChain(n) =>
            hash_at_topo[n] \in blocks /\ topo_by_hash[hash_at_topo[n]] = n

Root == hash_at_topo[0] = Genesis /\ topo_by_hash[Genesis] = 0 /\ Genesis \in blocks

(* Nothing is left below or above.                                         *)
Empty == \A n \in Topos :
            \/ n > 0 /\ n < Low
            \/ n > High /\ (pc = "pop" \/ n > topoheight)
            => hash_at_topo[n] = None

Saved == \A h \in Blocks : topo_by_hash[h] # None => h \in blocks

Sizes ==
    /\ placed = topoheight /\ pruned <= topoheight
    /\ Adding => /\ pruned <= base /\ base <= topoheight
                 /\ base + Len(full_order) - 1 >= topoheight
    /\ pc = "clean" =>
          /\ base + done <= cursor /\ cursor <= topoheight + 1
          /\ ~is_written => cursor = base + done /\ base > 0
    /\ pc = "order" => (is_written \/ base + done > topoheight)
    /\ pc = "pop" => pruned <= cursor /\ cursor <= topoheight
    /\ pc = "prune" => cursor >= 1 /\ cursor >= pruned /\ cursor <= lowest /\ lowest < topoheight

(* The order holds saved blocks that do not stand below the base; its      *)
(* first hashes are in place.                                              *)
Contract ==
    Adding =>
        /\ block \in blocks
        /\ \A k \in DOMAIN full_order : full_order[k] \in blocks
        /\ \A k \in DOMAIN full_order, n \in Topos :
              n < base /\ (n >= pruned \/ n = 0) => full_order[k] # hash_at_topo[n]
        /\ base = 0 => full_order[1] = Genesis
        /\ \A k \in 1..done : hash_at_topo[base + k - 1] = full_order[k]

(* The new block has not been placed yet, unless the loop met it.          *)
Pending(h) == Adding /\ h = block /\ \A k \in 1..done : full_order[k] # h
Fresh == Pending(block) => topo_by_hash[block] = None

Available == \A h \in blocks : \A t \in TxsOf[h] :
                t \in stored /\ (h \in linked[t] \/ Pending(h))

Linked == \A t \in Txs : executed[t] # None =>
             t \in TxsOf[executed[t]] /\ executed[t] \in linked[t]

ExecutedLive == \A t \in Txs : executed[t] # None =>
                  \E n \in Topos : Live(n) /\ hash_at_topo[n] = executed[t]

AppliedLive == \A n \in Topos : Live(n) /\ n > 0 => applied[n] = hash_at_topo[n]

(* A transaction that was executed still is, or was collected, or is in a  *)
(* block that is about to be executed.                                     *)
Followed ==
    Adding => \A t \in before :
        \/ executed[t] # None
        \/ is_written /\ t \in orphaned
        \/ is_written /\ \E k \in DOMAIN full_order : k > done /\ t \in TxsOf[full_order[k]]

Core ==
    /\ Agree /\ Root /\ Empty /\ Saved /\ Sizes /\ Contract /\ Fresh
    /\ Available /\ ExecutedLive /\ AppliedLive /\ Followed

Inv == TypeInv /\ Linked /\ Core

IInv == TypeInv /\ Linked /\ (~cut => Core)

-----------------------------------------------------------------------------
(* Types                                                                   *)

LEMMA Constants ==
    /\ Genesis \in Blocks /\ None \notin Blocks /\ None \notin Topos
    /\ TxsOf \in [Blocks -> SUBSET Txs] /\ TxsOf[Genesis] = {}
    /\ MaxTopo \in Nat /\ PRUNE_SAFETY_LIMIT \in Nat
    /\ Topos \subseteq Nat /\ \A n \in Nat : n \in Topos <=> n <= MaxTopo
  BY ConstantsAssumption, SMTT(60) DEF Topos

LEMMA Typed ==
    ASSUME TypeOK
    PROVE  /\ topoheight \in Topos /\ stable_topoheight \in Topos /\ pruned \in Topos
           /\ placed \in Topos /\ placed \in Nat /\ base \in Topos
           /\ topoheight \in Nat /\ pruned \in Nat /\ base \in Nat
           /\ Len(full_order) \in Nat /\ done \in Nat /\ done <= Len(full_order)
           /\ cursor \in Nat /\ cursor <= MaxTopo + 1 /\ lowest \in Nat
<1>1. /\ topoheight \in Topos /\ stable_topoheight \in Topos /\ pruned \in Topos
      /\ placed \in Topos /\ base \in Topos
  BY Zenon DEF TypeOK
<1>2. Len(full_order) \in Nat
  <2>1. CASE full_order = <<>>
    BY <2>1, Zenon
  <2>2. CASE full_order \in Orders
    BY <2>2, Constants, SMTT(60) DEF Orders
  <2> QED
    BY <2>1, <2>2, Zenon DEF TypeOK
<1>3. done \in 0..Len(full_order) /\ cursor \in 0..MaxTopo + 1 /\ lowest \in Nat
  BY Zenon DEF TypeOK
<1> QED
  BY <1>1, <1>2, <1>3, Constants, SMTT(60)

(* An order as a sequence of blocks without repetition.                    *)
LEMMA OrderFacts ==
    ASSUME NEW s \in Orders
    PROVE  /\ Len(s) \in Nat /\ Len(s) >= 1 /\ DOMAIN s = 1..Len(s)
           /\ \A k \in DOMAIN s : s[k] \in Blocks
           /\ \A i, j \in DOMAIN s : s[i] = s[j] => i = j
<1>1. PICK n \in 1..MaxTopo + 1 : s \in [1..n -> Blocks]
  BY Zenon DEF Orders
<1>2. n \in Nat /\ n >= 1
  BY <1>1, Constants, SMTT(60)
<1>3. Len(s) = n /\ DOMAIN s = 1..n
  BY <1>1, <1>2, SMTT(60)
<1> QED
  BY <1>1, <1>2, <1>3, Zenon DEF Orders

LEMMA InitType == Init => TypeInv
<1> SUFFICES ASSUME Init PROVE TypeInv
  BY Zenon
<1>1. 0 \in Topos
  BY Constants, SMTT(60)
<1>2. /\ blocks \subseteq Blocks /\ stored \subseteq Txs
      /\ linked \in [Txs -> SUBSET Blocks] /\ executed \in [Txs -> Blocks \cup {None}]
      /\ hash_at_topo \in [Topos -> Blocks \cup {None}]
      /\ topo_by_hash \in [Blocks -> Topos \cup {None}]
      /\ applied \in [Topos -> Blocks \cup {None}]
  BY <1>1, Constants, Zenon DEF Init
<1>3. {topoheight, stable_topoheight, pruned, placed, base} \subseteq Topos
  BY <1>1, Zenon DEF Init
<1>4. done \in 0..Len(full_order) /\ cursor \in 0..MaxTopo + 1 /\ lowest \in Nat
  BY Constants, SMTT(60) DEF Init
<1> QED
  BY <1>2, <1>3, <1>4, Constants, ZenonT(30) DEF Init, TypeInv, TypeOK

(* The variables of the storage keep their types when one entry changes.   *)
StorageTypes ==
    /\ blocks \subseteq Blocks /\ stored \subseteq Txs
    /\ linked \in [Txs -> SUBSET Blocks]
    /\ executed \in [Txs -> Blocks \cup {None}]
    /\ hash_at_topo \in [Topos -> Blocks \cup {None}]
    /\ topo_by_hash \in [Blocks -> Topos \cup {None}]
    /\ applied \in [Topos -> Blocks \cup {None}]

ChainTypes == {topoheight, stable_topoheight, pruned, placed} \subseteq Topos

JobTypes ==
    /\ pc \in {"idle", "clean", "order", "pop", "auto_prune", "prune"}
    /\ base \in Topos
    /\ block \in Blocks /\ (full_order = <<>> \/ full_order \in Orders)
    /\ done \in 0..Len(full_order)
    /\ cursor \in 0..MaxTopo + 1 /\ lowest \in Nat
    /\ is_written \in BOOLEAN /\ stop \in BOOLEAN
    /\ orphaned \subseteq Txs /\ before \subseteq Txs
    /\ pc \in {"clean", "order"} =>
          full_order \in Orders /\ base + Len(full_order) - 1 \in Topos
    /\ pc = "pop" => cursor \in Topos
    /\ pc = "prune" => lowest \in Topos

LEMMA TypeParts == TypeInv <=> StorageTypes /\ ChainTypes /\ JobTypes /\ cut \in BOOLEAN
  BY Zenon DEF TypeInv, TypeOK, StorageTypes, ChainTypes, JobTypes

LEMMA TypePartsNext == TypeInv' <=> StorageTypes' /\ ChainTypes' /\ JobTypes' /\ cut' \in BOOLEAN
  BY Zenon DEF TypeInv, TypeOK, StorageTypes, ChainTypes, JobTypes

(* A call that returns, with its local variables gone.                     *)
LEMMA LeaveTypes ==
    ASSUME NEW next \in {"idle", "auto_prune"}, Leave(next)
    PROVE  JobTypes'
<1>1. 0 \in Topos /\ 0 \in 0..Len(<<>>) /\ 0 \in 0..MaxTopo + 1
  BY Constants, SMTT(60)
<1> QED
  BY <1>1, Constants, ZenonT(30) DEF Leave, JobTypes

LEMMA UnlinkTypes ==
    ASSUME StorageTypes, NEW h \in Blocks, NEW txs \in SUBSET Txs, Unlink(h, txs)
    PROVE  /\ stored' \subseteq Txs /\ linked' \in [Txs -> SUBSET Blocks]
           /\ executed' \in [Txs -> Blocks \cup {None}]
  BY Zenon DEF StorageTypes, Unlink

LEMMA DeleteTypes ==
    ASSUME StorageTypes, NEW n \in Topos, DeleteBlockAt(n) \/ DeleteFails(n),
           applied' \in [Topos -> Blocks \cup {None}]
    PROVE  StorageTypes'
<1>0. hash_at_topo[n] \in Blocks \cup {None}
  BY Zenon DEF StorageTypes
<1>1. CASE hash_at_topo[n] = None
  BY <1>1, Constants, Zenon DEF StorageTypes, DeleteBlockAt, DeleteFails
<1>2. CASE hash_at_topo[n] # None /\ DeleteBlockAt(n)
  <2>1. TxsOf[hash_at_topo[n]] \in SUBSET Txs /\ hash_at_topo[n] \in Blocks
    BY <1>0, <1>2, Constants, Zenon
  <2> QED
    BY <2>1, <1>2, UnlinkTypes, Zenon DEF StorageTypes, DeleteBlockAt, DeletePointers
<1>3. CASE hash_at_topo[n] # None /\ DeleteFails(n)
  <2>1. TxsOf[hash_at_topo[n]] \in SUBSET Txs /\ hash_at_topo[n] \in Blocks
    BY <1>0, <1>3, Constants, Zenon
  <2>2. CASE topo_by_hash[hash_at_topo[n]] = None
    BY <2>1, <2>2, <1>3, Zenon DEF StorageTypes, DeleteFails
  <2>3. CASE topo_by_hash[hash_at_topo[n]] # None
    <3>1. PICK txs \in SUBSET (TxsOf[hash_at_topo[n]] \cap stored) : Unlink(hash_at_topo[n], txs)
      BY <2>3, <1>3, Zenon DEF DeleteFails
    <3>2. txs \in SUBSET Txs
      BY <2>1, Zenon
    <3>3. DeletePointers(n) /\ blocks' = blocks \ {hash_at_topo[n]}
      BY <2>3, <1>3, Zenon DEF DeleteFails
    <3> QED
      BY <2>1, <3>1, <3>2, <3>3, UnlinkTypes, Zenon DEF StorageTypes, DeletePointers
  <2> QED
    BY <2>2, <2>3, Zenon
<1> QED
  BY <1>1, <1>2, <1>3, Zenon

(* Every step keeps the types.                                             *)
LEMMA NextType == TypeInv /\ [Next]_vars => TypeInv'
<1> SUFFICES ASSUME TypeInv, [Next]_vars PROVE TypeInv'
  BY Zenon
<1>1. StorageTypes /\ ChainTypes /\ JobTypes
  BY TypeParts, Zenon
<1>2. TypeOK
  BY Zenon DEF TypeInv
<1>3. cut' \in BOOLEAN
  <2>1. cut \in BOOLEAN
    BY TypeParts, Zenon
  <2>2. CASE AddBlock
    BY <2>2, Zenon DEF AddBlock, SaveBlock
  <2>3. CASE Crash
    BY <2>3, Zenon DEF Crash
  <2>4. CASE UNCHANGED cut
    BY <2>1, <2>4, Zenon
  <2> QED
    BY <2>2, <2>3, <2>4, Zenon DEF Next, vars
<1> SUFFICES StorageTypes' /\ ChainTypes' /\ JobTypes'
  BY <1>3, TypePartsNext, Zenon
<1>a. CASE AddBlock
  <2>1. PICK b \in Blocks \ blocks, from \in pruned..placed, s \in Orders : SaveBlock(b, from, s)
    BY <1>a, Zenon DEF AddBlock
  <2>2. from \in Topos
    BY <2>1, <1>2, Typed, Constants, SMTT(60) DEF Topos
  <2>3. Len(s) \in Nat /\ 0 \in 0..Len(s) /\ from + Len(s) - 1 \in Topos /\ TxsOf[b] \subseteq Txs
    BY <2>1, OrderFacts, Constants, SMTT(60) DEF SaveBlock, FullOrder
  <2>4. from \in 0..MaxTopo + 1 /\ Executed \subseteq Txs
    BY <2>2, Constants, SMTT(60) DEF Executed
  <2>5. StorageTypes' /\ ChainTypes'
    BY <1>1, <2>1, <2>3, Zenon DEF SaveBlock, StorageTypes, ChainTypes, chain
  <2>6. JobTypes'
    BY <1>1, <2>1, <2>2, <2>3, <2>4, Zenon DEF SaveBlock, JobTypes
  <2> QED
    BY <2>5, <2>6, Zenon
<1>b. CASE CleanSkip
  <2>1. done + 1 \in 0..Len(full_order) /\ cursor + 1 \in 0..MaxTopo + 1
    BY <1>b, <1>2, Typed, Constants, SMTT(60) DEF CleanSkip, Stays
  <2> QED
    BY <1>b, <1>1, <2>1, Zenon DEF CleanSkip, StorageTypes, ChainTypes, JobTypes, storage, chain
<1>c. CASE CleanStep
  <2>1. cursor \in Topos /\ cursor + 1 \in 0..MaxTopo + 1
    BY <1>c, <1>2, Typed, Constants, SMTT(60) DEF CleanStep
  <2>2. hash_at_topo[cursor] \in Blocks
    BY <1>c, <1>1, <2>1, Zenon DEF CleanStep, StorageTypes
  <2>3. Undone(hash_at_topo[cursor]) \subseteq Txs /\ Lost(hash_at_topo[cursor]) \subseteq Txs
    BY <2>2, Constants, Zenon DEF Undone, Lost
  <2>4. StorageTypes'
    BY <1>c, <1>1, <2>1, Zenon DEF CleanStep, StorageTypes
  <2>5. ChainTypes'
    BY <1>c, <1>1, Zenon DEF CleanStep, ChainTypes, chain
  <2>6. JobTypes'
    BY <1>c, <1>1, <2>1, <2>3, Zenon DEF CleanStep, JobTypes
  <2> QED
    BY <2>4, <2>5, <2>6, Zenon
<1>d. CASE CleanFail \/ AutoPruneNothing \/ Crash
  <2>1. JobTypes'
    BY <1>d, LeaveTypes, Zenon DEF CleanFail, AutoPruneNothing, Crash, Return
  <2> QED
    BY <1>d, <1>1, <2>1, Zenon
       DEF CleanFail, AutoPruneNothing, Crash, StorageTypes, ChainTypes, storage, chain
<1>e. CASE CleanDone
  BY <1>e, <1>1, Zenon DEF CleanDone, StorageTypes, ChainTypes, JobTypes, storage, chain, job
<1>f. CASE OrderSkip
  <2>1. done + 1 \in 0..Len(full_order)
    BY <1>f, <1>2, Typed, SMTT(60) DEF OrderSkip
  <2> QED
    BY <1>f, <1>1, <2>1, Zenon DEF OrderSkip, StorageTypes, ChainTypes, JobTypes, storage, chain
<1>g. ASSUME pc = "order", done < Len(full_order)
      PROVE  At \in Topos /\ NextHash \in Blocks /\ TxsOf[NextHash] \subseteq Txs
             /\ done + 1 \in 0..Len(full_order)
  <2>1. full_order \in Orders /\ base + Len(full_order) - 1 \in Topos
    BY <1>1, <1>g, Zenon DEF JobTypes
  <2>2. At \in Topos
    BY <1>2, <1>g, <2>1, Typed, Constants, SMTT(60) DEF At
  <2>3. NextHash \in Blocks /\ done + 1 \in 0..Len(full_order)
    BY <1>2, <1>g, <2>1, Typed, OrderFacts, SMTT(60) DEF NextHash
  <2> QED
    BY <2>2, <2>3, Constants, Zenon
<1>h. CASE Order
  <2>1. PICK valid \in SUBSET Txs : OrderStep(valid)
    BY <1>h, Zenon DEF Order
  <2>2. pc = "order" /\ done < Len(full_order)
    BY <2>1, Zenon DEF OrderStep
  <2>3. StorageTypes' /\ ChainTypes'
    BY <1>1, <1>g, <2>1, <2>2, Zenon DEF OrderStep, SetTopoHeight, StorageTypes, ChainTypes, chain
  <2>4. JobTypes'
    BY <1>1, <1>g, <2>1, <2>2, Zenon DEF OrderStep, JobTypes
  <2> QED
    BY <2>3, <2>4, Zenon
<1>i. CASE OrderFail
  <2>1. pc = "order" /\ done < Len(full_order)
    BY <1>i, Zenon DEF OrderFail
  <2>2. JobTypes'
    BY <1>i, LeaveTypes, Zenon DEF OrderFail, Return
  <2> QED
    BY <1>1, <1>g, <1>i, <2>1, <2>2, Zenon
       DEF OrderFail, SetTopoHeight, StorageTypes, ChainTypes, chain
<1>j. CASE OrderDone
  <2>1. base + Len(full_order) - 1 \in Topos /\ done = Len(full_order)
    BY <1>1, <1>j, Zenon DEF JobTypes, OrderDone
  <2>2. At - 1 \in Topos
    BY <2>1, <1>2, Typed, SMTT(60) DEF At
  <2>3. ChainTypes'
    BY <1>1, <1>2, <1>j, <2>2, Typed, Zenon DEF OrderDone, ChainTypes
  <2>4. JobTypes'
    BY <1>j, LeaveTypes, Zenon DEF OrderDone
  <2>5. StorageTypes'
    BY <1>1, <1>j, Zenon DEF OrderDone, StorageTypes, JobTypes
  <2> QED
    BY <2>3, <2>4, <2>5, Zenon
<1>k. CASE Rewind
  <2>1. PICK count \in 0..topoheight, at_stable \in BOOLEAN, sync \in Topos :
           RewindStart(count, at_stable, sync)
    BY <1>k, Zenon DEF Rewind
  <2>2. cursor' \in 0..MaxTopo + 1 /\ cursor' \in Topos /\ lowest' \in Nat
    BY <2>1, <1>2, Typed, Constants, SMTT(30) DEF RewindStart
  <2> QED
    BY <2>1, <2>2, <1>1, Zenon DEF RewindStart, StorageTypes, ChainTypes, JobTypes, storage, chain
<1>l. CASE PopStep
  <2>1. cursor \in Topos /\ cursor - 1 \in Topos /\ cursor - 1 \in 0..MaxTopo + 1
    BY <1>l, <1>1, <1>2, Typed, Constants, SMTT(60) DEF PopStep, JobTypes
  <2>2. StorageTypes'
    <3>1. applied' \in [Topos -> Blocks \cup {None}]
      BY <1>l, <1>1, ZenonT(30) DEF PopStep, StorageTypes
    <3> QED
      BY <1>l, <1>1, <2>1, <3>1, DeleteTypes, Zenon DEF PopStep
  <2> QED
    BY <1>l, <1>1, <2>1, <2>2, Zenon DEF PopStep, ChainTypes, JobTypes, chain
<1>m. CASE PopReset
  <2>1. cursor \in Topos /\ 0 \in Topos
    BY <1>m, <1>1, Constants, SMTT(60) DEF PopReset, JobTypes
  <2>2. JobTypes'
    BY <1>m, LeaveTypes, Zenon DEF PopReset, Return
  <2>3. StorageTypes'
    <3>1. applied' \in [Topos -> Blocks \cup {None}]
      BY <1>m, <1>1, <2>1, Zenon DEF PopReset, StorageTypes
    <3> QED
      BY <1>m, <1>1, <2>1, <3>1, DeleteTypes, Zenon DEF PopReset
  <2>4. ChainTypes'
    BY <1>m, <2>1, Zenon DEF PopReset, ChainTypes
  <2> QED
    BY <2>2, <2>3, <2>4, Zenon
<1>n. CASE PopFail \/ PruneFail
  <2>1. cursor \in Topos
    BY <1>n, <1>1, <1>2, Typed, Constants, SMTT(60) DEF PopFail, PruneFail, JobTypes
  <2>2. JobTypes'
    BY <1>n, LeaveTypes, Zenon DEF PopFail, PruneFail, Return
  <2>3. StorageTypes'
    <3>1. applied' \in [Topos -> Blocks \cup {None}]
      BY <1>n, <1>1, Zenon DEF PopFail, PruneFail, StorageTypes
    <3> QED
      BY <1>n, <1>1, <2>1, <3>1, DeleteTypes, Zenon DEF PopFail, PruneFail
  <2> QED
    BY <1>n, <1>1, <2>2, <2>3, Zenon DEF PopFail, PruneFail, ChainTypes, chain
<1>o. CASE RewindDone
  <2>1. PICK common \in Topos : PopDone(common)
    BY <1>o, Zenon DEF RewindDone
  <2>2. cursor \in Topos
    BY <2>1, <1>1, Zenon DEF PopDone, JobTypes
  <2>3. JobTypes'
    BY <2>1, LeaveTypes, Zenon DEF PopDone, Return
  <2>4. ChainTypes'
    BY <2>1, <2>2, <1>1, Zenon DEF PopDone, ChainTypes
  <2> QED
    BY <2>1, <2>3, <2>4, <1>1, Zenon DEF PopDone, StorageTypes, storage
<1>p. CASE Prune
  <2>1. PICK n \in Topos, sync \in Topos : PruneStart(n, sync)
    BY <1>p, Zenon DEF Prune
  <2>2. cursor' \in 0..MaxTopo + 1 /\ lowest' \in Nat /\ lowest' \in Topos
    <3>1. cursor' = LastPruned /\ lowest' = sync
      BY <2>1, Zenon DEF PruneStart
    <3>2. LastPruned \in 0..MaxTopo + 1
      <4>1. pruned \in 0..MaxTopo /\ MaxTopo \in Nat
        BY <1>2, Typed, Constants, Zenon DEF Topos
      <4> QED
        BY <4>1, SMTT(60) DEF LastPruned
    <3> QED
      BY <2>1, <3>1, <3>2, Constants, Zenon
  <2> QED
    BY <2>1, <2>2, <1>1, Zenon DEF PruneStart, StorageTypes, ChainTypes, JobTypes, storage, chain
<1>q. CASE PruneStep
  <2>1. cursor \in Topos /\ cursor + 1 \in 0..MaxTopo + 1
    BY <1>q, <1>1, <1>2, Typed, Constants, SMTT(60) DEF PruneStep, JobTypes
  <2>2. StorageTypes'
    BY <1>q, <1>1, <2>1, DeleteTypes, Zenon DEF PruneStep, StorageTypes
  <2> QED
    BY <1>q, <1>1, <2>1, <2>2, Zenon DEF PruneStep, ChainTypes, JobTypes, chain
<1>r. CASE PruneDone
  <2>1. JobTypes'
    BY <1>r, LeaveTypes, Zenon DEF PruneDone, Return
  <2>2. lowest \in Topos
    BY <1>r, <1>1, Zenon DEF PruneDone, JobTypes
  <2> QED
    BY <1>r, <1>1, <2>1, <2>2, Zenon DEF PruneDone, AppliedFrom, StorageTypes, ChainTypes
<1>s. CASE UNCHANGED vars
  BY <1>s, <1>1, Zenon DEF vars, storage, chain, job, StorageTypes, ChainTypes, JobTypes
<1> QED
  BY Zenon, <1>a, <1>b, <1>c, <1>d, <1>e, <1>f, <1>h, <1>i, <1>j, <1>k, <1>l, <1>m, <1>n, <1>o,
     <1>p, <1>q, <1>r, <1>s DEF Next

\* Types: the pointers, heights and counters of add_new_block, of a rewind and
\* of a pruning stay in their ranges, crashes and failed calls included.
THEOREM TypeCorrect == Spec => []TypeOK
<1>1. TypeInv => TypeOK
  BY Zenon DEF TypeInv
<1> QED
  BY <1>1, InitType, NextType, PTL DEF Spec

-----------------------------------------------------------------------------
(* Executed transactions and their blocks                                  *)

(* A deletion that fails half way unlinks and unmarks the same             *)
(* transactions.                                                           *)
LEMMA UnlinkSomeLinked ==
    ASSUME StorageTypes, Linked, NEW h \in Blocks, NEW txs \in SUBSET Txs, Unlink(h, txs)
    PROVE  Linked'
<1> SUFFICES ASSUME NEW t \in Txs, executed'[t] # None
             PROVE  t \in TxsOf[executed'[t]] /\ executed'[t] \in linked'[t]
  BY Zenon DEF Linked
<1>1. executed'[t] = executed[t] /\ ~(t \in txs /\ executed[t] = h)
  BY Zenon DEF Unlink
<1>2. t \in TxsOf[executed[t]] /\ executed[t] \in linked[t]
  BY <1>1, Zenon DEF Linked
<1> QED
  BY <1>1, <1>2, Zenon DEF Unlink

LEMMA DeleteLinked ==
    ASSUME StorageTypes, Linked, NEW n \in Topos, DeleteBlockAt(n) \/ DeleteFails(n)
    PROVE  Linked'
<1>0. hash_at_topo[n] \in Blocks \cup {None}
  BY Zenon DEF StorageTypes
<1>1. CASE DeleteBlockAt(n)
  <2>1. hash_at_topo[n] \in Blocks /\ TxsOf[hash_at_topo[n]] \in SUBSET Txs
    BY <1>0, <1>1, Constants, Zenon DEF DeleteBlockAt
  <2>2. Unlink(hash_at_topo[n], TxsOf[hash_at_topo[n]])
    BY <1>1, Zenon DEF DeleteBlockAt
  <2> QED
    BY <2>1, <2>2, UnlinkSomeLinked, Zenon
<1>2. CASE DeleteFails(n)
  <2>1. CASE UNCHANGED <<linked, executed>>
    BY <2>1, Zenon DEF Linked
  <2>2. CASE /\ hash_at_topo[n] # None
             /\ \E txs \in SUBSET (TxsOf[hash_at_topo[n]] \cap stored) : Unlink(hash_at_topo[n], txs)
    BY <1>0, <2>2, UnlinkSomeLinked, Zenon DEF StorageTypes
  <2> QED
    BY <1>2, <2>1, <2>2, Zenon DEF DeleteFails
<1> QED
  BY <1>1, <1>2, Zenon

LEMMA NextLinked == TypeInv /\ Linked /\ [Next]_vars => Linked'
<1> SUFFICES ASSUME TypeInv, Linked, [Next]_vars PROVE Linked'
  BY Zenon
<1>1. StorageTypes /\ ChainTypes /\ JobTypes /\ TypeOK
  BY TypeParts, Zenon DEF TypeInv
<1>a. CASE UNCHANGED <<linked, executed>>
  BY <1>a, Zenon DEF Linked
<1>b. CASE CleanStep
  <2> SUFFICES ASSUME NEW t \in Txs, executed'[t] # None
               PROVE  t \in TxsOf[executed'[t]] /\ executed'[t] \in linked'[t]
    BY Zenon DEF Linked
  <2> QED
    BY <1>b, Zenon DEF CleanStep, Linked
<1>c. CASE Order
  <2>1. PICK valid \in SUBSET Txs : OrderStep(valid)
    BY <1>c, Zenon DEF Order
  <2> SUFFICES ASSUME NEW t \in Txs, executed'[t] # None
               PROVE  t \in TxsOf[executed'[t]] /\ executed'[t] \in linked'[t]
    BY Zenon DEF Linked
  <2>2. CASE t \in valid
    BY <2>1, <2>2, Zenon DEF OrderStep
  <2>3. CASE t \notin valid
    BY <2>1, <2>3, Zenon DEF OrderStep, Linked
  <2> QED
    BY <2>2, <2>3, Zenon
<1>d. CASE OrderDone
  <2> SUFFICES ASSUME NEW t \in Txs, executed'[t] # None
               PROVE  t \in TxsOf[executed'[t]] /\ executed'[t] \in linked'[t]
    BY Zenon DEF Linked
  <2> QED
    BY <1>d, Zenon DEF OrderDone, Linked
<1>e. CASE PopStep \/ PopReset \/ PopFail \/ PruneStep \/ PruneFail
  <2>1. cursor \in Topos
    BY <1>e, <1>1, Typed, Constants, SMTT(60)
       DEF PopStep, PopReset, PopFail, PruneStep, PruneFail, JobTypes
  <2> QED
    BY <1>e, <1>1, <2>1, DeleteLinked, Zenon DEF PopStep, PopReset, PopFail, PruneStep, PruneFail
<1>f. CASE AddBlock \/ Rewind \/ RewindDone \/ Prune
  <2>1. UNCHANGED <<linked, executed>>
    BY <1>f, ZenonT(30) DEF AddBlock, SaveBlock, Rewind, RewindStart, RewindDone, PopDone, Prune, PruneStart, storage
  <2> QED
    BY <2>1, <1>a, Zenon
<1>g. CASE CleanSkip \/ CleanFail \/ CleanDone \/ OrderSkip \/ OrderFail \/ AutoPruneNothing
           \/ PruneDone \/ Crash \/ UNCHANGED vars
  <2>1. UNCHANGED <<linked, executed>>
    BY <1>g, Zenon DEF CleanSkip, CleanFail, CleanDone, OrderSkip, OrderFail, AutoPruneNothing,
                PruneDone, Crash, vars, storage
  <2> QED
    BY <2>1, <1>a, Zenon
<1> QED
  BY <1>b, <1>c, <1>d, <1>e, <1>f, <1>g, Zenon DEF Next

LEMMA InitLinked == Init => Linked
  BY ZenonT(60) DEF Init, Linked

\* A transaction marked as executed is always linked to the block that executed
\* it (add_block_for_tx before mark_tx_as_executed, unlinked together), however
\* the jobs of add_new_block, pop_blocks and pruning are cut short or fail.
THEOREM ExecutedStayLinked == Spec => []ExecutedLinked
<1>1. Linked => ExecutedLinked
  BY Zenon DEF Linked, ExecutedLinked, Executed
<1> QED
  BY <1>1, InitType, NextType, InitLinked, NextLinked, PTL DEF Spec

-----------------------------------------------------------------------------
(* The order of the chain, when no job is cut short                        *)

LEMMA InitCore == Init => Core
<1> SUFFICES ASSUME Init PROVE Core
  BY Zenon
<1>1. 0 \in Topos
  BY Constants, SMTT(60)
<1>2. Agree /\ Root /\ Empty /\ Saved
  <2>1. Low = 0 /\ High = 0 /\ topoheight = 0
    BY Zenon DEF Init, Low, High
  <2>2. Root
    BY <1>1, Constants, Zenon DEF Init, Root
  <2>3. Agree
    BY <2>1, <2>2, <1>1, Constants, SMTT(60) DEF Agree, Root, InChain
  <2>4. Empty
    BY <2>1, Constants, SMTT(60) DEF Init, Empty
  <2>5. Saved
    BY Constants, Zenon DEF Init, Saved
  <2> QED
    BY <2>2, <2>3, <2>4, <2>5, Zenon
<1>3. Sizes /\ Contract /\ Fresh /\ Followed
  <2>1. pc = "idle" /\ ~Adding
    BY Zenon DEF Init, Adding
  <2> QED
    BY <2>1, Constants, SMTT(60) DEF Init, Sizes, Contract, Fresh, Pending, Followed
<1>4. Available /\ ExecutedLive /\ AppliedLive
  BY <1>1, Constants, Zenon DEF Init, Available, ExecutedLive, AppliedLive, Live, InChain, Low, High
<1> QED
  BY <1>2, <1>3, <1>4, Zenon DEF Core

(* A block of the chain can be deleted.                                    *)
LEMMA Deletable ==
    ASSUME Inv, ~Adding, NEW n \in Topos, InChain(n)
    PROVE  ~DeleteFails(n)
<1>1. hash_at_topo[n] \in blocks /\ topo_by_hash[hash_at_topo[n]] = n
  BY Zenon DEF Inv, Core, Agree
<1>2. hash_at_topo[n] # None /\ topo_by_hash[hash_at_topo[n]] # None
  BY <1>1, Constants, Zenon DEF Inv, TypeInv, TypeOK
<1>3. TxsOf[hash_at_topo[n]] \subseteq stored
  BY <1>1, Zenon DEF Inv, Core, Available
<1> QED
  BY <1>2, <1>3, Zenon DEF DeleteFails

(* What deleting the block at n does to the rest of the chain.             *)
LEMMA Deleted ==
    ASSUME Inv, ~Adding, NEW n \in Topos, n > 0, InChain(n), DeleteBlockAt(n)
    PROVE  /\ \A m \in Topos : m # n /\ InChain(m) =>
                 /\ hash_at_topo'[m] = hash_at_topo[m] /\ hash_at_topo[m] \in blocks'
                 /\ topo_by_hash'[hash_at_topo[m]] = m
           /\ \A m \in Topos : m # n => hash_at_topo'[m] = hash_at_topo[m]
           /\ hash_at_topo'[n] = None
           /\ Root' /\ Saved'
           /\ \A h \in blocks' : \A t \in TxsOf[h] : t \in stored' /\ h \in linked'[t]
           /\ \A t \in Txs : executed'[t] # None =>
                 executed'[t] = executed[t] /\ executed[t] # hash_at_topo[n]
<1> DEFINE h == hash_at_topo[n]
<1>0. StorageTypes /\ 0 \in Topos
  BY TypeParts, Constants, SMTT(60) DEF Inv
<1>1. h \in blocks /\ topo_by_hash[h] = n /\ h \in Blocks
  BY <1>0, Zenon DEF Inv, Core, Agree, StorageTypes
<1>2. /\ hash_at_topo' = [hash_at_topo EXCEPT ![n] = None]
      /\ topo_by_hash' = [topo_by_hash EXCEPT ![h] = None]
      /\ blocks' = blocks \ {h}
      /\ Unlink(h, TxsOf[h])
  BY Zenon DEF DeleteBlockAt, DeletePointers
<1>3. \A m \in Topos : m # n => hash_at_topo'[m] = hash_at_topo[m]
  BY <1>0, <1>2, Zenon DEF StorageTypes
<1>4. hash_at_topo'[n] = None
  BY <1>0, <1>2, Zenon DEF StorageTypes
<1>5. ASSUME NEW m \in Topos, m # n, InChain(m)
      PROVE  /\ hash_at_topo'[m] = hash_at_topo[m] /\ hash_at_topo[m] \in blocks'
             /\ topo_by_hash'[hash_at_topo[m]] = m
  <2>1. hash_at_topo[m] \in blocks /\ topo_by_hash[hash_at_topo[m]] = m
    BY <1>5, Zenon DEF Inv, Core, Agree
  <2>2. hash_at_topo[m] # h /\ hash_at_topo[m] \in Blocks
    BY <1>0, <1>1, <1>5, <2>1, Zenon DEF StorageTypes
  <2> QED
    BY <1>0, <1>2, <1>3, <1>5, <2>1, <2>2, Zenon DEF StorageTypes
<1>6. Root'
  <2>1. hash_at_topo[0] = Genesis /\ topo_by_hash[Genesis] = 0 /\ Genesis \in blocks
    BY Zenon DEF Inv, Core, Root
  <2>2. Genesis # h
    BY <1>1, <2>1, SMTT(60)
  <2> QED
    BY <1>0, <1>2, <1>3, <2>1, <2>2, Constants, Zenon DEF Root, StorageTypes
<1>7. Saved'
  BY <1>0, <1>1, <1>2, Zenon DEF Inv, Core, Saved, StorageTypes
<1>8. ASSUME NEW g \in blocks', NEW t \in TxsOf[g]
      PROVE  t \in stored' /\ g \in linked'[t]
  <2>1. g \in blocks /\ g # h /\ g \in Blocks /\ t \in Txs
    BY <1>0, <1>2, Constants, ZenonT(30) DEF StorageTypes
  <2>2. t \in stored /\ g \in linked[t]
    BY <2>1, Zenon DEF Inv, Core, Available, Pending
  <2> QED
    BY <1>2, <2>1, <2>2, Zenon DEF Unlink
<1>9. ASSUME NEW t \in Txs, executed'[t] # None
      PROVE  executed'[t] = executed[t] /\ executed[t] # h
  <2>1. executed'[t] = executed[t] /\ ~(t \in TxsOf[h] /\ executed[t] = h)
    BY <1>2, <1>9, Zenon DEF Unlink
  <2> QED
    BY <1>9, <2>1, Zenon DEF Inv, Linked
<1> QED
  BY <1>3, <1>4, <1>5, <1>6, <1>7, <1>8, <1>9, Zenon

(* Steps that leave the storage alone and are not part of adding a block:  *)
(* it is enough that the same topoheights belong to the chain.             *)
LEMMA SameChain ==
    ASSUME Inv, TypeInv', UNCHANGED storage, ~Adding, ~Adding', Sizes', Empty',
           \A n \in Topos : n > 0 => (InChain(n)' <=> InChain(n))
    PROVE  Core'
<1>0. UNCHANGED <<blocks, stored, linked, executed, hash_at_topo, topo_by_hash, applied>>
  BY Zenon DEF storage
<1>1. \A n \in Topos : n > 0 => (Live(n)' <=> Live(n))
  BY Zenon DEF Live, Adding
<1>2. Root' /\ Saved'
  BY <1>0, Zenon DEF Inv, Core, Root, Saved
<1>3. Agree'
  <2> SUFFICES ASSUME NEW n \in Topos, InChain(n)'
               PROVE  hash_at_topo'[n] \in blocks' /\ topo_by_hash'[hash_at_topo'[n]] = n
    BY Zenon DEF Agree
  <2>1. CASE n = 0
    BY <1>0, <2>1, Zenon DEF Inv, Core, Root
  <2>2. CASE n > 0
    BY <1>0, <2>2, Zenon DEF Inv, Core, Agree
  <2> QED
    BY <2>1, <2>2, Constants, SMTT(60)
<1>4. Contract' /\ Fresh' /\ Followed'
  BY Zenon DEF Contract, Fresh, Pending, Followed
<1>5. Available'
  BY <1>0, Zenon DEF Inv, Core, Available, Pending
<1>6. ExecutedLive'
  <2> SUFFICES ASSUME NEW t \in Txs, executed'[t] # None
               PROVE  \E n \in Topos : Live(n)' /\ hash_at_topo'[n] = executed'[t]
    BY Zenon DEF ExecutedLive
  <2>1. PICK n \in Topos : Live(n) /\ hash_at_topo[n] = executed[t]
    BY <1>0, Zenon DEF Inv, Core, ExecutedLive
  <2>2. n # 0
    BY <1>0, <2>1, Constants, Zenon DEF Inv, Core, Root, Linked
  <2> QED
    BY <1>0, <1>1, <2>1, <2>2, Constants, SMTT(60)
<1>7. AppliedLive'
  BY <1>0, <1>1, Zenon DEF Inv, Core, AppliedLive
<1> QED
  BY <1>2, <1>3, <1>4, <1>5, <1>6, <1>7, Zenon DEF Core

LEMMA RewindCore ==
    ASSUME Inv, TypeInv', Rewind
    PROVE  Core'
<1>0. /\ pc = "idle" /\ pc' = "pop" /\ cursor' = topoheight
      /\ UNCHANGED <<storage, topoheight, pruned, placed>>
  BY Zenon DEF Rewind, RewindStart, chain
<1>1. ~Adding /\ ~Adding'
  BY <1>0, Zenon DEF Adding
<1>2. \A n : InChain(n)' <=> InChain(n)
  BY <1>0, Zenon DEF InChain, Low, High
<1>3. Sizes'
  BY <1>0, <1>1, Typed, SMTT(60) DEF Inv, TypeInv, Core, Sizes
<1>4. Empty'
  BY <1>0, Zenon DEF Inv, Core, Empty, Low, High, storage
<1> QED
  BY <1>0, <1>1, <1>2, <1>3, <1>4, SameChain, Zenon

LEMMA PruneStartCore ==
    ASSUME Inv, TypeInv', Prune
    PROVE  Core'
<1>1. PICK n \in Topos, sync \in Topos : PruneStart(n, sync)
  BY Zenon DEF Prune
<1>2. /\ pc \in {"idle", "auto_prune"} /\ pc' = "prune" /\ cursor' = LastPruned /\ lowest' = sync
      /\ UNCHANGED <<storage, topoheight, pruned, placed>>
      /\ sync > LastPruned /\ sync <= n /\ n < topoheight
  BY <1>1, Zenon DEF PruneStart, chain
<1>3. ~Adding /\ ~Adding'
  BY <1>2, Zenon DEF Adding
<1>4. /\ pruned \in Nat /\ LastPruned \in Nat /\ LastPruned >= pruned /\ LastPruned >= 1
      /\ LastPruned <= pruned \/ (pruned = 0 /\ LastPruned = 1)
      /\ topoheight \in Nat /\ n \in Nat /\ sync \in Nat
  <2>1. pruned \in Nat /\ topoheight \in Nat /\ n \in Nat /\ sync \in Nat
    BY Typed, Constants, Zenon DEF Inv, TypeInv
  <2> QED
    BY <2>1, SMTT(60) DEF LastPruned
<1>5. \A m \in Topos : m > 0 => (InChain(m)' <=> InChain(m))
  BY <1>2, <1>4, Constants, SMTT(60) DEF InChain, Low, High
<1>6. Sizes'
  BY <1>2, <1>3, <1>4, SMTT(60) DEF Inv, Core, Sizes
<1>7. Empty'
  BY <1>2, <1>4, Constants, SMTT(60) DEF Inv, Core, Empty, Low, High, storage
<1> QED
  BY <1>2, <1>3, <1>5, <1>6, <1>7, SameChain, Zenon

LEMMA AutoPruneNothingCore ==
    ASSUME Inv, TypeInv', AutoPruneNothing
    PROVE  Core'
<1>0. pc = "auto_prune" /\ pc' = "idle" /\ UNCHANGED <<storage, topoheight, pruned, placed>>
  BY Zenon DEF AutoPruneNothing, Return, Leave, chain
<1>1. ~Adding /\ ~Adding'
  BY <1>0, Zenon DEF Adding
<1>2. \A n : InChain(n)' <=> InChain(n)
  BY <1>0, Zenon DEF InChain, Low, High
<1>3. Sizes' /\ Empty'
  BY <1>0, <1>1, Zenon DEF Inv, Core, Sizes, Empty, Low, High, storage
<1> QED
  BY <1>0, <1>1, <1>2, <1>3, SameChain, Zenon

LEMMA PopDoneCore ==
    ASSUME Inv, TypeInv', RewindDone
    PROVE  Core'
<1>0. /\ pc = "pop" /\ pc' = "idle" /\ topoheight' = cursor
      /\ placed' = (IF placed > cursor THEN cursor ELSE placed)
      /\ UNCHANGED <<storage, pruned>>
  BY Zenon DEF RewindDone, PopDone, Return, Leave
<1>1. ~Adding /\ ~Adding'
  BY <1>0, Zenon DEF Adding
<1>2. \A n : InChain(n)' <=> InChain(n)
  BY <1>0, Zenon DEF InChain, Low, High
<1>3. Sizes'
  BY <1>0, <1>1, Typed, SMTT(60) DEF Inv, TypeInv, Core, Sizes
<1>4. Empty'
  BY <1>0, Zenon DEF Inv, Core, Empty, Low, High, storage
<1> QED
  BY <1>0, <1>1, <1>2, <1>3, <1>4, SameChain, Zenon

(* A step that deletes the block at the cursor: the chain is the rest.     *)
LEMMA OneLess ==
    ASSUME Inv, TypeInv', ~Adding, ~Adding', NEW c \in Topos, c > 0, InChain(c), DeleteBlockAt(c),
           Sizes', Empty',
           \A n \in Topos : InChain(n)' => n = 0 \/ (InChain(n) /\ n # c),
           \A n \in Topos : InChain(n) /\ n # 0 /\ n # c => InChain(n)',
           \A n \in Topos : InChain(n)' /\ n > 0 => applied'[n] = applied[n]
    PROVE  Core'
<1>1. Live(c) /\ \A n : (Live(n) <=> InChain(n)) /\ (Live(n)' <=> InChain(n)')
  BY Zenon DEF Live, Adding
<1>2. Agree'
  <2> SUFFICES ASSUME NEW n \in Topos, InChain(n)'
               PROVE  hash_at_topo'[n] \in blocks' /\ topo_by_hash'[hash_at_topo'[n]] = n
    BY Zenon DEF Agree
  <2>1. CASE n = 0
    BY <2>1, Deleted, Zenon DEF Root
  <2>2. CASE n # 0
    BY <2>2, Deleted, SMTT(60)
  <2> QED
    BY <2>1, <2>2, Zenon
<1>3. Root' /\ Saved'
  BY Deleted, Zenon
<1>4. Contract' /\ Fresh' /\ Followed'
  BY Zenon DEF Contract, Fresh, Pending, Followed
<1>5. Available'
  BY Deleted, Zenon DEF Available
<1>6. ExecutedLive'
  <2> SUFFICES ASSUME NEW t \in Txs, executed'[t] # None
               PROVE  \E n \in Topos : Live(n)' /\ hash_at_topo'[n] = executed'[t]
    BY Zenon DEF ExecutedLive
  <2>1. executed'[t] = executed[t] /\ executed[t] # hash_at_topo[c]
    BY Deleted, Zenon
  <2>2. PICK n \in Topos : Live(n) /\ hash_at_topo[n] = executed[t]
    BY <2>1, Zenon DEF Inv, Core, ExecutedLive
  <2>3. n # 0
    BY <2>1, <2>2, Constants, Zenon DEF Inv, Core, Root, Linked
  <2>4. n # c
    BY <2>1, <2>2, Zenon
  <2>5. hash_at_topo'[n] = hash_at_topo[n]
    BY <2>4, Deleted, Zenon
  <2> QED
    BY <1>1, <2>1, <2>2, <2>3, <2>4, <2>5, Zenon
<1>7. AppliedLive'
  <2> SUFFICES ASSUME NEW n \in Topos, InChain(n)', n > 0 PROVE applied'[n] = hash_at_topo'[n]
    BY <1>1, Zenon DEF AppliedLive
  <2>0. n # 0
    BY Constants, SMTT(60)
  <2>1. InChain(n) /\ n # c
    BY <2>0, Zenon
  <2>2. hash_at_topo'[n] = hash_at_topo[n]
    BY <2>1, Deleted, Zenon
  <2> QED
    BY <1>1, <2>1, <2>2, Zenon DEF Inv, Core, AppliedLive
<1> QED
  BY <1>2, <1>3, <1>4, <1>5, <1>6, <1>7, Zenon DEF Core

LEMMA PopStepCore ==
    ASSUME Inv, TypeInv', PopStep
    PROVE  Core'
<1>0. /\ pc = "pop" /\ pc' = "pop" /\ cursor > lowest /\ cursor > pruned /\ cursor' = cursor - 1
      /\ DeleteBlockAt(cursor) /\ applied' = [applied EXCEPT ![cursor] = None]
      /\ UNCHANGED <<topoheight, pruned, placed>>
  BY Zenon DEF PopStep, chain
<1>1. ~Adding /\ ~Adding'
  BY <1>0, Zenon DEF Adding
<1>2. /\ cursor \in Topos /\ cursor \in Nat /\ cursor > 0 /\ pruned \in Nat /\ topoheight \in Nat
      /\ applied \in [Topos -> Blocks \cup {None}]
  BY <1>0, Typed, SMTT(60) DEF Inv, TypeInv, TypeOK
<1>3. InChain(cursor) /\ \A n \in Topos : InChain(n)' <=> InChain(n) /\ n # cursor
  BY <1>0, <1>2, Constants, SMTT(60) DEF InChain, Low, High
<1>4. Sizes'
  BY <1>0, <1>1, <1>2, SMTT(60) DEF Inv, Core, Sizes
<1>5. Empty'
  <2> SUFFICES ASSUME NEW n \in Topos, (n > 0 /\ n < pruned) \/ n > cursor - 1
               PROVE  hash_at_topo'[n] = None
    BY <1>0, Zenon DEF Empty, Low, High
  <2>1. CASE n = cursor
    BY <2>1, <1>0, <1>1, <1>2, <1>3, Deleted, Zenon
  <2>2. CASE n # cursor
    <3>1. hash_at_topo[n] = None
      BY <2>2, <1>0, <1>2, Constants, SMTT(60) DEF Inv, Core, Empty, Low, High
    <3> QED
      BY <3>1, <2>2, <1>0, <1>1, <1>2, <1>3, Deleted, Zenon
  <2> QED
    BY <2>1, <2>2, Zenon
<1>6. \A n \in Topos : InChain(n)' /\ n > 0 => applied'[n] = applied[n]
  BY <1>0, <1>2, <1>3, Zenon
<1> QED
  BY <1>0, <1>1, <1>2, <1>3, <1>4, <1>5, <1>6, OneLess, Zenon

(* The block at the pruned topoheight is the last one: only genesis stays. *)
LEMMA PopResetCore ==
    ASSUME Inv, TypeInv', PopReset
    PROVE  Core'
<1>0. /\ pc = "pop" /\ pc' = "idle" /\ cursor > lowest /\ cursor <= pruned
      /\ DeleteBlockAt(cursor)
      /\ topoheight' = 0 /\ pruned' = 0 /\ placed' = 0
  BY Zenon DEF PopReset, Return, Leave
<1>1. ~Adding /\ ~Adding'
  BY <1>0, Zenon DEF Adding
<1>2. /\ cursor \in Topos /\ cursor \in Nat /\ cursor > 0 /\ pruned \in Nat /\ topoheight \in Nat
      /\ cursor = pruned
  <2>1. cursor \in Topos /\ cursor \in Nat /\ lowest \in Nat /\ pruned \in Nat /\ topoheight \in Nat
    BY <1>0, Typed, Zenon DEF Inv, TypeInv
  <2>2. pruned <= cursor
    BY <1>0, Zenon DEF Inv, Core, Sizes
  <2> QED
    BY <1>0, <2>1, <2>2, SMTT(60)
<1>3. InChain(cursor) /\ \A n \in Topos : InChain(n) <=> n = cursor
  BY <1>0, <1>2, Constants, SMTT(60) DEF InChain, Low, High
<1>4. \A n \in Topos : InChain(n)' <=> n = 0
  BY <1>0, Constants, SMTT(60) DEF InChain, Low, High
<1>5. Sizes'
  BY <1>0, <1>1, SMTT(60) DEF Sizes
<1>6. Empty'
  <2> SUFFICES ASSUME NEW n \in Topos, n > 0 PROVE hash_at_topo'[n] = None
    BY <1>0, Constants, Zenon DEF Empty, Low, High
  <2>1. CASE n = cursor
    BY <2>1, <1>0, <1>1, <1>2, <1>3, Deleted, Zenon
  <2>2. CASE n # cursor
    <3>1. hash_at_topo[n] = None
      BY <2>2, <1>0, <1>2, Constants, SMTT(60) DEF Inv, Core, Empty, Low, High
    <3> QED
      BY <3>1, <2>2, <1>0, <1>1, <1>2, <1>3, Deleted, Zenon
  <2> QED
    BY <2>1, <2>2, Zenon
<1>7. \A n \in Topos : InChain(n)' /\ n > 0 => applied'[n] = applied[n]
  BY <1>4, SMTT(60)
<1> QED
  BY <1>0, <1>1, <1>2, <1>3, <1>4, <1>5, <1>6, <1>7, OneLess, Zenon

LEMMA PruneStepCore ==
    ASSUME Inv, TypeInv', PruneStep
    PROVE  Core'
<1>0. /\ pc = "prune" /\ pc' = "prune" /\ cursor < lowest /\ cursor' = cursor + 1
      /\ DeleteBlockAt(cursor)
      /\ UNCHANGED <<applied, topoheight, pruned, placed, lowest>>
  BY Zenon DEF PruneStep, chain
<1>1. ~Adding /\ ~Adding'
  BY <1>0, Zenon DEF Adding
<1>2. /\ cursor \in Topos /\ cursor \in Nat /\ cursor > 0 /\ cursor < topoheight /\ topoheight \in Nat
      /\ pruned \in Nat /\ lowest \in Nat
  <2>1. /\ cursor \in Nat /\ lowest \in Nat /\ lowest \in Topos /\ topoheight \in Topos
        /\ topoheight \in Nat /\ pruned \in Nat
    BY <1>0, Typed, Zenon DEF Inv, TypeInv
  <2>2. cursor >= 1 /\ lowest < topoheight
    BY <1>0, Zenon DEF Inv, Core, Sizes
  <2> QED
    BY <1>0, <2>1, <2>2, Constants, SMTT(60)
<1>3. InChain(cursor) /\ \A n \in Topos : InChain(n)' <=> InChain(n) /\ n # cursor
  BY <1>0, <1>2, Constants, SMTT(60) DEF InChain, Low, High
<1>4. Sizes'
  BY <1>0, <1>1, <1>2, SMTT(60) DEF Inv, Core, Sizes
<1>5. Empty'
  <2> SUFFICES ASSUME NEW n \in Topos, (n > 0 /\ n < cursor + 1) \/ n > topoheight
               PROVE  hash_at_topo'[n] = None
    BY <1>0, Zenon DEF Empty, Low, High
  <2>1. CASE n = cursor
    BY <2>1, <1>0, <1>1, <1>2, <1>3, Deleted, Zenon
  <2>2. CASE n # cursor
    <3>1. hash_at_topo[n] = None
      BY <2>2, <1>0, <1>2, Constants, SMTT(60) DEF Inv, Core, Empty, Low, High
    <3> QED
      BY <3>1, <2>2, <1>0, <1>1, <1>2, <1>3, Deleted, Zenon
  <2> QED
    BY <2>1, <2>2, Zenon
<1>6. \A n \in Topos : InChain(n)' /\ n > 0 => applied'[n] = applied[n]
  BY <1>0, Zenon
<1> QED
  BY <1>0, <1>1, <1>2, <1>3, <1>4, <1>5, <1>6, OneLess, Zenon

LEMMA PruneDoneCore ==
    ASSUME Inv, TypeInv', PruneDone
    PROVE  Core'
<1>0. /\ pc = "prune" /\ pc' = "idle" /\ cursor = lowest /\ pruned' = lowest
      /\ applied' = AppliedFrom(lowest)
      /\ UNCHANGED <<blocks, stored, linked, executed, hash_at_topo, topo_by_hash, topoheight, placed>>
  BY Zenon DEF PruneDone, Return, Leave
<1>1. ~Adding /\ ~Adding'
  BY <1>0, Zenon DEF Adding
<1>2. cursor \in Nat /\ topoheight \in Nat /\ lowest \in Nat
  BY Typed, Zenon DEF Inv, TypeInv
<1>3. \A n : (InChain(n)' <=> InChain(n)) /\ (Live(n)' <=> InChain(n)) /\ (Live(n) <=> InChain(n))
  BY <1>0, <1>1, Zenon DEF InChain, Low, High, Live, Adding
<1>4. Sizes'
  BY <1>0, <1>1, <1>2, SMTT(60) DEF Inv, Core, Sizes
<1>5. Empty' /\ Agree' /\ Root' /\ Saved'
  BY <1>0, <1>3, Zenon DEF Inv, Core, Empty, Agree, Root, Saved, Low, High
<1>6. Contract' /\ Fresh' /\ Followed'
  BY <1>1, Zenon DEF Contract, Fresh, Pending, Followed
<1>7. Available' /\ ExecutedLive'
  BY <1>0, <1>1, <1>3, Zenon DEF Inv, Core, Available, Pending, ExecutedLive
<1>8. AppliedLive'
  <2> SUFFICES ASSUME NEW n \in Topos, InChain(n), n > 0 PROVE applied'[n] = hash_at_topo[n]
    BY <1>0, <1>3, Zenon DEF AppliedLive
  <2>1. ~(n < lowest)
    BY <1>0, <1>2, Constants, SMTT(60) DEF InChain, Low, High
  <2> QED
    BY <1>0, <1>3, <2>1, Zenon DEF AppliedFrom, Inv, Core, AppliedLive
<1> QED
  BY <1>4, <1>5, <1>6, <1>7, <1>8, Zenon DEF Core

(* No deletion fails.                                                      *)
LEMMA NoDeleteFails ==
    ASSUME Inv
    PROVE  ~PopFail /\ ~PruneFail
<1>1. pruned \in Nat /\ cursor \in Nat /\ lowest \in Nat /\ topoheight \in Nat
  BY Typed, Zenon DEF Inv, TypeInv
<1>2. ASSUME PopFail PROVE FALSE
  <2>1. pc = "pop" /\ cursor > lowest /\ DeleteFails(cursor) /\ ~Adding
    BY <1>2, Zenon DEF PopFail, Adding
  <2>2. cursor \in Topos /\ InChain(cursor)
    BY <1>1, <2>1, SMTT(60) DEF Inv, TypeInv, Core, Sizes, InChain, Low, High
  <2> QED
    BY <2>1, <2>2, Deletable, Zenon
<1>3. ASSUME PruneFail PROVE FALSE
  <2>1. pc = "prune" /\ cursor < lowest /\ DeleteFails(cursor) /\ ~Adding
    BY <1>3, Zenon DEF PruneFail, Adding
  <2>2. lowest \in Topos /\ lowest < topoheight
    BY <2>1, Zenon DEF Inv, TypeInv, Core, Sizes
  <2>3. cursor \in Topos /\ InChain(cursor)
    BY <1>1, <2>1, <2>2, Constants, SMTT(60) DEF InChain, Low, High
  <2> QED
    BY <2>1, <2>3, Deletable, Zenon
<1> QED
  BY <1>2, <1>3, Zenon
=============================================================================
