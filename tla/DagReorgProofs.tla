--------------------------- MODULE DagReorgProofs ---------------------------
(***************************************************************************)
(* The steps of add_new_block keep the invariant of module                 *)
(* DagReorgInvariant, and what follows from it: the theorems about module  *)
(* DagReorg.  They hold until a crash cuts a job short or an order is      *)
(* shorter than the one it replaces.                                       *)
(***************************************************************************)
EXTENDS DagReorgInvariant

(* add_new_block: the block is saved and an order is computed.             *)
LEMMA SaveBlockCore ==
    ASSUME Inv, TypeInv', ~cut',
           NEW b \in Blocks \ blocks, NEW from \in pruned..placed, NEW s \in Orders, SaveBlock(b, from, s)
    PROVE  Core'
<1>0. /\ pc = "idle" /\ pc' = "clean" /\ block' = b /\ base' = from /\ full_order' = s
      /\ done' = 0 /\ cursor' = from /\ is_written' = (from = 0) /\ before' = Executed
      /\ blocks' = blocks \cup {b} /\ stored' = stored \cup TxsOf[b]
      /\ FullOrder(s, from, blocks \cup {b}) /\ ~(from + Len(s) - 1 < topoheight)
      /\ UNCHANGED <<linked, executed, hash_at_topo, topo_by_hash, applied,
                     topoheight, pruned, placed>>
  BY Zenon DEF SaveBlock, chain
<1>1. ~Adding /\ Adding'
  BY <1>0, Zenon DEF Adding
<1>2. /\ pruned \in Nat /\ topoheight \in Nat /\ placed = topoheight /\ from \in Nat /\ from \in Topos
      /\ pruned <= from /\ from <= topoheight /\ StorageTypes
  BY Typed, Constants, TypeParts, SMTT(30) DEF Inv, TypeInv, Core, Sizes
<1>3. \A n \in Topos : /\ InChain(n) <=> pruned <= n /\ n <= topoheight
                       /\ InChain(n)' <=> InChain(n)
                       /\ Live(n) <=> InChain(n)
                       /\ Live(n)' <=> InChain(n)
  <2>1. \A n \in Topos : ~(from + 0 <= n /\ n < from)
    BY <1>2, Constants, SMTT(60)
  <2>2. Low = pruned /\ High = topoheight /\ Low' = pruned /\ High' = topoheight
    BY <1>0, Zenon DEF Low, High
  <2> QED
    BY <1>0, <2>1, <2>2, Zenon DEF InChain, Live
<1>4. /\ Len(s) \in Nat /\ Len(s) >= 1 /\ DOMAIN s = 1..Len(s) /\ \A k \in DOMAIN s : s[k] \in Blocks
  BY OrderFacts, Zenon
<1>5. Agree' /\ Root' /\ Saved' /\ Empty'
  <2>1. Agree'
    BY <1>0, <1>3, Zenon DEF Inv, Core, Agree
  <2>2. Root' /\ Saved'
    BY <1>0, Zenon DEF Inv, Core, Root, Saved
  <2>3. Empty'
    BY <1>0, Zenon DEF Inv, Core, Empty, Low, High
  <2> QED
    BY <2>1, <2>2, <2>3, Zenon
<1>6. Sizes'
  <2>1. from + Len(s) - 1 >= topoheight
    BY <1>0, <1>2, <1>4, SMTT(60)
  <2>2. ~is_written' => from # 0
    BY <1>0, Zenon
  <2>3. pc' = "clean" /\ base' = from /\ full_order' = s /\ done' = 0 /\ cursor' = from
        /\ placed' = placed /\ topoheight' = topoheight /\ pruned' = pruned
    BY <1>0, Zenon
  <2> QED
    BY <1>2, <2>1, <2>2, <2>3, SMTT(30) DEF Sizes, Adding
<1>7. Contract'
  <2>1. \A k \in DOMAIN s : s[k] \in blocks'
    BY <1>0, Zenon DEF FullOrder
  <2>2. ASSUME NEW k \in DOMAIN s, NEW n \in Topos, n < from, n >= pruned \/ n = 0, s[k] = hash_at_topo[n]
        PROVE  FALSE
    <3>1. hash_at_topo[n] \in Blocks /\ topo_by_hash[hash_at_topo[n]] = n
      <4>1. CASE n = 0
        BY <4>1, Constants, Zenon DEF Inv, Core, Root
      <4>2. CASE n >= pruned
        BY <4>2, <2>2, <1>2, <1>3, Constants, SMTT(60) DEF Inv, Core, Agree, StorageTypes
      <4> QED
        BY <2>2, <4>1, <4>2, Zenon
    <3>2. Ordered(s[k])
      BY <2>2, <3>1, Constants, Zenon DEF Ordered
    <3>3. topo_by_hash[s[k]] >= from
      BY <1>0, <3>2, Zenon DEF FullOrder
    <3> QED
      BY <2>2, <3>1, <3>3, <1>2, Constants, SMTT(60)
  <2>3. from = 0 => s[1] = Genesis
    BY <1>0, Zenon DEF FullOrder, Inv, Core, Root
  <2>4. \A k \in 1..0 : FALSE
    BY SMTT(60)
  <2> QED
    BY <1>0, <2>1, <2>2, <2>3, <2>4, Zenon DEF Contract
<1>8. Fresh'
  BY <1>0, <1>2, Zenon DEF Inv, Core, Saved, Fresh, StorageTypes
<1>9. Available'
  <2> SUFFICES ASSUME NEW h \in blocks', NEW t \in TxsOf[h]
               PROVE  t \in stored' /\ (h \in linked'[t] \/ Pending(h)')
    BY Zenon DEF Available
  <2>1. CASE h \in blocks
    BY <1>0, <1>1, <2>1, Zenon DEF Inv, Core, Available, Pending
  <2>2. CASE h = b
    <3>1. \A k \in 1..0 : FALSE
      BY SMTT(60)
    <3> QED
      BY <1>0, <1>1, <2>2, <3>1, Zenon DEF Pending
  <2> QED
    BY <1>0, <2>1, <2>2, Zenon
<1>10. ExecutedLive' /\ AppliedLive'
  BY <1>0, <1>3, Zenon DEF Inv, Core, ExecutedLive, AppliedLive
<1>11. Followed'
  BY <1>0, Zenon DEF Followed, Executed
<1> QED
  BY <1>5, <1>6, <1>7, <1>8, <1>9, <1>10, <1>11, Zenon DEF Core

(* Facts of the cleaning loop.                                             *)
LEMMA Cleaning ==
    ASSUME Inv, pc = "clean"
    PROVE  /\ pruned \in Nat /\ topoheight \in Nat /\ base \in Nat /\ done \in Nat /\ cursor \in Nat
           /\ Len(full_order) \in Nat /\ DOMAIN full_order = 1..Len(full_order)
           /\ Adding /\ StorageTypes
           /\ Low = pruned /\ High = topoheight
           /\ base + done <= cursor /\ cursor <= topoheight + 1
           /\ pruned <= base /\ base <= topoheight
           /\ cursor <= topoheight =>
                 /\ cursor \in Topos /\ InChain(cursor)
                 /\ hash_at_topo[cursor] \in blocks /\ topo_by_hash[hash_at_topo[cursor]] = cursor
<1>1. /\ pruned \in Nat /\ topoheight \in Nat /\ topoheight \in Topos /\ base \in Nat /\ done \in Nat
      /\ cursor \in Nat
  BY Typed, Zenon DEF Inv, TypeInv
<1>2. full_order \in Orders
  BY Zenon DEF Inv, TypeInv
<1>3. Adding /\ StorageTypes /\ Low = pruned /\ High = topoheight
  BY TypeParts, Zenon DEF Inv, Adding, Low, High
<1>4. /\ base + done <= cursor /\ cursor <= topoheight + 1
      /\ pruned <= base /\ base <= topoheight
  BY <1>3, Zenon DEF Inv, Core, Sizes
<1>5. cursor <= topoheight => cursor \in Topos /\ InChain(cursor)
  BY <1>1, <1>3, <1>4, Constants, SMTT(60) DEF InChain
<1> QED
  BY <1>1, <1>2, <1>3, <1>4, <1>5, OrderFacts, Zenon DEF Inv, Core, Agree

LEMMA CleanSkipCore ==
    ASSUME Inv, TypeInv', CleanSkip
    PROVE  Core'
<1>0. /\ pc = "clean" /\ pc' = "clean" /\ cursor <= topoheight /\ ~is_written
      /\ done < Len(full_order) /\ Ordered(full_order[done + 1])
      /\ full_order[done + 1] = hash_at_topo[cursor]
      /\ done' = done + 1 /\ cursor' = cursor + 1
      /\ UNCHANGED <<blocks, stored, linked, executed, hash_at_topo, topo_by_hash, applied,
                     topoheight, pruned, placed, block, base, full_order, is_written, before, orphaned>>
  BY Zenon DEF CleanSkip, Stays, storage, chain
<1>1. /\ cursor = base + done /\ base > 0
  BY <1>0, Zenon DEF Inv, Core, Sizes
<1>2. Adding /\ Adding'
  BY <1>0, Zenon DEF Adding
<1>3. \A n \in Topos : /\ InChain(n)' <=> InChain(n)
                       /\ Live(n) <=> InChain(n)
                       /\ Live(n)' <=> InChain(n)
  BY <1>0, <1>1, Cleaning, Constants, SMTT(30) DEF InChain, Low, High, Live
<1>4. Agree' /\ Root' /\ Saved' /\ Empty'
  BY <1>0, <1>3, Zenon DEF Inv, Core, Agree, Root, Saved, Empty, Low, High
<1>5. Sizes'
  BY <1>0, <1>1, <1>2, Cleaning, SMTT(30) DEF Inv, Core, Sizes
<1>6. Contract'
  <2>1. \A k \in 1..done : hash_at_topo[base + k - 1] = full_order[k]
    BY <1>2, SMTT(30) DEF Inv, Core, Contract
  <2>2. hash_at_topo[base + (done + 1) - 1] = full_order[done + 1]
    <3>1. base \in Nat /\ done \in Nat
      BY <1>0, Cleaning, Zenon
    <3>2. base + (done + 1) - 1 = cursor
      BY <1>1, <3>1, SMTT(60)
    <3> QED
      BY <1>0, <3>2, Zenon
  <2>3. \A k \in 1..done + 1 : k \in 1..done \/ k = done + 1
    BY <1>0, Cleaning, SMTT(60)
  <2>4. \A k \in 1..done + 1 : hash_at_topo[base + k - 1] = full_order[k]
    BY <2>1, <2>2, <2>3, Zenon
  <2> QED
    BY <1>0, <1>2, <2>4, Zenon DEF Inv, Core, Contract
<1>7. \A h : Pending(h)' <=> Pending(h)
  <2>1. ~Pending(full_order[done + 1])
    BY <1>0, Cleaning, Zenon DEF Inv, Core, Fresh, Pending, Ordered
  <2>2. ASSUME NEW h PROVE Pending(h)' <=> Pending(h)
    <3>1. CASE h = full_order[done + 1]
      BY <1>0, <1>2, <2>1, <3>1, Cleaning, SMTT(60) DEF Pending
    <3>2. CASE h # full_order[done + 1]
      BY <1>0, <1>2, <3>2, Cleaning, SMTT(30) DEF Pending
    <3> QED
      BY <3>1, <3>2, Zenon
  <2> QED
    BY <2>2, Zenon
<1>8. Fresh' /\ Available'
  BY <1>0, <1>7, Zenon DEF Inv, Core, Fresh, Available
<1>9. ExecutedLive' /\ AppliedLive'
  BY <1>0, <1>3, Zenon DEF Inv, Core, ExecutedLive, AppliedLive
<1>10. Followed'
  BY <1>0, <1>2, Zenon DEF Inv, Core, Followed
<1> QED
  BY <1>4, <1>5, <1>6, <1>8, <1>9, <1>10, Zenon DEF Core

LEMMA CleanStepCore ==
    ASSUME Inv, TypeInv', CleanStep
    PROVE  Core'
<1> DEFINE h == hash_at_topo[cursor]
<1>0. /\ pc = "clean" /\ pc' = "clean" /\ cursor <= topoheight
      /\ executed' = [t \in Txs |-> IF t \in Undone(h) THEN None ELSE executed[t]]
      /\ orphaned' = orphaned \cup Lost(h)
      /\ applied' = [applied EXCEPT ![cursor] = None]
      /\ is_written' = TRUE /\ cursor' = cursor + 1
      /\ UNCHANGED <<blocks, stored, linked, hash_at_topo, topo_by_hash,
                     topoheight, pruned, placed, block, base, full_order, done, before>>
  BY Zenon DEF CleanStep, chain
<1>1. Adding /\ Adding'
  BY <1>0, Zenon DEF Adding
<1>2. \A n \in Topos : /\ InChain(n)' <=> InChain(n)
                       /\ Live(n)' <=> Live(n) /\ n # cursor
  BY <1>0, Cleaning, Constants, SMTT(30) DEF InChain, Low, High, Live
<1>3. Agree' /\ Root' /\ Saved' /\ Empty'
  BY <1>0, <1>2, ZenonT(30) DEF Inv, Core, Agree, Root, Saved, Empty, Low, High
<1>4. Sizes'
  BY <1>0, <1>1, Cleaning, SMTT(30) DEF Inv, Core, Sizes
<1>5. Contract' /\ Fresh' /\ Available'
  BY <1>0, <1>1, Zenon DEF Inv, Core, Contract, Fresh, Available, Pending
<1>6. ExecutedLive'
  <2> SUFFICES ASSUME NEW t \in Txs, executed'[t] # None
               PROVE  \E n \in Topos : Live(n)' /\ hash_at_topo'[n] = executed'[t]
    BY Zenon DEF ExecutedLive
  <2>1. executed'[t] = executed[t] /\ t \notin Undone(h)
    BY <1>0, Zenon
  <2>2. PICK n \in Topos : Live(n) /\ hash_at_topo[n] = executed[t]
    BY <2>1, Zenon DEF Inv, Core, ExecutedLive
  <2>3. n # cursor
    BY <2>1, <2>2, Zenon DEF Inv, Linked, Undone
  <2> QED
    BY <1>0, <1>2, <2>1, <2>2, <2>3, Zenon
<1>7. AppliedLive'
  BY <1>0, <1>2, Cleaning, Zenon DEF Inv, Core, AppliedLive, StorageTypes
<1>8. Followed'
  <2> SUFFICES ASSUME NEW t \in before
               PROVE  \/ executed'[t] # None \/ t \in orphaned'
                      \/ \E k \in DOMAIN full_order : k > done /\ t \in TxsOf[full_order[k]]
    BY <1>0, Zenon DEF Followed
  <2>0. t \in Txs
    BY Zenon DEF Inv, TypeInv, TypeOK
  <2>1. CASE executed[t] # None /\ t \notin Undone(h)
    BY <1>0, <2>0, <2>1, Zenon
  <2>2. CASE t \in Undone(h) /\ h \notin Remaining
    BY <1>0, <2>2, Zenon DEF Lost
  <2>3. CASE t \in Undone(h) /\ h \in Remaining
    BY <1>0, <2>3, Cleaning, SMTT(30) DEF Remaining, Undone
  <2>4. CASE executed[t] = None
    BY <1>0, <1>1, <2>4, Zenon DEF Inv, Core, Followed
  <2> QED
    BY <2>1, <2>2, <2>3, <2>4, Zenon
<1> QED
  BY <1>3, <1>4, <1>5, <1>6, <1>7, <1>8, Zenon DEF Core

LEMMA CleanDoneCore ==
    ASSUME Inv, TypeInv', CleanDone
    PROVE  Core'
<1>0. /\ pc = "clean" /\ pc' = "order" /\ cursor > topoheight
      /\ UNCHANGED <<blocks, stored, linked, executed, hash_at_topo, topo_by_hash, applied,
                     topoheight, pruned, placed, block, base, full_order, done, is_written,
                     before, orphaned, cursor>>
  BY Zenon DEF CleanDone, storage, chain, job
<1>1. Adding /\ Adding' /\ Low' = pruned /\ High' = base + done - 1
  BY <1>0, Zenon DEF Adding, Low, High
<1>2. cursor = topoheight + 1
  BY <1>0, Cleaning, SMTT(60)
<1>3. \A n \in Topos : /\ InChain(n)' => InChain(n)
                       /\ Live(n)' <=> Live(n)
  BY <1>0, <1>1, <1>2, Cleaning, Constants, SMTT(60) DEF InChain, Live
<1>4. Agree' /\ Root' /\ Saved'
  BY <1>0, <1>3, ZenonT(30) DEF Inv, Core, Agree, Root, Saved
<1>5. Empty'
  BY <1>0, <1>1, Cleaning, Constants, Zenon DEF Inv, Core, Empty
<1>6. Sizes'
  BY <1>0, <1>1, <1>2, Cleaning, SMTT(30) DEF Inv, Core, Sizes
<1>7. Contract' /\ Fresh' /\ Available' /\ Followed'
  BY <1>0, <1>1, ZenonT(30) DEF Inv, Core, Contract, Fresh, Available, Pending, Followed
<1>8. ExecutedLive' /\ AppliedLive'
  BY <1>0, <1>3, Zenon DEF Inv, Core, ExecutedLive, AppliedLive
<1> QED
  BY <1>4, <1>5, <1>6, <1>7, <1>8, Zenon DEF Core

(* Facts of the ordering loop.                                             *)
LEMMA Ordering ==
    ASSUME Inv, pc = "order"
    PROVE  /\ pruned \in Nat /\ topoheight \in Nat /\ base \in Nat /\ done \in Nat
           /\ Len(full_order) \in Nat /\ DOMAIN full_order = 1..Len(full_order) /\ done <= Len(full_order)
           /\ Adding /\ StorageTypes /\ Low = pruned /\ High = At - 1 /\ At = base + done
           /\ pruned <= base /\ base <= topoheight /\ base + Len(full_order) - 1 >= topoheight
           /\ \A n : Live(n) <=> InChain(n)
           /\ \A i, j \in DOMAIN full_order : full_order[i] = full_order[j] => i = j
           /\ done < Len(full_order) =>
                 /\ At \in Topos /\ done + 1 \in DOMAIN full_order
                 /\ NextHash \in Blocks /\ NextHash \in blocks /\ NextHash = full_order[done + 1]
                 /\ TxsOf[NextHash] \subseteq stored
<1>1. /\ pruned \in Nat /\ topoheight \in Nat /\ topoheight \in Topos /\ base \in Nat /\ done \in Nat
      /\ done <= Len(full_order)
  BY Typed, Zenon DEF Inv, TypeInv
<1>2. full_order \in Orders /\ base + Len(full_order) - 1 \in Topos
  BY Zenon DEF Inv, TypeInv
<1>3. Adding /\ StorageTypes /\ Low = pruned /\ High = At - 1 /\ At = base + done
  <2>1. StorageTypes
    BY TypeParts, Zenon DEF Inv
  <2>2. Adding /\ Low = pruned
    BY Zenon DEF Adding, Low
  <2>3. High = At - 1 /\ At = base + done
    BY <1>1, SMTT(60) DEF High, At
  <2> QED
    BY <2>1, <2>2, <2>3, Zenon
<1>4. pruned <= base /\ base <= topoheight /\ base + Len(full_order) - 1 >= topoheight
  BY <1>3, Zenon DEF Inv, Core, Sizes
<1>5. \A n : Live(n) <=> InChain(n)
  BY Zenon DEF Live
<1>6. /\ Len(full_order) \in Nat /\ DOMAIN full_order = 1..Len(full_order)
      /\ \A k \in DOMAIN full_order : full_order[k] \in Blocks
      /\ \A i, j \in DOMAIN full_order : full_order[i] = full_order[j] => i = j
  BY <1>2, OrderFacts, Zenon
<1>7. ASSUME done < Len(full_order)
      PROVE  /\ At \in Topos /\ done + 1 \in DOMAIN full_order
             /\ NextHash \in Blocks /\ NextHash \in blocks /\ NextHash = full_order[done + 1]
             /\ TxsOf[NextHash] \subseteq stored
  <2>1. At \in Topos /\ done + 1 \in DOMAIN full_order
    BY <1>1, <1>2, <1>3, <1>6, <1>7, Constants, SMTT(60)
  <2>2. NextHash \in Blocks /\ NextHash \in blocks /\ NextHash = full_order[done + 1]
    BY <1>3, <1>6, <2>1, Zenon DEF NextHash, Inv, Core, Contract
  <2> QED
    BY <2>1, <2>2, Zenon DEF Inv, Core, Available
<1> QED
  BY <1>1, <1>3, <1>4, <1>5, <1>6, <1>7, Zenon

(* A block the loop skips would stand above the old top: none does.        *)
LEMMA NothingFails ==
    ASSUME Inv
    PROVE  ~CleanFail /\ ~OrderSkip /\ ~OrderFail
<1>1. ASSUME CleanFail PROVE FALSE
  <2>1. pc = "clean" /\ cursor <= topoheight
        /\ (hash_at_topo[cursor] = None \/ hash_at_topo[cursor] \notin blocks)
    BY <1>1, Zenon DEF CleanFail
  <2>2. hash_at_topo[cursor] \in blocks /\ blocks \subseteq Blocks
    BY <2>1, Cleaning, Zenon DEF StorageTypes
  <2> QED
    BY <2>1, <2>2, Constants, Zenon
<1>2. ASSUME OrderSkip PROVE FALSE
  <2>1. pc = "order" /\ done < Len(full_order) /\ ~is_written /\ Ordered(NextHash)
        /\ topo_by_hash[NextHash] = At
    BY <1>2, Zenon DEF OrderSkip, InPlace
  <2>2. At > topoheight
    BY <2>1, Ordering, Zenon DEF Inv, Core, Sizes
  <2>3. hash_at_topo[At] = None
    BY <2>1, <2>2, Ordering, SMTT(60) DEF Inv, Core, Empty
  <2>4. hash_at_topo[At] = NextHash
    BY <2>1, Zenon DEF Ordered
  <2> QED
    BY <2>1, <2>3, <2>4, Ordering, Constants, Zenon
<1>3. ASSUME OrderFail PROVE FALSE
  BY <1>3, Ordering, Zenon DEF OrderFail
<1> QED
  BY <1>1, <1>2, <1>3, Zenon

LEMMA OrderDoneCore ==
    ASSUME Inv, TypeInv', OrderDone
    PROVE  Core'
<1>0. /\ pc = "order" /\ done = Len(full_order)
      /\ topoheight' = (IF At - 1 > topoheight THEN At - 1 ELSE topoheight) /\ placed' = At - 1
      /\ UNCHANGED <<blocks, stored, executed, hash_at_topo, topo_by_hash, applied, pruned>>
  BY Zenon DEF OrderDone
<1>1. pc' = "idle" \/ pc' = "auto_prune"
  BY Zenon DEF OrderDone, Leave
<1>2. ~Adding'
  BY <1>1, Zenon DEF Adding
<1>3. topoheight' = At - 1
  BY <1>0, Ordering, SMTT(60)
<1>4. Low' = pruned /\ High' = At - 1
  BY <1>0, <1>1, <1>3, Zenon DEF Low, High
<1>5. \A n : (InChain(n)' <=> InChain(n)) /\ (Live(n)' <=> InChain(n))
  BY <1>0, <1>1, <1>4, Ordering, Zenon DEF InChain, Live
<1>6. Agree' /\ Root' /\ Saved'
  BY <1>0, <1>5, Zenon DEF Inv, Core, Agree, Root, Saved
<1>7. Empty'
  BY <1>0, <1>1, <1>3, <1>4, Ordering, Constants, SMTT(60) DEF Inv, Core, Empty
<1>8. Sizes'
  BY <1>0, <1>1, <1>2, <1>3, Ordering, SMTT(60) DEF Sizes
<1>9. Contract' /\ Fresh' /\ Followed'
  BY <1>2, Zenon DEF Contract, Fresh, Pending, Followed
<1>10. Available'
  <2> SUFFICES ASSUME NEW h \in blocks, NEW t \in TxsOf[h] PROVE t \in stored /\ h \in linked'[t]
    BY <1>0, Zenon DEF Available
  <2>1. t \in stored /\ (h \in linked[t] \/ Pending(h))
    BY Zenon DEF Inv, Core, Available
  <2>2. t \in Txs
    BY <1>0, Ordering, Constants, Zenon DEF StorageTypes
  <2>3. CASE h \in linked[t]
    BY <2>1, <2>2, <2>3, Zenon DEF OrderDone
  <2>4. CASE Pending(h)
    <3>1. h = block /\ ~\E k \in DOMAIN full_order : full_order[k] = block
      BY <1>0, <2>4, Ordering, Zenon DEF Pending
    <3> QED
      BY <2>1, <2>2, <3>1, Zenon DEF OrderDone
  <2> QED
    BY <2>1, <2>3, <2>4, Zenon
<1>11. ExecutedLive' /\ AppliedLive'
  BY <1>0, <1>5, Ordering, Zenon DEF Inv, Core, ExecutedLive, AppliedLive
<1> QED
  BY <1>6, <1>7, <1>8, <1>9, <1>10, <1>11, Zenon DEF Core

(* One block of the order gets its place and is executed.                  *)
LEMMA OrderStepCore ==
    ASSUME Inv, TypeInv', NEW valid \in SUBSET Txs, OrderStep(valid)
    PROVE  Core'
<1>0. /\ pc = "order" /\ pc' = "order" /\ done < Len(full_order)
      /\ valid \subseteq {t \in TxsOf[NextHash] : executed[t] = None}
      /\ hash_at_topo' = [hash_at_topo EXCEPT ![At] = NextHash]
      /\ topo_by_hash' = [topo_by_hash EXCEPT ![NextHash] = At]
      /\ linked' = [t \in Txs |-> IF t \in TxsOf[NextHash] THEN linked[t] \cup {NextHash} ELSE linked[t]]
      /\ executed' = [t \in Txs |-> IF t \in valid THEN NextHash ELSE executed[t]]
      /\ orphaned' = (orphaned \cup {t \in TxsOf[NextHash] : executed[t] = None}) \ valid
      /\ applied' = [applied EXCEPT ![At] = NextHash]
      /\ is_written' = TRUE /\ done' = done + 1
      /\ UNCHANGED <<blocks, stored, topoheight, pruned, placed, block, base, full_order, before>>
  BY Zenon DEF OrderStep, SetTopoHeight, chain
<1>1. Adding /\ Adding' /\ Low' = pruned /\ High' = At
  BY <1>0, Ordering, SMTT(60) DEF Adding, Low, High
<1>2. /\ pruned \in Nat /\ topoheight \in Nat /\ base \in Nat /\ done \in Nat /\ pruned <= base
      /\ At = base + done /\ At \in Topos /\ At \in Nat /\ StorageTypes
      /\ NextHash \in Blocks /\ NextHash \in blocks /\ NextHash = full_order[done + 1]
      /\ done + 1 \in DOMAIN full_order /\ DOMAIN full_order = 1..Len(full_order)
      /\ Len(full_order) \in Nat
  BY <1>0, Ordering, SMTT(60)
<1>3. \A n \in Topos : /\ InChain(n)' <=> InChain(n) \/ n = At
                       /\ InChain(n) <=> pruned <= n /\ n < At
                       /\ Live(n)' <=> InChain(n)'
                       /\ Live(n) <=> InChain(n)
  <2>1. \A n : (Live(n) <=> InChain(n)) /\ (Live(n)' <=> InChain(n)')
    BY <1>0, Zenon DEF Live
  <2>2. \A n \in Topos : /\ InChain(n)' <=> InChain(n) \/ n = At
                         /\ InChain(n) <=> pruned <= n /\ n < At
    BY <1>0, <1>1, <1>2, Ordering, Constants, SMTT(60) DEF InChain
  <2> QED
    BY <2>1, <2>2, Zenon
<1>4. /\ hash_at_topo'[At] = NextHash /\ applied'[At] = NextHash /\ topo_by_hash'[NextHash] = At
      /\ \A n \in Topos : n # At => hash_at_topo'[n] = hash_at_topo[n] /\ applied'[n] = applied[n]
      /\ \A h \in Blocks : h # NextHash => topo_by_hash'[h] = topo_by_hash[h]
  BY <1>0, <1>2, Zenon DEF StorageTypes
<1>5. ASSUME NEW n \in Topos, n < At, n >= pruned \/ n = 0
      PROVE  hash_at_topo[n] # NextHash
  <2>1. CASE n < base
    BY <1>1, <1>2, <1>5, <2>1, Zenon DEF Inv, Core, Contract
  <2>2. CASE n >= base
    <3>1. n - base + 1 \in 1..done /\ n - base + 1 \in DOMAIN full_order /\ base + (n - base + 1) - 1 = n
      BY <1>0, <1>2, <1>5, <2>2, Constants, SMTT(30)
    <3>2. hash_at_topo[n] = full_order[n - base + 1]
      BY <1>1, <3>1, Zenon DEF Inv, Core, Contract
    <3>3. n - base + 1 # done + 1
      BY <1>2, <3>1, SMTT(60)
    <3> QED
      BY <1>0, <1>2, <3>1, <3>2, <3>3, Ordering, Zenon
  <2> QED
    BY <1>2, <2>1, <2>2, Constants, SMTT(60)
<1>6. Agree'
  <2> SUFFICES ASSUME NEW n \in Topos, InChain(n)'
               PROVE  hash_at_topo'[n] \in blocks' /\ topo_by_hash'[hash_at_topo'[n]] = n
    BY Zenon DEF Agree
  <2>1. CASE n = At
    BY <1>0, <1>2, <1>4, <2>1, SMTT(60)
  <2>2. CASE n # At
    <3>1. InChain(n) /\ n < At /\ n >= pruned
      BY <1>3, <2>2, <1>2, Constants, Zenon
    <3>2. hash_at_topo[n] \in blocks /\ topo_by_hash[hash_at_topo[n]] = n
      BY <3>1, Zenon DEF Inv, Core, Agree
    <3>3. hash_at_topo[n] # NextHash /\ hash_at_topo[n] \in Blocks
      BY <1>2, <1>5, <3>1, <3>2, Zenon DEF StorageTypes
    <3> QED
      BY <1>0, <1>4, <2>2, <3>2, <3>3, SMTT(60)
  <2> QED
    BY <2>1, <2>2, Zenon
<1>7. Root'
  <2>0. /\ hash_at_topo[0] = Genesis /\ topo_by_hash[Genesis] = 0 /\ Genesis \in blocks
        /\ Genesis \in Blocks /\ 0 \in Topos
    BY Constants, SMTT(60) DEF Inv, Core, Root
  <2>1. CASE At = 0
    <3>1. base = 0 /\ done = 0
      BY <1>2, <2>1, SMTT(60)
    <3>2. NextHash = Genesis
      BY <1>1, <1>2, <3>1, SMTT(60) DEF Inv, Core, Contract
    <3> QED
      BY <1>0, <1>4, <2>0, <2>1, <3>2, Zenon DEF Root
  <2>2. CASE At # 0
    <3>1. Genesis # NextHash
      BY <1>2, <1>5, <2>0, <2>2, SMTT(60)
    <3> QED
      BY <1>0, <1>4, <2>0, <2>2, <3>1, Zenon DEF Root
  <2> QED
    BY <2>1, <2>2, Zenon
<1>8. Empty'
  <2> SUFFICES ASSUME NEW n \in Topos, (n > 0 /\ n < pruned) \/ (n > At /\ n > topoheight)
               PROVE  hash_at_topo'[n] = None
    BY <1>0, <1>1, Zenon DEF Empty
  <2>1. n # At
    BY <1>2, Constants, SMTT(60)
  <2>2. Low = pruned /\ High = At - 1
    BY <1>0, Ordering, Zenon
  <2>3. (n > 0 /\ n < Low) \/ (n > High /\ n > topoheight)
    BY <1>2, <2>2, Constants, SMTT(60)
  <2>4. hash_at_topo[n] = None
    BY <2>3, Zenon DEF Inv, Core, Empty
  <2> QED
    BY <1>4, <2>1, <2>4, Zenon
<1>9. Saved'
  BY <1>0, <1>2, <1>4, Zenon DEF Inv, Core, Saved
<1>10. Sizes'
  BY <1>0, <1>1, <1>2, Ordering, Zenon DEF Inv, Core, Sizes
<1>11. Contract'
  <2>1. ASSUME NEW k \in 1..done + 1 PROVE hash_at_topo'[base + k - 1] = full_order[k]
    <3>1. CASE k = done + 1
      <4>1. base + k - 1 = At
        BY <1>2, <3>1, SMTT(60)
      <4> QED
        BY <1>2, <1>4, <3>1, <4>1, Zenon
    <3>2. CASE k # done + 1
      <4>1. k \in 1..done /\ base + k - 1 \in Topos /\ base + k - 1 # At
        BY <1>2, <3>2, Constants, SMTT(60)
      <4> QED
        BY <1>1, <1>4, <4>1, Zenon DEF Inv, Core, Contract
    <3> QED
      BY <3>1, <3>2, Zenon
  <2>2. \A n \in Topos : n < base => hash_at_topo'[n] = hash_at_topo[n]
    BY <1>2, <1>4, Constants, SMTT(60)
  <2> QED
    BY <1>0, <1>1, <2>1, <2>2, SMTT(60) DEF Inv, Core, Contract
<1>12. \A h : Pending(h)' <=> Pending(h) /\ h # NextHash
  BY <1>0, <1>1, <1>2, SMTT(60) DEF Pending
<1>13. Fresh'
  <2>1. block \in Blocks
    BY Zenon DEF Inv, TypeInv, TypeOK
  <2> QED
    BY <1>0, <1>4, <1>12, <2>1, Zenon DEF Inv, Core, Fresh
<1>14. Available'
  <2> SUFFICES ASSUME NEW h \in blocks, NEW t \in TxsOf[h]
               PROVE  t \in stored /\ (h \in linked'[t] \/ Pending(h)')
    BY <1>0, Zenon DEF Available
  <2>1. t \in stored /\ (h \in linked[t] \/ Pending(h)) /\ t \in Txs
    BY <1>2, Constants, Zenon DEF Inv, Core, Available, StorageTypes
  <2> QED
    BY <1>0, <1>12, <2>1, Zenon
<1>15. ExecutedLive'
  <2> SUFFICES ASSUME NEW t \in Txs, executed'[t] # None
               PROVE  \E n \in Topos : InChain(n)' /\ hash_at_topo'[n] = executed'[t]
    BY <1>3, Zenon DEF ExecutedLive
  <2>1. CASE t \in valid
    BY <1>0, <1>2, <1>3, <1>4, <2>1, Zenon
  <2>2. CASE t \notin valid
    <3>1. executed'[t] = executed[t]
      BY <1>0, <2>2, ZenonT(30)
    <3>2. PICK n \in Topos : InChain(n) /\ hash_at_topo[n] = executed[t]
      BY <1>3, <3>1, Zenon DEF Inv, Core, ExecutedLive
    <3>3. n # At
      BY <1>2, <1>3, <3>2, Constants, SMTT(60)
    <3> QED
      BY <1>3, <1>4, <3>1, <3>2, <3>3, SMTT(30)
  <2> QED
    BY <2>1, <2>2, Zenon
<1>16. AppliedLive'
  <2> SUFFICES ASSUME NEW n \in Topos, InChain(n)', n > 0 PROVE applied'[n] = hash_at_topo'[n]
    BY <1>3, Zenon DEF AppliedLive
  <2>1. CASE n = At
    BY <1>4, <2>1, Zenon
  <2>2. CASE n # At
    BY <1>3, <1>4, <2>2, Zenon DEF Inv, Core, AppliedLive
  <2> QED
    BY <2>1, <2>2, Zenon
<1>17. Followed'
  <2> SUFFICES ASSUME NEW t \in before
               PROVE  \/ executed'[t] # None \/ t \in orphaned'
                      \/ \E k \in DOMAIN full_order : k > done + 1 /\ t \in TxsOf[full_order[k]]
    BY <1>0, Zenon DEF Followed
  <2>0. t \in Txs /\ NextHash # None
    BY <1>2, Constants, Zenon DEF Inv, TypeInv, TypeOK
  <2>1. CASE executed[t] # None \/ t \in valid
    BY <1>0, <2>0, <2>1, Zenon
  <2>2. CASE executed[t] = None /\ t \notin valid /\ t \in orphaned
    BY <1>0, <2>2, Zenon
  <2>3. CASE executed[t] = None /\ t \notin valid /\ t \notin orphaned
    <3>1. PICK k \in DOMAIN full_order : k > done /\ t \in TxsOf[full_order[k]]
      BY <1>1, <2>3, Zenon DEF Inv, Core, Followed
    <3>2. CASE k = done + 1
      BY <1>0, <1>2, <2>3, <3>1, <3>2, Zenon
    <3>3. CASE k # done + 1
      BY <1>2, <3>1, <3>3, SMTT(60)
    <3> QED
      BY <3>2, <3>3, Zenon
  <2> QED
    BY <2>1, <2>2, <2>3, Zenon
<1> QED
  BY <1>6, <1>7, <1>8, <1>9, <1>10, <1>11, <1>13, <1>14, <1>15, <1>16, <1>17,
     Zenon DEF Core

LEMMA NextInv == IInv /\ [Next]_vars => IInv'
<1> SUFFICES ASSUME IInv, [Next]_vars PROVE IInv'
  BY Zenon
<1>1. TypeInv' /\ Linked'
  BY NextType, NextLinked, Zenon DEF IInv
<1> SUFFICES ASSUME ~cut' PROVE Core'
  BY <1>1, Zenon DEF IInv
<1>2. Inv
  <2>1. ~cut
    BY Zenon DEF Next, AddBlock, SaveBlock, Crash, vars
  <2> QED
    BY <2>1, Zenon DEF IInv, Inv
<1>a. CASE AddBlock
  BY <1>a, <1>1, <1>2, SaveBlockCore, Zenon DEF AddBlock
<1>b. CASE CleanSkip
  BY <1>b, <1>1, <1>2, CleanSkipCore, Zenon
<1>c. CASE CleanStep
  BY <1>c, <1>1, <1>2, CleanStepCore, Zenon
<1>d. CASE CleanDone
  BY <1>d, <1>1, <1>2, CleanDoneCore, Zenon
<1>e. CASE Order
  BY <1>e, <1>1, <1>2, OrderStepCore, Zenon DEF Order
<1>f. CASE OrderDone
  BY <1>f, <1>1, <1>2, OrderDoneCore, Zenon
<1>g. CASE Rewind
  BY <1>g, <1>1, <1>2, RewindCore, Zenon
<1>h. CASE PopStep
  BY <1>h, <1>1, <1>2, PopStepCore, Zenon
<1>i. CASE PopReset
  BY <1>i, <1>1, <1>2, PopResetCore, Zenon
<1>j. CASE RewindDone
  BY <1>j, <1>1, <1>2, PopDoneCore, Zenon
<1>k. CASE Prune
  BY <1>k, <1>1, <1>2, PruneStartCore, Zenon
<1>l. CASE AutoPruneNothing
  BY <1>l, <1>1, <1>2, AutoPruneNothingCore, Zenon
<1>m. CASE PruneStep
  BY <1>m, <1>1, <1>2, PruneStepCore, Zenon
<1>n. CASE PruneDone
  BY <1>n, <1>1, <1>2, PruneDoneCore, Zenon
<1>o. CASE CleanFail \/ OrderSkip \/ OrderFail \/ PopFail \/ PruneFail \/ Crash
  BY <1>o, <1>2, NothingFails, NoDeleteFails, Zenon DEF Crash
<1>p. CASE UNCHANGED vars
  <2> USE DEF vars, storage, chain, job, Inv, Core, Adding, InChain, Low, High
  <2>1. Agree' /\ Root'
    BY <1>p, <1>2, Zenon DEF Agree, Root
  <2>2. Empty' /\ Saved'
    BY <1>p, <1>2, Zenon DEF Empty, Saved
  <2>3. Sizes'
    BY <1>p, <1>2, Zenon DEF Sizes
  <2>4. Contract' /\ Fresh'
    BY <1>p, <1>2, Zenon DEF Contract, Fresh, Pending
  <2>5. Available' /\ Followed'
    BY <1>p, <1>2, Zenon DEF Available, Followed, Pending
  <2>6. ExecutedLive' /\ AppliedLive'
    BY <1>p, <1>2, Zenon DEF ExecutedLive, AppliedLive, Live
  <2> QED
    BY <2>1, <2>2, <2>3, <2>4, <2>5, <2>6, Zenon
<1> QED
  BY <1>a, <1>b, <1>c, <1>d, <1>e, <1>f, <1>g, <1>h, <1>i, <1>j, <1>k, <1>l, <1>m, <1>n, <1>o, <1>p, Zenon
     DEF Next

LEMMA Invariant == Spec => []IInv
<1>1. Init => IInv
  BY InitType, InitLinked, InitCore, Zenon DEF IInv
<1>2. IInv /\ [Next]_vars => IInv'
  BY NextInv, Zenon
<1> QED
  BY <1>1, <1>2, PTL DEF Spec

\* Between two calls of add_new_block, rewind_chain and pruning the order has no
\* hole, and get_hash_at_topo_height and get_topo_height_for_hash agree.
THEOREM OrderHasNoHole == Spec => []PointersAgree
<1>1. IInv => PointersAgree
  <2> SUFFICES ASSUME Inv, ~cut, pc = "idle", NEW n \in pruned..topoheight
               PROVE  hash_at_topo[n] \in blocks /\ topo_by_hash[hash_at_topo[n]] = n
    BY Zenon DEF PointersAgree, IInv, Inv
  <2>1. n \in Topos /\ InChain(n)
    BY Typed, Constants, SMTT(60) DEF Inv, TypeInv, InChain, Low, High
  <2> QED
    BY <2>1, Zenon DEF Inv, Core, Agree
<1> QED
  BY <1>1, Invariant, PTL

\* Every block that add_new_block moved, or whose versioned data its cleaning
\* loop deleted, was executed again at its new topoheight.
THEOREM StateFollowsOrder == Spec => []StateMatchesOrder
<1>1. IInv => StateMatchesOrder
  <2> SUFFICES ASSUME Inv, ~cut, pc = "idle", NEW n \in pruned..placed, n > 0
               PROVE  applied[n] = hash_at_topo[n]
    BY Zenon DEF StateMatchesOrder, IInv, Inv
  <2>1. placed = topoheight
    BY Zenon DEF Inv, Core, Sizes
  <2>2. n \in Topos /\ Live(n)
    BY <2>1, Typed, Constants, SMTT(60) DEF Inv, TypeInv, Live, InChain, Low, High
  <2> QED
    BY <2>2, Zenon DEF Inv, Core, AppliedLive
<1> QED
  BY <1>1, Invariant, PTL

\* No transaction stays marked as executed by a block that a reorganisation, a
\* rewind or a pruning took out of the order.
THEOREM ExecutionsInOrder == Spec => []ExecutedInOrder
<1>1. IInv => ExecutedInOrder
  <2> SUFFICES ASSUME Inv, ~cut, pc = "idle", NEW t \in Executed
               PROVE  /\ t \in TxsOf[executed[t]]
                      /\ \E n \in pruned..topoheight : hash_at_topo[n] = executed[t]
    BY Zenon DEF ExecutedInOrder, IInv, Inv
  <2>1. t \in Txs /\ executed[t] # None
    BY Zenon DEF Executed
  <2>2. PICK n \in Topos : Live(n) /\ hash_at_topo[n] = executed[t]
    BY <2>1, Zenon DEF Inv, Core, ExecutedLive
  <2>3. n \in pruned..topoheight
    BY <2>2, Typed, Constants, SMTT(60) DEF Inv, TypeInv, Live, InChain, Low, High
  <2> QED
    BY <2>1, <2>2, <2>3, Zenon DEF Inv, Linked
<1> QED
  BY <1>1, Invariant, PTL

\* A transaction whose execution a reorganisation undid is executed again by the
\* new order or is in orphaned_transactions when the loops of add_new_block end.
THEOREM TransactionsFollowed == Spec => []NoTxLost
<1>1. IInv => NoTxLost
  <2> SUFFICES ASSUME Inv, ~cut, pc = "order", done = Len(full_order),
                      NEW t \in before, t \notin Executed
               PROVE  t \in orphaned
    BY Zenon DEF NoTxLost, IInv, Inv
  <2>1. t \in Txs /\ executed[t] = None
    BY Zenon DEF Inv, TypeInv, TypeOK, Executed
  <2>2. ~\E k \in DOMAIN full_order : k > done
    BY Ordering, SMTT(60)
  <2> QED
    BY <2>1, <2>2, Ordering, Zenon DEF Inv, Core, Followed
<1> QED
  BY <1>1, Invariant, PTL

\* Deleting a block, in a rewind or a pruning, never deletes a transaction that
\* another saved block holds: every saved block can be loaded.
THEOREM BlocksLoadable == Spec => []TxsAvailable
<1>1. IInv => TxsAvailable
  BY Zenon DEF IInv, Core, Available, TxsAvailable
<1> QED
  BY <1>1, Invariant, PTL
=============================================================================
