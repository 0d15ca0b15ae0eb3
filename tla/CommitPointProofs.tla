-------------------------- MODULE CommitPointProofs --------------------------
(***************************************************************************)
(* Proofs about the commit point, for any set of keys and values.  The     *)
(* inductive invariant adds one fact to the invariants model-checked: a    *)
(* batch is never applied under an LRU cache, because applying it replaced *)
(* the cache by the snapshot's clone, which has none.                      *)
(***************************************************************************)
EXTENDS CommitPoint, TLAPS

Inv ==
    /\ TypeOK
    /\ CacheCoherent
    /\ applying => ~cached

LEMMA StoreType ==
    ASSUME TypeOK, NEW S \in SUBSET Keys, NEW c \in Cells, Store(S, c)
    PROVE  /\ disk' \in [Keys -> Cells]
           /\ writes' \in [Keys -> Cells \cup {Untouched}]
BY Zenon DEF Store, TypeOK, TypeInvariant, Cells

LEMMA InitInv == Init => Inv
BY ValueAssumption, CacheAssumption, Zenon
   DEF Init, Inv, TypeOK, TypeInvariant, CacheCoherent, CacheServes, NoWrites,
       Empty, Cells

LEMMA NextInv == Inv /\ [Next]_vars => Inv'
<1> SUFFICES ASSUME Inv, [Next]_vars PROVE Inv'
  BY Zenon
<1> USE ValueAssumption, CacheAssumption
<1>1. ASSUME NEW k \in Keys, NEW v \in Values, Insert(k, v) PROVE Inv'
  <2>1. /\ disk' \in [Keys -> Cells]
        /\ writes' \in [Keys -> Cells \cup {Untouched}]
    BY <1>1, StoreType, Zenon DEF Insert, Inv, Cells
  <2>2. TypeOK'
    BY <1>1, <2>1, Zenon DEF Insert, Inv, TypeOK, TypeInvariant, Store, Cells, NoWrites
  <2>3. CacheCoherent'
    BY <1>1, <2>1, Zenon DEF Insert, Inv, TypeOK, TypeInvariant, Store, Cells,
                      CacheCoherent, CacheServes
  <2> QED BY <1>1, <2>2, <2>3, Zenon DEF Insert, Inv
<1>2. ASSUME NEW k \in Keys, Remove(k) PROVE Inv'
  <2>1. /\ disk' \in [Keys -> Cells]
        /\ writes' \in [Keys -> Cells \cup {Untouched}]
    BY <1>2, StoreType, Zenon DEF Remove, Inv, Cells
  <2>2. TypeOK'
    BY <1>2, <2>1, Zenon DEF Remove, Inv, TypeOK, TypeInvariant, Store, Cells, NoWrites
  <2>3. CacheCoherent'
    BY <1>2, <2>1, ZenonT(60) DEF Remove, Inv, TypeOK, TypeInvariant, Store, Cells, Overlay,
                      CacheCoherent, CacheServes, NoWrites
  <2> QED BY <1>2, <2>2, <2>3, Zenon DEF Remove, Inv
<1>3. ASSUME NEW k \in Keys, Fetch(k) PROVE Inv'
  BY <1>3, Zenon DEF Fetch, Inv, TypeOK, TypeInvariant, Cells, Overlay, CacheCoherent,
              CacheServes, NoWrites
<1>4. ASSUME NEW k \in Keys, Evict(k) PROVE Inv'
  BY <1>4, Zenon DEF Evict, Inv, TypeOK, TypeInvariant, Cells, CacheCoherent,
              CacheServes, NoWrites
<1>5. ASSUME NEW k \in Keys, ApplyWrite(k) PROVE Inv'
  BY <1>5, Zenon DEF ApplyWrite, Inv, TypeOK, TypeInvariant, Cells, CacheCoherent,
              CacheServes, NoWrites
<1>6. ASSUME NEW S \in SUBSET Keys, DeleteVersioned(S) PROVE Inv'
  <2>1. /\ disk' \in [Keys -> Cells]
        /\ writes' \in [Keys -> Cells \cup {Untouched}]
    BY <1>6, StoreType, Zenon DEF DeleteVersioned, Inv, Cells
  <2>2. TypeOK'
    BY <1>6, <2>1, Zenon DEF DeleteVersioned, Inv, TypeOK, TypeInvariant, Store, Cells,
                      NoWrites, Cleared, Empty
  <2>3. CacheCoherent'
    BY <1>6, <2>1, Zenon DEF DeleteVersioned, Inv, TypeOK, TypeInvariant, Cells, Cleared,
                      Empty, CacheCoherent, CacheServes
  <2> QED BY <1>6, <2>2, <2>3, Zenon DEF DeleteVersioned, Inv
<1>7. CASE StartCommitPoint
  BY <1>7, Zenon DEF StartCommitPoint, Inv, TypeOK, TypeInvariant, CacheCoherent,
              CacheServes
<1>8. CASE EndCommitPointApply
  BY <1>8, Zenon DEF EndCommitPointApply, Inv, TypeOK, TypeInvariant, CacheCoherent,
              CacheServes, Empty, Cells
<1>9. CASE EndCommitPointRollback
  BY <1>9, Zenon DEF EndCommitPointRollback, Inv, TypeOK, TypeInvariant, CacheCoherent,
              CacheServes, Empty, Cells, Cleared, NoWrites
<1>10. CASE ApplyDone
  BY <1>10, Zenon DEF ApplyDone, Inv, TypeOK, TypeInvariant, CacheCoherent, CacheServes
<1>11. CASE Crash
  BY <1>11, Zenon DEF Crash, Inv, TypeOK, TypeInvariant, CacheCoherent, CacheServes,
               Empty, Cells, NoWrites
<1>12. CASE UNCHANGED vars
  BY <1>12, Zenon DEF vars, Inv, TypeOK, TypeInvariant, CacheCoherent, CacheServes
<1> QED
  BY <1>1, <1>2, <1>3, <1>4, <1>5, <1>6, <1>7, <1>8, <1>9, <1>10, <1>11, <1>12, Zenon
  DEF Next

(***************************************************************************)
(* The state is well typed and no batch outlives its commit point: it is   *)
(* dropped by end_commit_point(false) and by a restart, and is used up by  *)
(* end_commit_point(true).                                                 *)
(***************************************************************************)
THEOREM TypeCorrect == Spec => []TypeOK
<1>1. Inv => TypeOK BY Zenon DEF Inv
<1> QED BY <1>1, InitInv, NextInv, PTL DEF Spec

(***************************************************************************)
(* No read is ever served a stale LRU entry, whatever the interleaving of  *)
(* writes, bulk deletions, evictions, commit points, rollbacks and crashes.*)
(***************************************************************************)
THEOREM CacheNeverStale == Spec => []CacheCoherent
<1>1. Inv => CacheCoherent BY Zenon DEF Inv
<1> QED BY <1>1, InitInv, NextInv, PTL DEF Spec

(***************************************************************************)
(* contains_data_cached is exact on the tree shown by the commit point.    *)
(***************************************************************************)
THEOREM ContainsExact == Spec => []ContainsAgrees
<1>1. Inv => ContainsAgrees
  BY ValueAssumption, Zenon
  DEF Inv, ContainsAgrees, Contains, Overlay, CacheCoherent, CacheServes, TypeOK,
      TypeInvariant, Cells
<1> QED BY <1>1, InitInv, NextInv, PTL DEF Spec

-----------------------------------------------------------------------------

Seen == [k \in Keys |-> Read(k)]

\* With a coherent cache, a read returns what batch and disk hold.
LEMMA SeenIsOverlay ==
    ASSUME Inv
    PROVE  Seen = [k \in Keys |-> Overlay(k)]
BY Zenon DEF Inv, Seen, Read, Overlay, CacheCoherent, CacheServes

LEMMA InitStore == Init => Promised!Init
BY ValueAssumption, CacheAssumption, Zenon
   DEF Init, Promised!Init, Promised!Cells, Cells, Read, CacheServes, Overlay,
       NoWrites, Empty

\* A step that stores under a set of keys is a write of the promised store.
LEMMA StoreWrites ==
    ASSUME Inv, Inv', NEW S \in SUBSET Keys, NEW c \in Cells, Store(S, c),
           ~applying, UNCHANGED <<open, applying>>
    PROVE  Promised!Write(S, c)
<1>1. Seen = [k \in Keys |-> Overlay(k)] BY SeenIsOverlay, Zenon
<1>2. Seen' = [k \in Keys |-> Overlay(k)']
  BY Zenon DEF Inv, Seen, Read, Overlay, CacheCoherent, CacheServes
<1>3. Seen' = [k \in Keys |-> IF k \in S THEN c ELSE Seen[k]]
  BY <1>1, <1>2, ValueAssumption, SMTT(60)
  DEF Overlay, Store, Inv, TypeOK, TypeInvariant, NoWrites, Cells
<1>4. disk' = IF open THEN disk ELSE Seen'
  BY <1>2, Zenon DEF Overlay, Store, Inv, TypeOK, TypeInvariant, NoWrites, Cells
<1> QED BY <1>3, <1>4, Zenon DEF Promised!Write, Seen

\* Every step of the storage is a step of the promised store, or none at all.
LEMMA NextStore == Inv /\ Inv' /\ [Next]_vars => [Promised!Next]_(Promised!vars)
<1> SUFFICES ASSUME Inv, Inv', [Next]_vars PROVE [Promised!Next]_(Promised!vars)
  BY Zenon
<1> USE ValueAssumption, CacheAssumption
<1>a. Seen = [k \in Keys |-> Overlay(k)] BY SeenIsOverlay, Zenon
<1>b. Seen' = [k \in Keys |-> Overlay(k)']
  BY Zenon DEF Inv, Seen, Read, Overlay, CacheCoherent, CacheServes
<1>c. Promised!Cells = Cells BY Zenon DEF Promised!Cells, Cells
<1>1. ASSUME NEW k \in Keys, NEW v \in Values, Insert(k, v) PROVE Promised!Next
  <2>1. Promised!Write({k}, v) BY <1>1, StoreWrites, Zenon DEF Insert, Cells
  <2> QED BY <2>1, <1>c, Zenon DEF Promised!Next, Cells
<1>2. ASSUME NEW k \in Keys, Remove(k) PROVE Promised!Next
  <2>1. Promised!Write({k}, None) BY <1>2, StoreWrites, Zenon DEF Remove, Cells
  <2> QED BY <2>1, <1>c, Zenon DEF Promised!Next, Cells
<1>3. ASSUME NEW k \in Keys, Fetch(k) \/ Evict(k)
      PROVE  UNCHANGED Promised!vars
  <2>1. Seen' = Seen BY <1>3, <1>a, <1>b, Zenon DEF Fetch, Evict, Overlay
  <2> QED BY <2>1, <1>3, Zenon DEF Fetch, Evict, Promised!vars, Seen
<1>4. ASSUME NEW k \in Keys, ApplyWrite(k) PROVE Promised!Next
  <2>1. Seen' = Seen
    BY <1>4, <1>a, <1>b, Zenon DEF ApplyWrite, Overlay, Inv, TypeOK, TypeInvariant
  <2>2. disk' = [disk EXCEPT ![k] = Seen[k]]
    BY <1>4, <1>a, Zenon DEF ApplyWrite, Overlay
  <2>3. Promised!Settle(k)
    BY <1>4, <2>1, <2>2, Zenon DEF ApplyWrite, Promised!Settle, Seen
  <2> QED BY <2>3, Zenon DEF Promised!Next
<1>5. ASSUME NEW S \in SUBSET Keys, DeleteVersioned(S) PROVE Promised!Next
  <2>1. Promised!Write(S, None) BY <1>5, StoreWrites, Zenon DEF DeleteVersioned, Cells
  <2> QED BY <2>1, <1>c, Zenon DEF Promised!Next, Cells
<1>6. CASE StartCommitPoint
  <2>1. Seen' = Seen BY <1>6, <1>a, <1>b, Zenon DEF StartCommitPoint, Overlay
  <2>2. Promised!Start BY <1>6, <2>1, Zenon DEF StartCommitPoint, Promised!Start, Seen
  <2> QED BY <2>2, Zenon DEF Promised!Next
<1>7. CASE EndCommitPointApply
  <2>1. Seen' = Seen BY <1>7, <1>a, <1>b, Zenon DEF EndCommitPointApply, Overlay
  <2>2. Promised!Commit BY <1>7, <2>1, Zenon DEF EndCommitPointApply, Promised!Commit, Seen
  <2> QED BY <2>2, Zenon DEF Promised!Next
<1>8. CASE EndCommitPointRollback
  <2>1. Seen' = disk
    BY <1>8, <1>b, Zenon DEF EndCommitPointRollback, Overlay, NoWrites, Inv, TypeOK,
                      TypeInvariant
  <2>2. Promised!Rollback
    BY <1>8, <2>1, Zenon DEF EndCommitPointRollback, Promised!Rollback, Seen
  <2> QED BY <2>2, Zenon DEF Promised!Next
<1>9. CASE ApplyDone
  <2>1. Seen' = Seen BY <1>9, <1>a, <1>b, Zenon DEF ApplyDone, Overlay
  <2>2. Seen = disk
    BY <1>9, <1>a, Zenon DEF ApplyDone, Overlay, NoWrites, Inv, TypeOK, TypeInvariant
  <2>3. Promised!Committed
    BY <1>9, <2>1, <2>2, Zenon DEF ApplyDone, Promised!Committed, Seen
  <2> QED BY <2>3, Zenon DEF Promised!Next
<1>10. CASE Crash
  <2>1. Seen' = disk
    BY <1>10, <1>b, Zenon DEF Crash, Overlay, NoWrites, Inv, TypeOK, TypeInvariant
  <2>2. Promised!Restart BY <1>10, <2>1, Zenon DEF Crash, Promised!Restart, Seen
  <2> QED BY <2>2, Zenon DEF Promised!Next
<1>11. CASE UNCHANGED vars
  <2>1. Seen' = Seen BY <1>11, <1>a, <1>b, Zenon DEF vars, Overlay
  <2> QED BY <1>11, <2>1, Zenon DEF vars, Promised!vars, Seen
<1> QED
  BY <1>1, <1>2, <1>3, <1>4, <1>5, <1>6, <1>7, <1>8, <1>9, <1>10, <1>11, Zenon
  DEF Next

(***************************************************************************)
(* The storage, with its batch and its LRU cache, implements the           *)
(* transactional store: a rolled back commit point leaves no trace, an     *)
(* applied one is what its user was reading all along.                     *)
(***************************************************************************)
THEOREM Refinement == Spec => ImplementsStore
<1>1. Spec => []Inv BY InitInv, NextInv, PTL DEF Spec
<1> QED
  BY <1>1, InitStore, NextStore, PTL DEF Spec, ImplementsStore, Promised!Spec
=============================================================================
