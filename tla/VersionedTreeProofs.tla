------------------------ MODULE VersionedTreeProofs ------------------------
(***************************************************************************)
(* Proofs about VersionedTree, for the kinds of data that use the generic  *)
(* functions of the sled backend, for every number of topoheights and      *)
(* every set of values.                                                    *)
(*                                                                         *)
(* The invariant that carries them says that the list of versions agrees   *)
(* with the history from a floor on: the pruned topoheight, or the         *)
(* threshold of the pruning that runs.  Its parts are operators on a map   *)
(* vs of versions and a history h, so that the lemmas speak of any two     *)
(* such maps and a step is a use of a lemma.                               *)
(***************************************************************************)
EXTENDS VersionedTree, WellFoundedInduction, TLAPS

\* s is what a pointer or link over the writes below n must be, as far as
\* the writes from f on go.
LinkOK(h, f, s, n) ==
    \/ s # None /\ f <= s /\ IsLast(h, s, n)
    \/ /\ s = None \/ (s \in Topos /\ s < f)
       /\ \A u \in Topos : f <= u /\ u < n => h[u] = None

\* The versions from f on are the writes of the history.
VersionsOK(vs, h, f) ==
    \A u \in Topos : f <= u =>
        /\ u \in DOMAIN vs <=> h[u] # None
        /\ u \in DOMAIN vs => vs[u].val = h[u]

\* Each version from f on and below n is linked to the one before it.
LinksOK(vs, h, f, n) ==
    \A u \in DOMAIN vs : f <= u /\ u < n =>
        /\ LinkOK(h, f, vs[u].prev, u)
        /\ vs[u].prev # None => vs[u].prev \in DOMAIN vs

\* p heads the list of the versions below n.
HeadOK(vs, h, f, p, n) ==
    /\ p # None => p \in DOMAIN vs
    /\ LinkOK(h, f, p, n)

WritesBelow(vs, h, n) ==
    /\ \A u \in DOMAIN vs : u < n
    /\ \A u \in Topos : n <= u => h[u] = None

Consistent(vs, h, f, p, n) ==
    /\ VersionsOK(vs, h, f)
    /\ LinksOK(vs, h, f, n)
    /\ HeadOK(vs, h, f, p, n)
    /\ WritesBelow(vs, h, n)

Descending(vs) == \A u \in DOMAIN vs : vs[u].prev # None => vs[u].prev < u

\* While the blocks from b on are undone, up to c, the pointer is either
\* already right for what stays, or nothing was deleted yet.
Cleaning(vs, h, f, p, b, c, n) ==
    /\ VersionsOK(vs, h, f)
    /\ WritesBelow(vs, h, n)
    /\ \A u \in Topos : b <= u /\ u < c => h[u] = None
    /\ LinksOK(vs, h, f, b)
    /\ \/ HeadOK(vs, h, f, p, b)
       \/ HeadOK(vs, h, f, p, n) /\ LinksOK(vs, h, f, n)

CleanInv ==
    /\ base = next
    /\ cursor # None
    /\ next <= cursor
    /\ cursor <= stored
    /\ Cleaning(versions, hist, pruned, pointer, base, cursor, stored)

\* What the pruning loop erases next is linked from nothing that stays.
BelowInv ==
    /\ pruned < limit
    /\ limit < next
    /\ next <= stored
    /\ Consistent(versions, hist, limit, pointer, next)
    /\ ~patched => /\ pointer # None => limit <= pointer
                   /\ cursor # None => \E w \in DOMAIN versions :
                                          limit <= w /\ versions[w].prev = cursor
    /\ patched /\ cursor # None =>
          /\ cursor < limit
          /\ pointer # None /\ cursor < pointer
          /\ \A u \in DOMAIN versions : limit <= u =>
                versions[u].prev = None \/ cursor < versions[u].prev

\* After a crash, the list is whole, or it was cut short below the top.
CutShort ==
    /\ torn
    /\ WritesBelow(versions, hist, stored)
    /\ pointer # None => pointer < stored

TreeInv ==
    /\ TypeOK
    /\ Descending(versions)
    /\ pruned = 0 \/ pruned < stored
    /\ cursor # None /\ pc \in {"above_walk", "below"} => cursor \in Topos
    /\ pc \in {"clean", "exec", "below"} => ~torn
    /\ pc \in {"above", "above_walk"} => stored > 0 /\ limit = stored - 1
    /\ ~torn => pruned = 0 \/ pruned < next
    /\ pc = "idle" => \/ next <= stored /\ Consistent(versions, hist, pruned, pointer, next)
                      \/ CutShort
    /\ pc = "clean" => CleanInv
    /\ pc = "exec" => /\ base <= stored
                      /\ base <= next
                      /\ Consistent(versions, hist, pruned, pointer, next)
    /\ pc = "above" => \/ Consistent(versions, hist, pruned, pointer, next) /\ (~torn => next >= stored)
                       \/ CutShort
    /\ pc = "above_walk" => Consistent(versions, hist, pruned, cursor, next) /\ (~torn => next >= stored)
    /\ pc = "below" => BelowInv

---------------------------------------------------------------------------
(* Lemmas about lists of versions                                          *)

VersionMaps == UNION {[D -> Version] : D \in SUBSET Topos}
Histories == [Topos -> Values \cup {None}]
Links == Topos \cup {None}
Put(vs, t, r) == [u \in DOMAIN vs \cup {t} |-> IF u = t THEN r ELSE vs[u]]
Drop(vs, t) == [u \in DOMAIN vs \ {t} |-> vs[u]]

LEMMA IsMap == \A vs : IsVersionMap(vs) <=> vs \in VersionMaps
<1> SUFFICES ASSUME NEW vs PROVE IsVersionMap(vs) <=> vs \in VersionMaps
  BY Zenon
<1>1. ASSUME IsVersionMap(vs) PROVE vs \in VersionMaps
  BY <1>1, Zenon DEF IsVersionMap, VersionMaps
<1>2. ASSUME vs \in VersionMaps PROVE IsVersionMap(vs)
  <2>1. PICK D \in SUBSET Topos : vs \in [D -> Version]
    BY <1>2, Zenon DEF VersionMaps
  <2> QED
    BY <2>1, Zenon DEF IsVersionMap
<1> QED
  BY <1>1, <1>2, Zenon

\* A version map: its domain and its fields.
LEMMA VersionMapShape ==
    ASSUME NEW vs \in VersionMaps
    PROVE  /\ DOMAIN vs \subseteq Topos
           /\ vs = [u \in DOMAIN vs |-> vs[u]]
           /\ \A u \in DOMAIN vs : vs[u] \in Version
           /\ \A u \in DOMAIN vs : vs[u].prev \in Links
  BY SMTT(60) DEF VersionMaps, Version, Links

\* Dropping a version leaves a version map.
LEMMA DropShape ==
    ASSUME NEW vs \in VersionMaps, NEW t
    PROVE  /\ Drop(vs, t) \in VersionMaps
           /\ DOMAIN Drop(vs, t) = DOMAIN vs \ {t}
           /\ \A u \in DOMAIN vs \ {t} : Drop(vs, t)[u] = vs[u]
           /\ Descending(vs) => Descending(Drop(vs, t))
<1>1. /\ DOMAIN Drop(vs, t) = DOMAIN vs \ {t}
      /\ \A u \in DOMAIN vs \ {t} : Drop(vs, t)[u] = vs[u]
  BY Zenon DEF Drop
<1>2. Drop(vs, t) \in [DOMAIN vs \ {t} -> Version]
  BY VersionMapShape, Zenon DEF Drop
<1>3. DOMAIN vs \ {t} \in SUBSET Topos
  BY VersionMapShape, Zenon
<1> QED
  BY <1>1, <1>2, <1>3, Zenon DEF VersionMaps, Descending

\* What agrees with the history from f on agrees with it from g on.
LEMMA RaiseFloor ==
    ASSUME NEW vs \in VersionMaps, NEW h \in Histories, NEW p \in Links,
           NEW n \in Nat, NEW f \in Nat, NEW g \in Nat, f <= g,
           Consistent(vs, h, f, p, n)
    PROVE  Consistent(vs, h, g, p, n)
<1>1. \A s \in Links, m \in Nat : LinkOK(h, f, s, m) => LinkOK(h, g, s, m)
  BY NoneAssumption, SMTT(60) DEF LinkOK, IsLast, Links, Topos
<1>2. VersionsOK(vs, h, g)
  BY SMTT(60) DEF Consistent, VersionsOK, Topos
<1>3. LinksOK(vs, h, g, n)
  BY <1>1, VersionMapShape, SMTT(60) DEF Consistent, LinksOK, Topos
<1>4. HeadOK(vs, h, g, p, n) /\ WritesBelow(vs, h, n)
  BY <1>1, Zenon DEF Consistent, HeadOK
<1> QED
  BY <1>2, <1>3, <1>4, Zenon DEF Consistent

\* Undoing the last write: the version it replaced heads what is left.
LEMMA DropHead ==
    ASSUME NEW vs \in VersionMaps, NEW h \in Histories, NEW p \in Topos,
           NEW n \in Nat, NEW f \in Nat, f <= p,
           Descending(vs), Consistent(vs, h, f, p, n)
    PROVE  /\ p \in DOMAIN vs
           /\ Consistent(Drop(vs, p), [h EXCEPT ![p] = None], f, vs[p].prev, n)
<1> DEFINE ws == Drop(vs, p)
           k  == [h EXCEPT ![p] = None]
<1>0. /\ k \in Histories
      /\ k[p] = None
      /\ \A u \in Topos : u # p => k[u] = h[u]
      /\ DOMAIN ws = DOMAIN vs \ {p}
      /\ \A u \in DOMAIN ws : ws[u] = vs[u]
  BY DropShape, Zenon DEF Histories
<1> HIDE DEF ws, k
<1>1. /\ p \in DOMAIN vs
      /\ p < n
      /\ \A u \in Topos : p < u /\ u < n => h[u] = None
  BY NoneAssumption, SMTT(60) DEF Consistent, HeadOK, LinkOK, IsLast, Topos
<1>2. \A u \in DOMAIN vs : f <= u /\ u # p => u < p
  BY <1>1, VersionMapShape, SMTT(60) DEF Consistent, VersionsOK, WritesBelow, Topos
<1>4. VersionsOK(ws, k, f)
  BY <1>0, VersionMapShape, Zenon DEF Consistent, VersionsOK
<1>5. \A s \in Links, m \in Topos : m <= p /\ LinkOK(h, f, s, m) => LinkOK(k, f, s, m)
  BY <1>0, NoneAssumption, SMTT(60) DEF LinkOK, IsLast, Links, Topos
<1>6. LinksOK(ws, k, f, n)
  <2> SUFFICES ASSUME NEW u \in DOMAIN ws, f <= u, u < n
               PROVE  /\ LinkOK(k, f, ws[u].prev, u)
                      /\ ws[u].prev # None => ws[u].prev \in DOMAIN ws
    BY Zenon DEF LinksOK
  <2>1. u \in DOMAIN vs /\ u \in Topos /\ u # p /\ u < p /\ ws[u] = vs[u]
    BY <1>0, <1>2, VersionMapShape, Zenon
  <2>2. /\ LinkOK(h, f, vs[u].prev, u)
        /\ vs[u].prev # None => vs[u].prev \in DOMAIN vs /\ vs[u].prev < u
    BY <2>1, Zenon DEF Consistent, LinksOK, Descending
  <2>3. vs[u].prev \in Links
    BY <2>1, VersionMapShape, Zenon
  <2>4. vs[u].prev # p
    BY <2>1, <2>2, <2>3, NoneAssumption, SMTT(60) DEF Topos, Links
  <2> QED
    BY <1>0, <1>5, <2>1, <2>2, <2>3, <2>4, SMTT(60) DEF Topos
<1>7. HeadOK(ws, k, f, vs[p].prev, n)
  <2>1. /\ LinkOK(h, f, vs[p].prev, p)
        /\ vs[p].prev # None => vs[p].prev \in DOMAIN vs /\ vs[p].prev < p
        /\ vs[p].prev \in Links
    BY <1>1, VersionMapShape, Zenon DEF Consistent, LinksOK, Descending
  <2>2. LinkOK(k, f, vs[p].prev, p)
    BY <1>5, <2>1, SMTT(60) DEF Topos
  <2>3. \A u \in Topos : p <= u /\ u < n => k[u] = None
    BY <1>1, <1>0, SMTT(60) DEF Topos
  <2>4. LinkOK(k, f, vs[p].prev, n)
    BY <1>1, <2>1, <2>2, <2>3, NoneAssumption, SMTT(60) DEF LinkOK, IsLast, Topos, Links
  <2> QED
    BY <1>0, <2>1, <2>4, NoneAssumption, SMTT(60) DEF HeadOK, Topos, Links
<1>8. WritesBelow(ws, k, n)
  BY <1>1, <1>0, VersionMapShape, Zenon DEF Consistent, WritesBelow, Topos
<1> QED
  BY <1>1, <1>4, <1>6, <1>7, <1>8, Zenon DEF Consistent, ws, k

\* Nothing is written at the topoheights the order grows by.
LEMMA Extend ==
    ASSUME NEW vs \in VersionMaps, NEW h \in Histories, NEW p \in Links,
           NEW n \in Nat, NEW m \in Nat, n <= m, NEW f \in Nat,
           Consistent(vs, h, f, p, n)
    PROVE  Consistent(vs, h, f, p, m)
<1>1. \A u \in DOMAIN vs : u < n
  BY Zenon DEF Consistent, WritesBelow
<1>2. LinkOK(h, f, p, m)
  BY NoneAssumption, SMTT(60) DEF Consistent, HeadOK, WritesBelow, LinkOK, IsLast, Topos, Links
<1>3. LinksOK(vs, h, f, m)
  BY <1>1, Zenon DEF Consistent, LinksOK
<1>4. WritesBelow(vs, h, m)
  BY VersionMapShape, SMTT(60) DEF Consistent, WritesBelow, Topos
<1> QED
  BY <1>2, <1>3, <1>4, Zenon DEF Consistent, HeadOK

\* The order shrinks to a topoheight above the head.
LEMMA Shrink ==
    ASSUME NEW vs \in VersionMaps, NEW h \in Histories, NEW p \in Links,
           NEW n \in Nat, NEW m \in Nat, NEW f \in Nat, f <= m,
           p # None => p < m,
           Consistent(vs, h, f, p, n)
    PROVE  Consistent(vs, h, f, p, m)
<1>1. \A u \in Topos : m <= u => h[u] = None
  BY NoneAssumption, SMTT(60) DEF Consistent, HeadOK, WritesBelow, LinkOK, IsLast, Topos, Links
<1>2. \A u \in DOMAIN vs : u < m
  BY <1>1, VersionMapShape, SMTT(60) DEF Consistent, VersionsOK, Topos
<1>3. WritesBelow(vs, h, m)
  BY <1>1, <1>2, Zenon DEF WritesBelow
<1>4. LinkOK(h, f, p, m)
  BY NoneAssumption, SMTT(60) DEF Consistent, HeadOK, WritesBelow, LinkOK, IsLast, Topos, Links
<1>5. LinksOK(vs, h, f, m)
  BY VersionMapShape, Zenon DEF Consistent, LinksOK, WritesBelow, Topos
<1> QED
  BY <1>3, <1>4, <1>5, Zenon DEF Consistent, HeadOK

\* A block writes on top of the last version.
LEMMA WriteOnTop ==
    ASSUME NEW vs \in VersionMaps, NEW h \in Histories, NEW p \in Links,
           NEW n \in Topos, NEW f \in Nat, f <= n,
           NEW v \in Values, NEW o \in BOOLEAN,
           Descending(vs), Consistent(vs, h, f, p, n)
    PROVE  LET ws == Put(vs, n, [prev |-> p, val |-> v, output |-> o])
           IN  /\ ws \in VersionMaps
               /\ Descending(ws)
               /\ Consistent(ws, [h EXCEPT ![n] = v], f, n, n + 1)
<1> DEFINE k == [h EXCEPT ![n] = v]
           nv == [prev |-> p, val |-> v, output |-> o]
           ws == Put(vs, n, nv)
<1>0. /\ nv \in Version /\ nv.prev = p /\ nv.val = v
      /\ ws \in [DOMAIN vs \cup {n} -> Version]
      /\ DOMAIN vs \cup {n} \in SUBSET Topos
  BY VersionMapShape, Zenon DEF Version, Links, Put
<1>1. /\ DOMAIN ws = DOMAIN vs \cup {n}
      /\ ws[n] = nv
      /\ \A u \in DOMAIN vs : u # n => ws[u] = vs[u]
      /\ ws \in VersionMaps
  BY <1>0, Zenon DEF VersionMaps, Put
<1>2. /\ k \in Histories
      /\ k[n] = v /\ v # None
      /\ \A u \in Topos : u # n => k[u] = h[u]
  BY NoneAssumption, Zenon DEF Histories
<1> HIDE DEF k, nv, ws
<1>3. \A u \in DOMAIN vs : u < n
  BY Zenon DEF Consistent, WritesBelow
<1>4. p # None => p \in DOMAIN vs /\ p < n
  BY <1>3, Zenon DEF Consistent, HeadOK
<1>5. Descending(ws)
  BY <1>0, <1>1, <1>4, Zenon DEF Descending
<1>6. VersionsOK(ws, k, f)
  BY <1>0, <1>1, <1>2, Zenon DEF Consistent, VersionsOK
<1>7. \A s \in Links, m \in Topos : m <= n /\ LinkOK(h, f, s, m) => LinkOK(k, f, s, m)
  BY <1>2, NoneAssumption, SMTT(60) DEF LinkOK, IsLast, Links, Topos
<1>8. LinksOK(ws, k, f, n + 1)
  <2> SUFFICES ASSUME NEW u \in DOMAIN ws, f <= u, u < n + 1
               PROVE  /\ LinkOK(k, f, ws[u].prev, u)
                      /\ ws[u].prev # None => ws[u].prev \in DOMAIN ws
    BY Zenon DEF LinksOK
  <2>1. CASE u = n
    BY <1>0, <1>1, <1>4, <1>7, <2>1, SMTT(60) DEF Consistent, HeadOK, Topos
  <2>2. CASE u # n
    <3>1. u \in DOMAIN vs /\ u \in Topos /\ u < n /\ ws[u] = vs[u] /\ vs[u].prev \in Links
      BY <1>1, <1>3, <2>2, VersionMapShape, Zenon
    <3>2. /\ LinkOK(h, f, vs[u].prev, u)
          /\ vs[u].prev # None => vs[u].prev \in DOMAIN vs
      BY <3>1, Zenon DEF Consistent, LinksOK
    <3> QED
      BY <1>1, <1>7, <3>1, <3>2, SMTT(60) DEF Topos
  <2> QED
    BY <2>1, <2>2, Zenon
<1>9. HeadOK(ws, k, f, n, n + 1)
  BY <1>1, <1>2, NoneAssumption, SMTT(60) DEF HeadOK, LinkOK, IsLast, Topos
<1>10. WritesBelow(ws, k, n + 1)
  BY <1>1, <1>2, <1>3, VersionMapShape, SMTT(60) DEF Consistent, WritesBelow, Topos
<1> QED
  BY <1>1, <1>5, <1>6, <1>8, <1>9, <1>10, Zenon DEF Consistent, k, nv, ws

\* One step of undoing: the version at c, if there is one, is deleted, and
\* the pointer falls back to the version it replaced.
LEMMA CleanOne ==
    ASSUME NEW vs \in VersionMaps, NEW h \in Histories, NEW p \in Links,
           NEW f \in Nat, NEW b \in Nat, NEW c \in Topos, NEW n \in Nat,
           f <= b, b <= c, c < n, c \in DOMAIN vs,
           Descending(vs), Cleaning(vs, h, f, p, b, c, n)
    PROVE  Cleaning(Drop(vs, c), [h EXCEPT ![c] = None], f,
                    IF p # None /\ p >= c THEN vs[c].prev ELSE p, b, c + 1, n)
<1> DEFINE ws == Drop(vs, c)
           k  == [h EXCEPT ![c] = None]
           q  == vs[c].prev
<1>0. /\ k \in Histories
      /\ k[c] = None
      /\ \A u \in Topos : u # c => k[u] = h[u]
      /\ DOMAIN ws = DOMAIN vs \ {c}
      /\ \A u \in DOMAIN ws : ws[u] = vs[u]
  BY DropShape, Zenon DEF Histories
<1>q. /\ q \in Links
      /\ q # None => q < c
  BY VersionMapShape, Zenon DEF Descending
<1> HIDE DEF ws, k, q
<1>1. VersionsOK(ws, k, f)
  BY <1>0, VersionMapShape, Zenon DEF Cleaning, VersionsOK
<1>2. WritesBelow(ws, k, n)
  BY <1>0, VersionMapShape, Zenon DEF Cleaning, WritesBelow, Topos
<1>3. \A u \in Topos : b <= u /\ u < c + 1 => k[u] = None
  BY <1>0, SMTT(60) DEF Cleaning, Topos
<1>4. \A s \in Links, m \in Nat : m <= b /\ LinkOK(h, f, s, m) => LinkOK(k, f, s, m)
  BY <1>0, NoneAssumption, SMTT(60) DEF LinkOK, IsLast, Links, Topos
<1>5. LinksOK(ws, k, f, b)
  <2> SUFFICES ASSUME NEW u \in DOMAIN ws, f <= u, u < b
               PROVE  /\ LinkOK(k, f, ws[u].prev, u)
                      /\ ws[u].prev # None => ws[u].prev \in DOMAIN ws
    BY Zenon DEF LinksOK
  <2>1. u \in DOMAIN vs /\ u \in Topos /\ u < c /\ ws[u] = vs[u] /\ vs[u].prev \in Links
    BY <1>0, VersionMapShape, SMTT(60) DEF Topos
  <2>2. /\ LinkOK(h, f, vs[u].prev, u)
        /\ vs[u].prev # None => vs[u].prev \in DOMAIN vs /\ vs[u].prev < u
    BY <2>1, Zenon DEF Cleaning, LinksOK, Descending
  <2>3. vs[u].prev # c
    BY <2>1, <2>2, NoneAssumption, SMTT(60) DEF Topos, Links
  <2> QED
    BY <1>0, <1>4, <2>1, <2>2, <2>3, SMTT(60) DEF Topos
<1>6. CASE HeadOK(vs, h, f, p, b)
  <2>1. p # None => p < b
    BY <1>6, NoneAssumption, SMTT(60) DEF HeadOK, LinkOK, IsLast, Topos, Links
  <2>2. HeadOK(ws, k, f, p, b)
    BY <1>0, <1>4, <1>6, <2>1, NoneAssumption, SMTT(60) DEF HeadOK, Topos, Links
  <2>3. ~(p # None /\ p >= c)
    BY <2>1, NoneAssumption, SMTT(60) DEF Topos, Links
  <2> QED
    BY <1>1, <1>2, <1>3, <1>5, <2>2, <2>3, Zenon DEF Cleaning, ws, k, q
<1>7. CASE HeadOK(vs, h, f, p, n) /\ LinksOK(vs, h, f, n)
  <2>1. h[c] # None
    BY SMTT(60) DEF Cleaning, VersionsOK, Topos
  <2>2. p # None /\ p >= c
    BY <1>7, <2>1, NoneAssumption, SMTT(60) DEF HeadOK, LinkOK, IsLast, Topos, Links
  <2>3. /\ LinkOK(h, f, q, c)
        /\ q # None => q \in DOMAIN vs
    BY <1>7, SMTT(60) DEF LinksOK, Topos, q
  <2>4. LinkOK(h, f, q, b)
    BY <1>q, <2>3, NoneAssumption, SMTT(60) DEF Cleaning, LinkOK, IsLast, Topos, Links
  <2>5. HeadOK(ws, k, f, q, b)
    BY <1>0, <1>q, <1>4, <2>3, <2>4, NoneAssumption, SMTT(60) DEF HeadOK, Topos, Links
  <2> QED
    BY <1>1, <1>2, <1>3, <1>5, <2>2, <2>5, Zenon DEF Cleaning, ws, k, q
<1> QED
  BY <1>6, <1>7, Zenon DEF Cleaning

\* A topoheight without a version changes nothing.
LEMMA CleanNone ==
    ASSUME NEW vs \in VersionMaps, NEW h \in Histories, NEW p \in Links,
           NEW f \in Nat, NEW b \in Nat, NEW c \in Topos, NEW n \in Nat,
           f <= b, b <= c, c \notin DOMAIN vs,
           Cleaning(vs, h, f, p, b, c, n)
    PROVE  Cleaning(vs, [h EXCEPT ![c] = None], f, p, b, c + 1, n)
<1>1. h[c] = None
  BY SMTT(60) DEF Cleaning, VersionsOK, Topos
<1>2. [h EXCEPT ![c] = None] = h
  BY <1>1, Zenon DEF Histories
<1>3. \A u \in Topos : b <= u /\ u < c + 1 => h[u] = None
  BY <1>1, SMTT(60) DEF Cleaning, Topos
<1> QED
  BY <1>2, <1>3, Zenon DEF Cleaning

\* When every block from b on is undone, the list is the one of the blocks
\* that stay.
LEMMA CleanAll ==
    ASSUME NEW vs \in VersionMaps, NEW h \in Histories, NEW p \in Links,
           NEW f \in Nat, NEW b \in Nat, NEW c \in Nat, NEW n \in Nat,
           f <= b, n <= c,
           Cleaning(vs, h, f, p, b, c, n)
    PROVE  Consistent(vs, h, f, p, b)
<1>1. \A u \in Topos : b <= u => h[u] = None
  BY SMTT(60) DEF Cleaning, WritesBelow, Topos
<1>2. WritesBelow(vs, h, b)
  BY <1>1, VersionMapShape, SMTT(60) DEF Cleaning, VersionsOK, WritesBelow, Topos
<1>3. ASSUME LinkOK(h, f, p, n)
      PROVE  LinkOK(h, f, p, b)
  BY <1>1, <1>3, NoneAssumption, SMTT(60) DEF Cleaning, WritesBelow, LinkOK, IsLast, Topos, Links
<1>4. HeadOK(vs, h, f, p, b)
  BY <1>3, Zenon DEF Cleaning, HeadOK
<1> QED
  BY <1>2, <1>4, Zenon DEF Cleaning, Consistent

\* Only one version from the floor on replaces one below it.
LEMMA OneCrossing ==
    ASSUME NEW vs \in VersionMaps, NEW h \in Histories, NEW p \in Links,
           NEW n \in Nat, NEW f \in Nat, Consistent(vs, h, f, p, n),
           NEW u \in DOMAIN vs, NEW w \in DOMAIN vs, f <= u, f <= w,
           vs[u].prev # None, vs[u].prev < f, vs[w].prev # None, vs[w].prev < f
    PROVE  u = w
<1>1. u \in Topos /\ w \in Topos /\ u < n /\ w < n /\ h[u] # None /\ h[w] # None
  BY VersionMapShape, Zenon DEF Consistent, WritesBelow, VersionsOK
<1>2. /\ \A x \in Topos : f <= x /\ x < u => h[x] = None
      /\ \A x \in Topos : f <= x /\ x < w => h[x] = None
  BY <1>1, VersionMapShape, NoneAssumption, SMTT(60) DEF Consistent, LinksOK, LinkOK, Topos, Links
<1> QED
  BY <1>1, <1>2, SMTT(60) DEF Topos

\* Ending the list at a version that replaces one below the floor.
LEMMA CutLink ==
    ASSUME NEW vs \in VersionMaps, NEW h \in Histories, NEW p \in Links,
           NEW n \in Nat, NEW f \in Nat, NEW c \in DOMAIN vs,
           vs[c].prev # None, vs[c].prev < f,
           Descending(vs), Consistent(vs, h, f, p, n)
    PROVE  LET ws == [vs EXCEPT ![c].prev = None]
           IN  /\ ws \in VersionMaps
               /\ Descending(ws)
               /\ Consistent(ws, h, f, p, n)
               /\ DOMAIN ws = DOMAIN vs
               /\ ws[c].prev = None
               /\ \A u \in DOMAIN vs : u # c => ws[u] = vs[u]
<1> DEFINE ws == [vs EXCEPT ![c].prev = None]
<1>1. /\ DOMAIN ws = DOMAIN vs
      /\ \A u \in DOMAIN vs : u # c => ws[u] = vs[u]
      /\ ws[c] = [vs[c] EXCEPT !.prev = None]
  BY VersionMapShape, Zenon
<1>2. ws[c].prev = None /\ ws[c].val = vs[c].val /\ ws[c] \in Version
  BY <1>1, VersionMapShape, SMTT(60) DEF Version
<1> HIDE DEF ws
<1>3. ws \in VersionMaps
  <2>1. ws = [u \in DOMAIN vs |-> ws[u]]
    BY Zenon DEF ws
  <2>2. \A u \in DOMAIN vs : ws[u] \in Version
    BY <1>1, <1>2, VersionMapShape, Zenon
  <2>3. ws \in [DOMAIN vs -> Version] /\ DOMAIN vs \in SUBSET Topos
    BY <2>1, <2>2, VersionMapShape, Zenon
  <2> QED
    BY <2>3, Zenon DEF VersionMaps
<1>4. Descending(ws)
  BY <1>1, <1>2, Zenon DEF Descending
<1>5. VersionsOK(ws, h, f)
  BY <1>1, <1>2, Zenon DEF Consistent, VersionsOK
<1>6. f <= c /\ c < n => LinkOK(h, f, None, c)
  BY VersionMapShape, NoneAssumption, SMTT(60) DEF Consistent, LinksOK, LinkOK, Topos, Links
<1>7. LinksOK(ws, h, f, n)
  BY <1>1, <1>2, <1>6, Zenon DEF Consistent, LinksOK
<1>8. HeadOK(ws, h, f, p, n) /\ WritesBelow(ws, h, n)
  BY <1>1, Zenon DEF Consistent, HeadOK, WritesBelow
<1>9. Consistent(ws, h, f, p, n)
  BY <1>5, <1>7, <1>8, Zenon DEF Consistent
<1> QED
  BY <1>1, <1>2, <1>3, <1>4, <1>9, Zenon DEF ws

\* Erasing a version below the floor that nothing links to.
LEMMA EraseOne ==
    ASSUME NEW vs \in VersionMaps, NEW h \in Histories, NEW p \in Links,
           NEW n \in Nat, NEW f \in Nat, NEW c \in Topos, c < f, p # c,
           \A u \in DOMAIN vs : f <= u => vs[u].prev # c,
           Consistent(vs, h, f, p, n)
    PROVE  Consistent(Drop(vs, c), h, f, p, n)
<1> DEFINE ws == Drop(vs, c)
<1>1. /\ DOMAIN ws = DOMAIN vs \ {c}
      /\ \A u \in DOMAIN ws : ws[u] = vs[u]
  BY DropShape, Zenon
<1> HIDE DEF ws
<1>2. VersionsOK(ws, h, f)
  BY <1>1, SMTT(60) DEF Consistent, VersionsOK, Topos
<1>3. LinksOK(ws, h, f, n)
  BY <1>1, Zenon DEF Consistent, LinksOK
<1>4. HeadOK(ws, h, f, p, n) /\ WritesBelow(ws, h, n)
  BY <1>1, Zenon DEF Consistent, HeadOK, WritesBelow
<1> QED
  BY <1>2, <1>3, <1>4, Zenon DEF Consistent, ws

---------------------------------------------------------------------------
(* Types, for every kind of data                                           *)

\* The cursor of the cleaning loop is a topoheight.
TypeInv == TypeOK /\ (pc = "clean" => cursor # None)

LEMMA DeleteAtType ==
    ASSUME NEW t, versions \in VersionMaps, pointer \in Links, DeleteAt(t)
    PROVE  versions' \in VersionMaps /\ pointer' \in Links
<1>1. CASE kind = "contract_balances" \/ t \notin DOMAIN versions
  BY <1>1, Zenon DEF DeleteAt
<1>2. CASE ~(kind = "contract_balances" \/ t \notin DOMAIN versions)
  <2>1. versions' = Drop(versions, t)
    BY <1>2, Zenon DEF DeleteAt, Without, Drop
  <2>2. pointer' = pointer \/ pointer' = versions[t].prev
    BY <1>2, Zenon DEF DeleteAt
  <2>3. versions' \in VersionMaps
    BY <2>1, DropShape, Zenon
  <2>4. versions[t].prev \in Links
    BY <1>2, VersionMapShape, Zenon
  <2> QED
    BY <2>2, <2>3, <2>4, Zenon
<1> QED
  BY <1>1, <1>2, Zenon

LEMMA PutType ==
    ASSUME NEW vs \in VersionMaps, NEW t \in Topos, NEW r \in Version
    PROVE  Put(vs, t, r) \in VersionMaps
<1>1. /\ Put(vs, t, r) \in [DOMAIN vs \cup {t} -> Version]
      /\ DOMAIN vs \cup {t} \in SUBSET Topos
  BY VersionMapShape, Zenon DEF Put
<1> QED
  BY <1>1, Zenon DEF VersionMaps

LEMMA CutType ==
    ASSUME NEW vs \in VersionMaps, NEW c \in DOMAIN vs
    PROVE  [vs EXCEPT ![c].prev = None] \in VersionMaps
<1> DEFINE ws == [vs EXCEPT ![c].prev = None]
<1>1. [vs[c] EXCEPT !.prev = None] \in Version
  BY VersionMapShape, SMTT(60) DEF Version
<1>2. ws \in [DOMAIN vs -> Version] /\ DOMAIN vs \in SUBSET Topos
  BY <1>1, VersionMapShape, Zenon
<1> QED
  BY <1>2, Zenon DEF VersionMaps

LEMMA InitType == Init => TypeInv
<1> SUFFICES ASSUME Init PROVE TypeInv
  BY Zenon
<1>1. versions \in [{} -> Version] /\ {} \in SUBSET Topos
  BY Zenon DEF Init
<1>2. versions \in VersionMaps
  BY <1>1, Zenon DEF VersionMaps
<1> QED
  BY <1>2, BoundAssumption, IsMap, SMTT(60) DEF Init, TypeInv, TypeOK, Topos

LEMMA NextType == TypeInv /\ [Next]_vars => TypeInv'
<1> SUFFICES ASSUME TypeInv, [Next]_vars PROVE TypeInv'
  BY Zenon
<1> USE BoundAssumption, NoneAssumption, IsMap
<1>t. /\ versions \in VersionMaps
      /\ pointer \in Links
      /\ \A t \in DOMAIN versions : t \in Topos /\ versions[t].prev \in Links
  BY VersionMapShape, Zenon DEF TypeInv, TypeOK, Links
<1>1. CASE UNCHANGED vars
  BY <1>1, Zenon DEF TypeInv, TypeOK, vars, disk, ghost, loop
<1>2. ASSUME NEW b \in Topos, AddBlock(b) PROVE TypeInv'
  BY <1>2, SMTT(60) DEF AddBlock, TypeInv, TypeOK, disk, ghost, Topos
<1>3. CASE CleanStep
  <2>1. versions' \in VersionMaps /\ pointer' \in Links
    BY <1>t, <1>3, DeleteAtType, Zenon DEF CleanStep
  <2>2. cursor \in Topos
    BY <1>3, SMTT(60) DEF CleanStep, TypeInv, TypeOK, Topos
  <2> QED
    BY <1>3, <2>1, <2>2, SMTT(60) DEF CleanStep, TypeInv, TypeOK, Topos, Links
<1>4. CASE CleanDone
  BY <1>4, Zenon DEF CleanDone, TypeInv, TypeOK, disk, ghost, loop
<1>5. CASE ExecuteUntouched
  BY <1>5, SMTT(60) DEF ExecuteUntouched, TypeInv, TypeOK, disk, ghost, loop
<1>6. ASSUME NEW v \in Values, NEW o \in BOOLEAN, ExecuteWrite(v, o) PROVE TypeInv'
  <2>1. next \in Topos /\ [prev |-> pointer, val |-> v, output |-> o] \in Version
    BY <1>t, <1>6, SMTT(60) DEF ExecuteWrite, TypeInv, TypeOK, Topos, Version, Links
  <2>2. versions' = Put(versions, next, [prev |-> pointer, val |-> v, output |-> o])
    BY <1>6, Zenon DEF ExecuteWrite, Put
  <2>3. versions' \in VersionMaps
    BY <1>t, <2>1, <2>2, PutType, Zenon
  <2> QED
    BY <1>6, <2>1, <2>3, SMTT(60) DEF ExecuteWrite, TypeInv, TypeOK, loop, Topos
<1>7. CASE Commit
  BY <1>7, Zenon DEF Commit, TypeInv, TypeOK, ghost, loop
<1>8. CASE Crash
  BY <1>8, SMTT(60) DEF Crash, TypeInv, TypeOK, disk, Topos
<1>9. CASE AboveStart
  <2>1. versions' = Drop(versions, pointer) /\ pointer \in Topos /\ cursor' \in Links
    BY <1>t, <1>9, Zenon DEF AboveStart, Without, Drop
  <2>2. versions' \in VersionMaps
    BY <1>t, <2>1, DropShape, Zenon
  <2> QED
    BY <1>9, <2>1, <2>2, SMTT(60) DEF AboveStart, TypeInv, TypeOK, Topos, Links
<1>10. CASE AboveNothing
  BY <1>10, SMTT(60) DEF AboveNothing, TypeInv, TypeOK, disk, ghost, loop, Topos
<1>11. CASE AboveStep
  <2>1. versions' = Drop(versions, cursor) /\ cursor \in Topos /\ cursor' \in Links
    BY <1>t, <1>11, Zenon DEF AboveStep, Without, Drop
  <2>2. versions' \in VersionMaps
    BY <1>t, <2>1, DropShape, Zenon
  <2> QED
    BY <1>11, <2>1, <2>2, SMTT(60) DEF AboveStep, TypeInv, TypeOK, Topos, Links
<1>12. CASE AboveDone
  <2>1. cursor \in Links
    BY <1>12, SMTT(60) DEF AboveDone, TypeInv, TypeOK, Topos, Links
  <2> QED
    BY <1>12, <2>1, SMTT(60) DEF AboveDone, TypeInv, TypeOK, ghost, loop, Topos, Links
<1>13. CASE PopBlock
  <2>1. versions' \in VersionMaps /\ pointer' \in Links
    BY <1>t, <1>13, DeleteAtType, Zenon DEF PopBlock
  <2> QED
    BY <1>13, <2>1, SMTT(60) DEF PopBlock, TypeInv, TypeOK, loop, Topos, Links
<1>14. ASSUME NEW p \in Topos, Prune(p) PROVE TypeInv'
  <2>1. cursor' \in Links /\ patched' \in BOOLEAN
    BY <1>t, <1>14, Zenon DEF Prune, Loadable, Links
  <2> QED
    BY <1>14, <2>1, SMTT(60) DEF Prune, TypeInv, TypeOK, disk, ghost, Topos, Links
<1>15. CASE BelowErase
  <2>1. versions' = Drop(versions, cursor) /\ cursor' \in {0, None}
    BY <1>15, Zenon DEF BelowErase, Without, Drop, DecodedU64
  <2>2. versions' \in VersionMaps
    BY <1>t, <2>1, DropShape, Zenon
  <2> QED
    BY <1>15, <2>1, <2>2, SMTT(60) DEF BelowErase, TypeInv, TypeOK, ghost, Topos
<1>16. CASE BelowPatch
  <2>1. cursor' \in Links /\ patched' \in BOOLEAN
    BY <1>t, <1>16, Zenon DEF BelowPatch
  <2>2. versions' = versions \/ versions' = [versions EXCEPT ![cursor].prev = None]
    BY <1>16, Zenon DEF BelowPatch
  <2>3. versions' \in VersionMaps
    BY <1>t, <1>16, <2>2, CutType, Zenon DEF BelowPatch
  <2> QED
    BY <1>16, <2>1, <2>3, SMTT(60) DEF BelowPatch, TypeInv, TypeOK, ghost, Topos, Links
<1>17. CASE BelowBalances
  <2>1. cursor' \in Links /\ patched' \in BOOLEAN
    BY <1>t, <1>17, VersionMapShape, Zenon DEF BelowBalances, Version
  <2> QED
    BY <1>17, <2>1, SMTT(60) DEF BelowBalances, TypeInv, TypeOK, disk, ghost, Topos, Links
<1>18. CASE BelowDone
  BY <1>18, Zenon DEF BelowDone, TypeInv, TypeOK, ghost, loop
<1> QED
  BY <1>1, <1>2, <1>3, <1>4, <1>5, <1>6, <1>7, <1>8, <1>9, <1>10, <1>11, <1>12,
     <1>13, <1>14, <1>15, <1>16, <1>17, <1>18, Zenon DEF Next, Step

\* The state of every kind of versioned tree keeps its type through adding
\* blocks, rewinding, pruning and restarting, whatever the bounds are.
THEOREM TypeCorrect == Spec => []TypeOK
<1>1. TypeInv => TypeOK
  BY Zenon DEF TypeInv
<1> QED
  BY <1>1, InitType, NextType, PTL DEF Spec

---------------------------------------------------------------------------
(* The list of versions agrees with the history                            *)

Typing ==
    /\ versions \in VersionMaps /\ pointer \in Links /\ hist \in Histories
    /\ pruned \in Topos /\ pruned \in Nat /\ limit \in Topos /\ limit \in Nat
    /\ next \in Nat /\ stored \in Nat /\ base \in Nat
    /\ next <= MaxTopo + 1 /\ stored <= MaxTopo + 1
    /\ cursor # None => cursor \in Nat
    /\ DOMAIN versions \subseteq Topos
    /\ \A t \in DOMAIN versions : versions[t].prev \in Links

LEMMA Typed == TypeOK => Typing
  BY VersionMapShape, BoundAssumption, IsMap, SMTT(60) DEF TypeOK, Typing, Links, Histories, Topos

\* Undoing one topoheight in the generic trees.
LEMMA DeleteAtTree ==
    ASSUME kind = "tree", NEW t, DeleteAt(t)
    PROVE  IF t \in DOMAIN versions
           THEN /\ versions' = Drop(versions, t)
                /\ pointer' = IF pointer # None /\ pointer >= t
                              THEN versions[t].prev ELSE pointer
           ELSE versions' = versions /\ pointer' = pointer
  BY Zenon DEF DeleteAt, Without, Drop

LEMMA AddBlockTree ==
    ASSUME TreeInv, TypeOK', NEW b \in Topos, AddBlock(b)
    PROVE  TreeInv'
<1>t. Typing
  BY Typed, Zenon DEF TreeInv
<1>1. /\ pc = "idle" /\ ~torn /\ b <= next
      /\ pc' = "clean" /\ base' = b /\ cursor' = b /\ next' = b
      /\ UNCHANGED <<versions, pointer, pruned, stored, hist, torn>>
  BY Zenon DEF AddBlock, disk, ghost
<1>2. next <= stored /\ Consistent(versions, hist, pruned, pointer, next)
  BY <1>t, <1>1, Zenon DEF CutShort, Typing, TreeInv
<1>3. Consistent(versions, hist, pruned, pointer, stored)
  BY <1>t, <1>2, Extend, Zenon DEF Typing
<1>4. Cleaning(versions, hist, pruned, pointer, b, b, stored)
  <2>1. \A u \in Topos : b <= u /\ u < b => hist[u] = None
    BY SMTT(60) DEF Topos
  <2>2. LinksOK(versions, hist, pruned, b)
    BY <1>t, <1>1, <1>2, SMTT(60) DEF Consistent, LinksOK, Topos, Typing
  <2> QED
    BY <1>3, <2>1, <2>2, Zenon DEF Consistent, Cleaning
<1>5. CleanInv'
  BY <1>t, <1>1, <1>2, <1>4, NoneAssumption, SMTT(60) DEF CleanInv, Topos, Typing
<1>6. pruned = 0 \/ pruned < b
  BY SMTT(60) DEF AddBlock, Topos
<1> QED
  BY <1>t, <1>1, <1>5, <1>6, Zenon DEF Typing, TreeInv

LEMMA CleanStepTree ==
    ASSUME kind = "tree", TreeInv, TypeOK', CleanStep
    PROVE  TreeInv'
<1>t. Typing
  BY Typed, Zenon DEF TreeInv
<1>1. /\ pc = "clean" /\ pc' = "clean" /\ cursor < stored /\ DeleteAt(cursor)
      /\ hist' = [hist EXCEPT ![cursor] = None]
      /\ cursor' = cursor + 1
      /\ UNCHANGED <<pruned, stored, next, torn, base>>
  BY Zenon DEF CleanStep
<1>2. CleanInv /\ cursor # None /\ ~torn
  BY <1>t, <1>1, Zenon DEF CleanInv, Typing, TreeInv
<1>c. cursor \in Nat
  BY <1>t, <1>2, Zenon DEF Typing
<1>d. cursor \in Topos
  BY <1>t, <1>1, <1>c, BoundAssumption, SMTT(60) DEF Topos, Typing
<1>e. pruned <= base /\ base <= cursor /\ Cleaning(versions, hist, pruned, pointer, base, cursor, stored)
  BY <1>t, <1>2, <1>c, SMTT(60) DEF CleanInv, Typing, TreeInv
<1>3. Cleaning(versions', hist', pruned, pointer', base, cursor + 1, stored)
  <2>1. CASE cursor \in DOMAIN versions
    <3>1. /\ versions' = Drop(versions, cursor)
          /\ pointer' = IF pointer # None /\ pointer >= cursor
                        THEN versions[cursor].prev ELSE pointer
      BY <1>1, <2>1, DeleteAtTree, Zenon
    <3> QED
      BY <1>t, <1>1, <1>d, <1>e, <2>1, <3>1, CleanOne, Zenon DEF Typing, TreeInv
  <2>2. CASE cursor \notin DOMAIN versions
    BY <1>t, <1>1, <1>d, <1>e, <2>2, DeleteAtTree, CleanNone, Zenon DEF Typing
  <2> QED
    BY <2>1, <2>2, Zenon
<1>4. Descending(versions')
  BY <1>t, <1>1, DeleteAtTree, DropShape, Zenon DEF Typing, TreeInv
<1>5. CleanInv'
  BY <1>t, <1>1, <1>2, <1>c, <1>3, NoneAssumption, SMTT(60) DEF CleanInv, Typing
<1> QED
  BY <1>t, <1>1, <1>4, <1>5, Zenon DEF Typing, TreeInv

LEMMA CleanDoneTree ==
    ASSUME TreeInv, TypeOK', CleanDone
    PROVE  TreeInv'
<1>t. Typing
  BY Typed, Zenon DEF TreeInv
<1>1. /\ pc = "clean" /\ pc' = "exec" /\ stored <= cursor
      /\ UNCHANGED <<versions, pointer, pruned, stored, next, hist, torn, base, cursor>>
  BY Zenon DEF CleanDone, disk, ghost, loop
<1>2. Consistent(versions, hist, pruned, pointer, next)
  BY <1>t, <1>1, CleanAll, SMTT(60) DEF CleanInv, Typing, TreeInv
<1> QED
  BY <1>t, <1>1, <1>2, SMTT(60) DEF CleanInv, Typing, TreeInv

LEMMA ExecuteUntouchedTree ==
    ASSUME TreeInv, TypeOK', ExecuteUntouched
    PROVE  TreeInv'
<1>t. Typing
  BY Typed, Zenon DEF TreeInv
<1>1. /\ pc = "exec" /\ pc' = "exec" /\ next' = next + 1
      /\ UNCHANGED <<versions, pointer, pruned, stored, hist, torn, base, cursor>>
  BY Zenon DEF ExecuteUntouched, disk, ghost, loop
<1>2. Consistent(versions, hist, pruned, pointer, next + 1)
  BY <1>t, <1>1, Extend, SMTT(60) DEF Typing, TreeInv
<1> QED
  BY <1>t, <1>1, <1>2, SMTT(60) DEF Typing, TreeInv

LEMMA ExecuteWriteTree ==
    ASSUME TreeInv, TypeOK', NEW v \in Values, NEW o \in BOOLEAN, ExecuteWrite(v, o)
    PROVE  TreeInv'
<1>t. Typing
  BY Typed, Zenon DEF TreeInv
<1>1. /\ pc = "exec" /\ pc' = "exec" /\ next \in Topos /\ next' = next + 1
      /\ pointer' = next /\ hist' = [hist EXCEPT ![next] = v]
      /\ UNCHANGED <<pruned, stored, torn, base, cursor>>
  BY <1>t, SMTT(60) DEF ExecuteWrite, loop, Topos, Typing
<1>2. versions' = Put(versions, next, [prev |-> pointer, val |-> v, output |-> o])
  BY Zenon DEF ExecuteWrite, Put
<1>3. pruned <= next
  BY <1>t, <1>1, SMTT(60) DEF Typing, TreeInv
<1>4. /\ Descending(versions')
      /\ Consistent(versions', hist', pruned, next, next + 1)
  BY <1>t, <1>1, <1>2, <1>3, WriteOnTop, Zenon DEF Typing, TreeInv
<1> QED
  BY <1>t, <1>1, <1>4, SMTT(60) DEF Typing, TreeInv

LEMMA CommitTree ==
    ASSUME TreeInv, TypeOK', Commit
    PROVE  TreeInv'
<1>t. Typing
  BY Typed, Zenon DEF TreeInv
<1>1. /\ pc = "exec" /\ pc' = "idle"
      /\ stored' = IF next > stored THEN next ELSE stored
      /\ UNCHANGED <<versions, pointer, pruned, next, hist, torn, base, cursor>>
  BY Zenon DEF Commit, ghost, loop
<1> QED
  BY <1>t, <1>1, SMTT(60) DEF Typing, TreeInv

LEMMA CrashTree ==
    ASSUME TreeInv, TypeOK', Crash
    PROVE  TreeInv'
<1>t. Typing
  BY Typed, Zenon DEF TreeInv
<1>1. /\ pc \in {"clean", "exec"} /\ pc' = "above" /\ stored > 0
      /\ torn' = (base < stored) /\ limit' = stored - 1
      /\ UNCHANGED <<versions, pointer, pruned, stored, next, hist, base, cursor>>
  BY Zenon DEF Crash, disk
<1>2. torn' <=> base < stored
  BY <1>1, Zenon
<1>3. CASE pc = "exec"
  <2>1. /\ base <= next
        /\ Consistent(versions, hist, pruned, pointer, next)
        /\ pruned = 0 \/ pruned < next
    BY <1>t, <1>3, Zenon DEF Typing, TreeInv
  <2> QED
    BY <1>t, <1>1, <1>2, <2>1, SMTT(60) DEF Typing, TreeInv
<1>4. CASE pc = "clean"
  <2>1. /\ base = next /\ cursor \in Nat /\ next <= cursor /\ cursor <= stored
        /\ Cleaning(versions, hist, pruned, pointer, base, cursor, stored)
        /\ pruned = 0 \/ pruned < next
    BY <1>t, <1>4, Zenon DEF CleanInv, Typing, TreeInv
  <2>2. CASE base < stored
    <3>1. pointer # None => pointer < stored
      BY <2>1, <2>2, Zenon DEF Cleaning, HeadOK, WritesBelow
    <3>2. CutShort'
      BY <1>1, <1>2, <2>1, <2>2, <3>1, Zenon DEF CutShort, Cleaning
    <3> QED
      BY <1>t, <1>1, <1>2, <2>2, <3>2, Zenon DEF Typing, TreeInv
  <2>3. CASE base >= stored
    <3>1. Consistent(versions, hist, pruned, pointer, next)
      BY <1>t, <2>1, <2>3, CleanAll, SMTT(60) DEF Typing
    <3> QED
      BY <1>t, <1>1, <1>2, <2>1, <2>3, <3>1, Zenon DEF Typing, TreeInv
  <2> QED
    BY <1>t, <2>2, <2>3, SMTT(60) DEF Typing
<1> QED
  BY <1>1, <1>3, <1>4, Zenon

LEMMA AboveStartTree ==
    ASSUME TreeInv, TypeOK', AboveStart
    PROVE  TreeInv'
<1>t. Typing
  BY Typed, Zenon DEF TreeInv
<1>1. /\ pc = "above" /\ pc' = "above_walk" /\ pointer # None /\ pointer > limit
      /\ versions' = Drop(versions, pointer)
      /\ hist' = [hist EXCEPT ![pointer] = None]
      /\ cursor' = versions[pointer].prev
      /\ pointer \in DOMAIN versions
      /\ UNCHANGED <<pointer, pruned, stored, next, torn, limit>>
  BY Zenon DEF AboveStart, Without, Drop
<1>2. /\ pointer \in Topos /\ pruned <= pointer
      /\ Consistent(versions, hist, pruned, pointer, next) /\ (~torn => next >= stored)
  BY <1>t, <1>1, SMTT(60) DEF CutShort, Topos, Typing, TreeInv
<1>3. Consistent(versions', hist', pruned, cursor', next)
  BY <1>t, <1>1, <1>2, DropHead, Zenon DEF Typing, TreeInv
<1>4. Descending(versions') /\ cursor' \in Links
  BY <1>t, <1>1, DropShape, Zenon DEF Typing, TreeInv
<1> QED
  BY <1>t, <1>1, <1>2, <1>3, <1>4, Zenon DEF Links, Typing, TreeInv

LEMMA AboveStepTree ==
    ASSUME TreeInv, TypeOK', AboveStep
    PROVE  TreeInv'
<1>t. Typing
  BY Typed, Zenon DEF TreeInv
<1>1. /\ pc = "above_walk" /\ pc' = "above_walk" /\ cursor # None /\ cursor > limit
      /\ versions' = Drop(versions, cursor)
      /\ hist' = [hist EXCEPT ![cursor] = None]
      /\ cursor' = versions[cursor].prev
      /\ cursor \in DOMAIN versions
      /\ UNCHANGED <<pointer, pruned, stored, next, torn, limit>>
  BY Zenon DEF AboveStep, Without, Drop
<1>2. /\ cursor \in Topos /\ pruned <= cursor
      /\ Consistent(versions, hist, pruned, cursor, next) /\ (~torn => next >= stored)
  BY <1>t, <1>1, SMTT(60) DEF Topos, Typing, TreeInv
<1>3. Consistent(versions', hist', pruned, cursor', next)
  BY <1>t, <1>1, <1>2, DropHead, Zenon DEF Typing, TreeInv
<1>4. Descending(versions') /\ cursor' \in Links
  BY <1>t, <1>1, DropShape, Zenon DEF Typing, TreeInv
<1> QED
  BY <1>t, <1>1, <1>2, <1>3, <1>4, Zenon DEF Links, Typing, TreeInv

LEMMA AboveNothingTree ==
    ASSUME TreeInv, TypeOK', AboveNothing
    PROVE  TreeInv'
<1>t. Typing
  BY Typed, Zenon DEF TreeInv
<1>1. /\ pc = "above" /\ pc' = "idle" /\ ~(pointer # None /\ pointer > limit)
      /\ next' = limit + 1
      /\ UNCHANGED <<versions, pointer, pruned, stored, hist, torn, limit>>
  BY Zenon DEF AboveNothing, disk, ghost, loop
<1>2. next' = stored /\ pruned <= stored /\ (pruned = 0 \/ pruned < stored)
  BY <1>t, <1>1, SMTT(60) DEF Typing, TreeInv
<1>3. CASE Consistent(versions, hist, pruned, pointer, next)
  <2>1. pointer # None => pointer < stored
    BY <1>t, <1>1, SMTT(60) DEF Topos, Links, Typing, TreeInv
  <2>2. Consistent(versions, hist, pruned, pointer, stored)
    BY <1>t, <1>2, <1>3, <2>1, Shrink, Zenon DEF Typing
  <2> QED
    BY <1>t, <1>1, <1>2, <2>2, SMTT(60) DEF Typing, TreeInv
<1>4. CASE CutShort
  BY <1>t, <1>1, <1>2, <1>4, Zenon DEF CutShort, Typing, TreeInv
<1> QED
  BY <1>t, <1>1, <1>3, <1>4, Zenon DEF Typing, TreeInv

LEMMA AboveDoneTree ==
    ASSUME TreeInv, TypeOK', AboveDone
    PROVE  TreeInv'
<1>t. Typing
  BY Typed, Zenon DEF TreeInv
<1>1. /\ pc = "above_walk" /\ pc' = "idle" /\ ~(cursor # None /\ cursor > limit)
      /\ pointer' = cursor /\ next' = limit + 1
      /\ UNCHANGED <<versions, pruned, stored, hist, torn, limit>>
  BY Zenon DEF AboveDone, ghost, loop
<1>2. next' = stored /\ pruned <= stored /\ (pruned = 0 \/ pruned < stored)
  BY <1>t, <1>1, SMTT(60) DEF Typing, TreeInv
<1>3. cursor \in Links /\ (cursor # None => cursor < stored)
  BY <1>t, <1>1, SMTT(60) DEF Topos, Links, Typing, TreeInv
<1>4. Consistent(versions, hist, pruned, cursor, stored)
  BY <1>t, <1>1, <1>2, <1>3, Shrink, Zenon DEF Typing, TreeInv
<1> QED
  BY <1>t, <1>1, <1>2, <1>4, SMTT(60) DEF Typing, TreeInv

LEMMA PopBlockTree ==
    ASSUME kind = "tree", TreeInv, TypeOK', PopBlock
    PROVE  TreeInv'
<1> DEFINE t == stored - 1
<1>t. Typing
  BY Typed, Zenon DEF TreeInv
<1>0. t > pruned /\ t \in Topos
  BY <1>t, BoundAssumption, SMTT(60) DEF PopBlock, Topos, Typing
<1>1. /\ pc = "idle" /\ pc' = "idle" /\ ~torn /\ t > pruned /\ t \in Topos
      /\ DeleteAt(t)
      /\ hist' = [hist EXCEPT ![t] = None]
      /\ stored' = t
      /\ next' = IF next > t THEN t ELSE next
      /\ UNCHANGED <<pruned, torn, cursor, limit>>
  BY <1>0, Zenon DEF PopBlock, loop
<1> HIDE DEF t
<1>2. /\ next <= stored /\ next <= t + 1
      /\ Consistent(versions, hist, pruned, pointer, next)
  BY <1>t, <1>1, SMTT(60) DEF CutShort, t, Typing, TreeInv
<1>3. /\ t \in DOMAIN versions <=> hist[t] # None
      /\ \A u \in DOMAIN versions : u < next
      /\ pointer # None => pointer \in DOMAIN versions
  BY <1>t, <1>1, <1>2, SMTT(20) DEF Consistent, VersionsOK, WritesBelow, HeadOK, Topos, Typing
<1>4. CASE t \notin DOMAIN versions
  <2>1. versions' = versions /\ pointer' = pointer
    BY <1>1, <1>4, DeleteAtTree, Zenon
  <2>2. hist' = hist
    BY <1>t, <1>1, <1>3, <1>4, Zenon DEF Histories, Typing
  <2>3. Consistent(versions, hist, pruned, pointer, next')
    <3>1. CASE next <= t
      BY <1>t, <1>1, <1>2, <3>1, SMTT(60) DEF Topos, Typing
    <3>2. CASE next > t
      <4>1. pointer # None => pointer < t
        BY <1>t, <1>1, <1>2, <1>3, <1>4, <3>2, SMTT(60) DEF Topos, Links, Typing
      <4>2. Consistent(versions, hist, pruned, pointer, t)
        BY <1>t, <1>1, <1>2, <4>1, Shrink, SMTT(60) DEF Topos, Typing
      <4> QED
        BY <1>1, <3>2, <4>2, Zenon
    <3> QED
      BY <1>1, <3>1, <3>2, SMTT(60) DEF Topos
  <2> QED
    BY <1>t, <1>1, <1>2, <2>1, <2>2, <2>3, SMTT(60) DEF Topos, Typing, TreeInv
<1>5. CASE t \in DOMAIN versions
  <2>1. next = t + 1 /\ next > t
    BY <1>t, <1>1, <1>2, <1>3, <1>5, SMTT(20) DEF Topos, Typing
  <2>2. pointer = t
    BY <1>t, <1>1, <1>2, <1>3, <1>5, <2>1, NoneAssumption, SMTT(60) DEF Consistent, HeadOK, LinkOK, IsLast, Topos, Links, Typing
  <2>3. versions' = Drop(versions, t) /\ pointer' = versions[t].prev
    BY <1>1, <1>5, <2>2, NoneAssumption, DeleteAtTree, SMTT(60) DEF Topos
  <2>4. Consistent(versions', hist', pruned, pointer', next)
    <3>1. pruned <= t /\ Consistent(versions, hist, pruned, t, next)
      BY <1>t, <1>1, <1>2, <2>2, SMTT(60) DEF Topos, Typing
    <3>2. Consistent(Drop(versions, t), [hist EXCEPT ![t] = None], pruned, versions[t].prev, next)
      BY <1>t, <1>1, <3>1, DropHead, Zenon DEF Typing, TreeInv
    <3> QED
      BY <1>1, <2>3, <3>2, Zenon
  <2>5. /\ versions' \in VersionMaps /\ pointer' \in Links /\ hist' \in Histories
        /\ Descending(versions')
        /\ pointer' # None => pointer' < t
    BY <1>t, <1>1, <1>5, <2>3, DropShape, Zenon DEF Descending, Histories, Typing, TreeInv
  <2>6. Consistent(versions', hist', pruned, pointer', t)
    BY <1>t, <1>1, <2>4, <2>5, Shrink, SMTT(60) DEF Topos, Typing
  <2> QED
    BY <1>t, <1>1, <1>2, <2>1, <2>5, <2>6, SMTT(60) DEF Topos, Typing, TreeInv
<1> QED
  BY <1>4, <1>5, Zenon

LEMMA PruneTree ==
    ASSUME kind = "tree", TreeInv, TypeOK', NEW p \in Topos, Prune(p)
    PROVE  TreeInv'
<1>t. Typing
  BY Typed, Zenon DEF TreeInv
<1>1. /\ pc = "idle" /\ pc' = "below" /\ ~torn /\ p > pruned /\ p < next /\ limit' = p
      /\ UNCHANGED <<versions, pointer, pruned, stored, next, hist, torn>>
  BY Zenon DEF Prune, disk, ghost
<1>2. next <= stored /\ Consistent(versions, hist, pruned, pointer, next)
  BY <1>t, <1>1, Zenon DEF CutShort, Typing, TreeInv
<1>3. Consistent(versions, hist, p, pointer, next)
  BY <1>t, <1>1, <1>2, RaiseFloor, SMTT(20) DEF Topos, Typing
<1>4. CASE pointer = None
  <2>1. cursor' = None /\ ~patched'
    BY <1>4, Zenon DEF Prune
  <2> QED
    BY <1>t, <1>1, <1>2, <1>3, <1>4, <2>1, Zenon DEF BelowInv, Typing, TreeInv
<1>5. CASE pointer # None
  <2>1. /\ pointer \in DOMAIN versions /\ pointer \in Topos
        /\ cursor' = versions[pointer].prev
        /\ patched' <=> pointer < p
        /\ cursor' \in Links
        /\ cursor' # None => cursor' < pointer
    BY <1>t, <1>5, Zenon DEF Prune, Loadable, Descending, Typing, TreeInv
  <2>2. CASE pointer < p
    <3>1. \A u \in DOMAIN versions : u < p
      BY <1>t, <1>3, <1>5, <2>1, <2>2, NoneAssumption, SMTT(60) DEF Consistent, HeadOK, LinkOK, VersionsOK, WritesBelow, Topos, Typing
    <3>2. \A u \in DOMAIN versions : ~(p <= u)
      BY <1>t, <3>1, SMTT(60) DEF Topos, Typing
    <3>3. cursor' # None => cursor' < p
      BY <2>1, <2>2, SMTT(60) DEF Topos, Links
    <3>4. BelowInv'
      BY <1>1, <1>2, <1>3, <1>5, <2>1, <2>2, <3>2, <3>3, Zenon DEF BelowInv
    <3> QED
      BY <1>t, <1>1, <2>1, <3>4, Zenon DEF Links, Typing, TreeInv
  <2>3. CASE ~(pointer < p)
    <3>1. p <= pointer
      BY <2>1, <2>3, SMTT(60) DEF Topos
    <3>2. BelowInv'
      BY <1>1, <1>2, <1>3, <2>1, <2>3, <3>1, SMTT(20) DEF BelowInv
    <3> QED
      BY <1>t, <1>1, <2>1, <3>2, Zenon DEF Links, Typing, TreeInv
  <2> QED
    BY <2>2, <2>3, Zenon
<1> QED
  BY <1>4, <1>5, Zenon

LEMMA BelowEraseTree ==
    ASSUME TreeInv, TypeOK', BelowErase
    PROVE  TreeInv'
<1>t. Typing
  BY Typed, Zenon DEF TreeInv
<1>1. /\ pc = "below" /\ pc' = "below" /\ cursor # None /\ patched /\ patched'
      /\ versions' = Drop(versions, cursor)
      /\ cursor' \in {0, None}
      /\ UNCHANGED <<pointer, pruned, stored, next, hist, torn, limit>>
  BY Zenon DEF BelowErase, Without, Drop, DecodedU64, ghost
<1>2. /\ BelowInv /\ cursor \in Topos
      /\ cursor < limit /\ pointer # None /\ cursor < pointer /\ pointer \in Topos
      /\ \A u \in DOMAIN versions : limit <= u =>
            versions[u].prev = None \/ cursor < versions[u].prev
  BY <1>t, <1>1, Zenon DEF BelowInv, Links, Typing, TreeInv
<1>3. \A u \in DOMAIN versions : limit <= u => versions[u].prev # cursor
  BY <1>2, NoneAssumption, SMTT(60) DEF Topos, Links
<1>4. Consistent(versions', hist, limit, pointer, next)
  BY <1>t, <1>1, <1>2, <1>3, EraseOne, SMTT(60) DEF BelowInv, Topos, Typing
<1>5. /\ Descending(versions')
      /\ DOMAIN versions' = DOMAIN versions \ {cursor}
      /\ \A u \in DOMAIN versions' : versions'[u] = versions[u]
  BY <1>t, <1>1, DropShape, Zenon DEF Typing, TreeInv
<1>6. 0 < limit /\ 0 < pointer /\ 0 \in Topos
  BY <1>t, <1>2, BoundAssumption, SMTT(60) DEF Topos, Typing
<1>7. \A u \in DOMAIN versions' : limit <= u =>
         versions'[u].prev = None \/ 0 < versions'[u].prev
  BY <1>t, <1>2, <1>5, SMTT(60) DEF Topos, Links, Typing
<1>8. BelowInv'
  BY <1>1, <1>2, <1>4, <1>6, <1>7, Zenon DEF BelowInv
<1> QED
  BY <1>t, <1>1, <1>5, <1>6, <1>8, Zenon DEF Typing, TreeInv

LEMMA BelowPatchTree ==
    ASSUME TreeInv, TypeOK', BelowPatch
    PROVE  TreeInv'
<1> DEFINE prev == versions[cursor].prev
           cut  == prev # None /\ prev < limit
<1>t. Typing
  BY Typed, Zenon DEF TreeInv
<1>1. /\ pc = "below" /\ pc' = "below" /\ cursor # None /\ ~patched
      /\ cursor \in DOMAIN versions
      /\ cursor' = prev
      /\ patched' <=> cut
      /\ versions' = IF cut THEN [versions EXCEPT ![cursor].prev = None] ELSE versions
      /\ UNCHANGED <<pointer, pruned, stored, next, hist, torn, limit>>
  BY Zenon DEF BelowPatch, ghost
<1>2. /\ pruned < limit /\ limit < next /\ next <= stored
      /\ Consistent(versions, hist, limit, pointer, next)
      /\ pointer # None => limit <= pointer
  BY <1>t, <1>1, Zenon DEF BelowInv, Typing, TreeInv
<1>3. PICK w \in DOMAIN versions : limit <= w /\ versions[w].prev = cursor
  BY <1>t, <1>1, Zenon DEF BelowInv, Typing, TreeInv
<1>4. /\ cursor \in Topos /\ prev \in Links /\ w \in Topos
      /\ prev # None => prev < cursor
  BY <1>t, <1>1, Zenon DEF Descending, Typing, TreeInv
<1>5. CASE cut
  <2>1. /\ Descending(versions')
        /\ Consistent(versions', hist, limit, pointer, next)
        /\ DOMAIN versions' = DOMAIN versions
        /\ versions'[cursor].prev = None
        /\ \A u \in DOMAIN versions : u # cursor => versions'[u] = versions[u]
    BY <1>t, <1>1, <1>2, <1>5, CutLink, Zenon DEF Typing, TreeInv
  <2>2. pointer # None
    BY <1>2, <1>3, <1>4, NoneAssumption, Zenon
    DEF Consistent, VersionsOK, HeadOK, LinkOK, IsLast, WritesBelow
  <2>3. prev < limit /\ prev < pointer
    BY <1>t, <1>2, <1>4, <1>5, <2>2, SMTT(60) DEF Topos, Links, Typing
  <2>4. ASSUME NEW u \in DOMAIN versions', limit <= u
        PROVE  versions'[u].prev = None \/ prev < versions'[u].prev
    <3>1. CASE u = cursor
      BY <2>1, <3>1, Zenon
    <3>2. CASE u # cursor /\ versions[u].prev # None /\ versions[u].prev < limit
      <4>1. CASE limit <= cursor
        <5>1. u \in DOMAIN versions /\ u = cursor
          BY <1>t, <1>1, <1>2, <1>5, <2>1, <2>4, <3>2, <4>1, OneCrossing, SMTT(60) DEF Typing
        <5> QED
          BY <3>2, <5>1, Zenon
      <4>2. CASE ~(limit <= cursor)
        <5>1. cursor < limit
          BY <1>t, <1>4, <4>2, SMTT(60) DEF Topos, Typing
        <5>2. u = w
          BY <1>t, <1>1, <1>2, <1>3, <2>1, <2>4, <3>2, <5>1, OneCrossing, SMTT(60) DEF Typing
        <5> QED
          BY <1>3, <1>4, <1>5, <2>1, <3>2, <5>2, Zenon
      <4> QED
        BY <4>1, <4>2, Zenon
    <3>3. CASE u # cursor /\ ~(versions[u].prev # None /\ versions[u].prev < limit)
      <4>1. versions'[u] = versions[u] /\ versions[u].prev \in Links
        BY <1>t, <2>1, <2>4, <3>3, Zenon DEF Typing
      <4>2. prev \in Int /\ limit \in Int
        BY <1>t, <1>4, <1>5, SMTT(60) DEF Topos, Links, Typing
      <4>3. CASE versions[u].prev # None
        <5>1. versions[u].prev \in Int /\ ~(versions[u].prev < limit)
          BY <3>3, <4>1, <4>3, SMTT(60) DEF Topos, Links
        <5> HIDE DEF prev
        <5> QED
          BY <2>3, <4>1, <4>2, <5>1, SMTT(60)
      <4> QED
        BY <4>1, <4>3, Zenon
    <3> QED
      BY <3>1, <3>2, <3>3, Zenon
  <2>5. BelowInv'
    BY <1>1, <1>2, <1>5, <2>1, <2>2, <2>3, <2>4, Zenon DEF BelowInv
  <2> QED
    BY <1>t, <1>1, <1>4, <2>1, <2>5, Zenon DEF Links, Typing, TreeInv
<1>6. CASE ~cut
  <2>1. prev # None => limit <= cursor
    BY <1>t, <1>4, <1>6, SMTT(60) DEF Topos, Links, Typing
  <2>2. BelowInv'
    BY <1>1, <1>2, <1>6, <2>1, Zenon DEF BelowInv
  <2> QED
    BY <1>t, <1>1, <1>4, <1>6, <2>2, Zenon DEF Links, Typing, TreeInv
<1> QED
  BY <1>5, <1>6, Zenon

LEMMA BelowDoneTree ==
    ASSUME TreeInv, TypeOK', BelowDone
    PROVE  TreeInv'
<1>t. Typing
  BY Typed, Zenon DEF TreeInv
<1>1. /\ pc = "below" /\ pc' = "idle" /\ pruned' = limit
      /\ UNCHANGED <<versions, pointer, stored, next, hist, torn, cursor, limit>>
  BY Zenon DEF BelowDone, ghost, loop
<1>2. /\ limit < next /\ next <= stored
      /\ Consistent(versions, hist, limit, pointer, next)
  BY <1>t, <1>1, Zenon DEF BelowInv, Typing, TreeInv
<1> QED
  BY <1>t, <1>1, <1>2, SMTT(60) DEF Typing, TreeInv

LEMMA InitTree == Init => TreeInv
<1> SUFFICES ASSUME Init PROVE TreeInv
  BY Zenon
<1>1. TypeOK
  BY InitType, Zenon DEF TypeInv
<1>2. /\ DOMAIN versions = {} /\ pointer = None /\ pruned = 0 /\ stored = 0 /\ next = 0
      /\ \A u \in Topos : hist[u] = None
      /\ torn = FALSE /\ pc = "idle"
  BY Zenon DEF Init
<1>3. Consistent(versions, hist, pruned, pointer, next)
  BY <1>2, Zenon DEF Consistent, VersionsOK, LinksOK, HeadOK, LinkOK, WritesBelow, Topos
<1> QED
  BY <1>1, <1>2, <1>3, SMTT(60) DEF TreeInv, Descending

LEMMA NextTree ==
    ASSUME kind = "tree", TreeInv, [Next]_vars
    PROVE  TreeInv'
<1>1. TypeOK'
  BY NextType, Zenon DEF TypeInv, TreeInv, CleanInv
<1>2. CASE UNCHANGED vars
  BY <1>2, SMTT(60) DEF vars, disk, ghost, loop, TreeInv, TypeOK, IsVersionMap, CleanInv, BelowInv, CutShort
<1>3. CASE Next
  <2>1. ~BelowBalances
    BY Zenon DEF BelowBalances
  <2> QED
    BY <1>1, <1>3, <2>1, AddBlockTree, PopBlockTree, PruneTree, CrashTree,
       CleanStepTree, CleanDoneTree, ExecuteUntouchedTree, ExecuteWriteTree, CommitTree,
       AboveStartTree, AboveNothingTree, AboveStepTree, AboveDoneTree,
       BelowEraseTree, BelowPatchTree, BelowDoneTree, Zenon DEF Next, Step
<1> QED
  BY <1>2, <1>3, Zenon

\* No step changes the kind of a tree.
LEMMA KindStays ==
    ASSUME [Next]_vars
    PROVE  kind' = kind
<1>1. CASE UNCHANGED vars
  BY <1>1, Zenon DEF vars
<1>2. CASE Step
  BY <1>2, Zenon DEF Step, CleanStep, CleanDone, ExecuteUntouched, ExecuteWrite, Commit, AboveStart,
     AboveNothing, AboveStep, AboveDone, BelowErase, BelowPatch, BelowBalances, BelowDone
<1>3. CASE Next /\ ~Step
  BY <1>3, Zenon DEF Next, AddBlock, PopBlock, Prune, Crash
<1> QED
  BY <1>1, <1>2, <1>3, Zenon

\* In the generic trees the versions, their links and the pointer agree with
\* what the executed blocks wrote, from the pruned topoheight on, in every
\* state between two operations.
THEOREM TreeInvariant == Spec => [](kind = "tree" => TreeInv)
<1>1. Init => (kind = "tree" => TreeInv)
  BY InitTree, Zenon
<1>2. (kind = "tree" => TreeInv) /\ [Next]_vars => (kind = "tree" => TreeInv)'
  BY NextTree, KindStays, Zenon
<1> QED
  BY <1>1, <1>2, PTL DEF Spec

\* get_last_* of a generic tree: the pointer leads to the last value written
\* at or above the pruned topoheight, for any number of blocks, reorgs,
\* rewinds, prunings and restarts.
THEOREM LastVersionCorrect == Spec => []TreesKeepLastVersion
<1>1. (kind = "tree" => TreeInv) => TreesKeepLastVersion
  <2> SUFFICES ASSUME TreeInv, pc = "idle", ~torn PROVE LastVersionIsCurrent
    BY Zenon DEF TreesKeepLastVersion, LastVersionIsCurrent
  <2>1. Consistent(versions, hist, pruned, pointer, next) /\ TypeOK
    BY Zenon DEF TreeInv, CutShort
  <2>2. Loadable
    BY <2>1, Zenon DEF Consistent, HeadOK, Loadable
  <2>3. ASSUME NEW u \in Topos, pruned <= u, IsLast(hist, u, next)
        PROVE  pointer = u /\ versions[u].val = hist[u]
    <3>1. hist[u] # None /\ u < next
      BY <2>3, NoneAssumption, SMTT(60) DEF IsLast, Topos
    <3>2. versions[u].val = hist[u]
      BY <2>1, <2>3, <3>1, Zenon DEF Consistent, VersionsOK
    <3>3. pointer = u
      BY <2>1, <2>3, <3>1, Typed, NoneAssumption, SMTT(60)
      DEF Consistent, HeadOK, LinkOK, IsLast, Topos, Links
    <3> QED
      BY <3>2, <3>3, Zenon
  <2> QED
    BY <2>2, <2>3, Zenon DEF LastVersionIsCurrent
<1> QED
  BY <1>1, TreeInvariant, PTL

\* check_db_integrity: after a restart no version and no pointer of a generic
\* tree is above the top topoheight, wherever the crash fell.
THEOREM NothingAboveTop == Spec => []NoDataAboveTop
<1>1. (kind = "tree" => TreeInv) => NoDataAboveTop
  <2> SUFFICES ASSUME TreeInv, pc = "idle" PROVE NoDataAboveTop
    BY Zenon DEF NoDataAboveTop
  <2>1. TypeOK
    BY Zenon DEF TreeInv
  <2>2. CASE next <= stored /\ Consistent(versions, hist, pruned, pointer, next)
    <3>1. \A u \in DOMAIN versions : u < stored
      BY <2>1, <2>2, Typed, SMTT(60) DEF Consistent, WritesBelow, Typing, Topos
    <3> QED
      BY <2>2, <3>1, Zenon DEF Consistent, HeadOK, NoDataAboveTop
  <2>3. CASE CutShort
    BY <2>3, Zenon DEF CutShort, WritesBelow, NoDataAboveTop
  <2> QED
    BY <2>2, <2>3, Zenon DEF TreeInv
<1> QED
  BY <1>1, TreeInvariant, PTL


-----------------------------------------------------------------------------
(* Balances: what pruning keeps                                            *)

\* p is at or above every version of vs.
Bounds(vs, p) == \A t \in DOMAIN vs : p # None /\ t <= p

\* Every version is linked at or above the ones before it, and below itself.  The link
\* of balances may lead to a version that was erased: it says where one was.
LinkedDown(vs) ==
    /\ Descending(vs)
    /\ \A v, t \in DOMAIN vs : t < v => vs[v].prev # None /\ t <= vs[v].prev

\* The version with an output that the pruning loop has passed.
SpentPassed ==
    \E t \in DOMAIN versions :
        versions[t].output /\ t < pointer /\ (cursor # None => cursor < t)

BalanceInv ==
    /\ pc \in {"clean", "exec", "below"} => ~torn
    /\ pc \in {"above", "above_walk"} => stored > 0 /\ limit = stored - 1
    /\ cursor # None /\ pc \in {"above_walk", "below"} => cursor \in Topos
    /\ ~torn =>
          /\ LinkedDown(versions)
          /\ pc \in {"idle", "below"} => next <= stored
          /\ pc \in {"idle", "exec", "below"} => \A t \in DOMAIN versions : t < next
          /\ pc \in {"idle", "exec", "below", "above"} => Bounds(versions, pointer)
          /\ pc = "above_walk" => Bounds(versions, cursor)
          /\ pc = "clean" =>
                /\ base = next /\ cursor # None /\ base <= cursor /\ cursor <= stored
                /\ \A t \in DOMAIN versions : t < base \/ (cursor <= t /\ t < stored)
                /\ \A t \in DOMAIN versions : t < base => pointer # None /\ t <= pointer
          /\ pc = "below" /\ cursor # None => pointer # None /\ cursor < pointer
          /\ pc = "below" /\ patched => pointer # None /\ SpentPassed

LEMMA InitBalance == Init => BalanceInv
  BY SMTT(60) DEF Init, BalanceInv, LinkedDown, Descending, Bounds

LEMMA LinkedDrop ==
    ASSUME NEW vs \in VersionMaps, NEW t, LinkedDown(vs)
    PROVE  LinkedDown(Drop(vs, t))
<1> DEFINE ws == Drop(vs, t)
<1>1. DOMAIN ws = DOMAIN vs \ {t} /\ \A u \in DOMAIN ws : ws[u] = vs[u]
  BY DropShape, Zenon
<1> HIDE DEF ws
<1>2. LinkedDown(ws)
  BY <1>1, Zenon DEF LinkedDown, Descending
<1> QED
  BY <1>2, Zenon DEF ws

\* Undoing one topoheight of balances.
LEMMA DeleteAtBalance ==
    ASSUME kind = "balances", Typing, LinkedDown(versions), NEW t \in Topos, DeleteAt(t)
    PROVE  /\ LinkedDown(versions')
           /\ DOMAIN versions' = DOMAIN versions \ {t}
           /\ \A u \in DOMAIN versions : u < t /\ pointer # None /\ u <= pointer =>
                 pointer' # None /\ u <= pointer'
<1> USE NoneAssumption DEF Topos, Links
<1>1. CASE t \notin DOMAIN versions
  BY <1>1, Zenon DEF DeleteAt
<1>2. CASE t \in DOMAIN versions
  <2>1. /\ versions' = Drop(versions, t)
        /\ pointer' = IF pointer # None /\ pointer >= t THEN versions[t].prev ELSE pointer
    BY <1>2, Zenon DEF DeleteAt, Without, Drop
  <2>2. DOMAIN versions' = DOMAIN versions \ {t}
    BY <2>1, Zenon DEF Drop
  <2>3. LinkedDown(versions')
    BY <2>1, LinkedDrop, Zenon DEF Typing
  <2>4. ASSUME NEW u \in DOMAIN versions, u < t, pointer # None, u <= pointer
        PROVE  pointer' # None /\ u <= pointer'
    BY <1>2, <2>1, <2>4, Zenon DEF LinkedDown
  <2> QED
    BY <2>2, <2>3, <2>4, Zenon
<1> QED
  BY <1>1, <1>2, Zenon

LEMMA AddBlockSteps ==
    ASSUME kind = "balances", Typing, BalanceInv,
           CleanStep \/ CleanDone \/ Commit \/ ExecuteUntouched \/ PopBlock
           \/ \E b \in Topos : AddBlock(b)
    PROVE  BalanceInv'
<1> USE NoneAssumption, BoundAssumption DEF Topos, Links
<1>1. ASSUME NEW b \in Topos, AddBlock(b) PROVE BalanceInv'
  BY <1>1, SMTT(60) DEF AddBlock, disk, ghost, BalanceInv, Bounds, LinkedDown, Descending, Typing
<1>2. CASE CleanStep
  <2>1. /\ pc = "clean" /\ pc' = "clean" /\ ~torn /\ ~torn' /\ cursor < stored /\ cursor' = cursor + 1
        /\ cursor \in Nat /\ cursor \in Topos /\ base' = base /\ stored' = stored /\ next' = next
        /\ DeleteAt(cursor)
    BY <1>2, SMTT(60) DEF CleanStep, BalanceInv, Typing
  <2>2. /\ LinkedDown(versions')
        /\ DOMAIN versions' = DOMAIN versions \ {cursor}
        /\ \A u \in DOMAIN versions : u < cursor /\ pointer # None /\ u <= pointer =>
              pointer' # None /\ u <= pointer'
    BY <2>1, DeleteAtBalance, Zenon DEF BalanceInv
  <2>3. \A t \in DOMAIN versions' : t < base \/ (cursor' <= t /\ t < stored)
    BY <2>1, <2>2, SMTT(60) DEF BalanceInv, Typing
  <2>4. \A t \in DOMAIN versions' : t < base => pointer' # None /\ t <= pointer'
    BY <2>1, <2>2, SMTT(60) DEF BalanceInv, Typing
  <2> QED
    BY <2>1, <2>2, <2>3, <2>4, SMTT(60) DEF BalanceInv, Typing
<1>3. CASE CleanDone
  <2>1. /\ pc = "clean" /\ pc' = "exec" /\ ~torn /\ ~torn' /\ cursor >= stored /\ versions' = versions
        /\ pointer' = pointer /\ next' = next /\ stored' = stored
    BY <1>3, Zenon DEF CleanDone, BalanceInv, disk, ghost
  <2>2. \A t \in DOMAIN versions : t < base
    BY <2>1, SMTT(60) DEF BalanceInv, Typing
  <2> QED
    BY <2>1, <2>2, Zenon DEF BalanceInv, Bounds, LinkedDown, Descending
<1>4. CASE Commit
  BY <1>4, SMTT(60) DEF Commit, ghost, BalanceInv, Bounds, LinkedDown, Descending, Typing
<1>5. CASE ExecuteUntouched
  BY <1>5, SMTT(60) DEF ExecuteUntouched, disk, ghost, BalanceInv, Bounds, LinkedDown, Descending, Typing
<1>6. CASE PopBlock
  <2> DEFINE top == stored - 1
  <2>1. /\ pc = "idle" /\ pc' = "idle" /\ ~torn /\ ~torn' /\ stored' = top
        /\ next' = (IF next > top THEN top ELSE next) /\ top \in Topos /\ DeleteAt(top)
    BY <1>6, SMTT(60) DEF PopBlock, loop, Typing
  <2>2. next <= stored /\ Bounds(versions, pointer) /\ \A t \in DOMAIN versions : t < next
    BY <2>1, Zenon DEF BalanceInv
  <2> HIDE DEF top
  <2>3. /\ LinkedDown(versions')
        /\ DOMAIN versions' = DOMAIN versions \ {top}
        /\ \A u \in DOMAIN versions : u < top /\ pointer # None /\ u <= pointer =>
              pointer' # None /\ u <= pointer'
    BY <2>1, DeleteAtBalance, Zenon DEF BalanceInv
  <2>4. \A t \in DOMAIN versions' : t < top /\ t < next
    BY <2>2, <2>3, SMTT(60) DEF Typing, top
  <2>5. Bounds(versions', pointer')
    BY <2>2, <2>3, <2>4, Zenon DEF Bounds
  <2>6. \A t \in DOMAIN versions' : t < next'
    BY <2>1, <2>4, Zenon
  <2>7. next' <= stored'
    BY <2>1, <2>2, SMTT(60) DEF Typing, top
  <2> QED
    BY <2>1, <2>3, <2>5, <2>6, <2>7, Zenon DEF BalanceInv
<1> QED
  BY <1>1, <1>2, <1>3, <1>4, <1>5, <1>6, Zenon

LEMMA ExecuteWriteBalance ==
    ASSUME Typing, BalanceInv, NEW v \in Values, NEW o \in BOOLEAN, ExecuteWrite(v, o)
    PROVE  BalanceInv'
<1> USE NoneAssumption, BoundAssumption DEF Topos, Links
<1> DEFINE r == [prev |-> pointer, val |-> v, output |-> o]
<1>1. /\ pc = "exec" /\ pc' = "exec" /\ ~torn /\ ~torn' /\ Loadable
      /\ pointer' = next /\ next' = next + 1 /\ stored' = stored /\ limit' = limit
      /\ DOMAIN versions' = DOMAIN versions \cup {next}
      /\ versions'[next] = r
      /\ \A t \in DOMAIN versions : t # next => versions'[t] = versions[t]
  BY Zenon DEF ExecuteWrite, loop, BalanceInv
<1>2. /\ LinkedDown(versions) /\ Bounds(versions, pointer)
      /\ \A t \in DOMAIN versions : t < next
  BY <1>1, Zenon DEF BalanceInv
<1>3. r.prev = pointer
  BY Zenon
<1> HIDE DEF r
<1>4. pointer # None => pointer \in DOMAIN versions /\ pointer < next
  BY <1>1, <1>2, Zenon DEF Loadable
<1>5. Descending(versions')
  BY <1>1, <1>2, <1>3, <1>4, Zenon DEF LinkedDown, Descending, Typing
<1>6. ASSUME NEW w \in DOMAIN versions', NEW t \in DOMAIN versions', t < w
      PROVE  versions'[w].prev # None /\ t <= versions'[w].prev
  <2>1. t \in DOMAIN versions /\ t # next
    BY <1>1, <1>2, <1>6, SMTT(60) DEF Typing
  <2>2. CASE w = next
    BY <1>1, <1>2, <1>3, <2>1, <2>2, Zenon DEF Bounds
  <2>3. CASE w # next
    <3>1. w \in DOMAIN versions /\ versions'[w] = versions[w]
      BY <1>1, <2>3, Zenon
    <3> QED
      BY <1>2, <1>6, <2>1, <3>1, Zenon DEF LinkedDown
  <2> QED
    BY <2>2, <2>3, Zenon
<1>7. \A t \in DOMAIN versions' : t < next' /\ t <= pointer'
  BY <1>1, <1>2, SMTT(60) DEF Typing
<1>8. pointer' # None
  BY <1>1, SMTT(60) DEF Typing
<1> QED
  BY <1>1, <1>5, <1>6, <1>7, <1>8, Zenon DEF BalanceInv, LinkedDown, Bounds

LEMMA RestartBalance ==
    ASSUME Typing, BalanceInv, Crash \/ AboveStart \/ AboveNothing \/ AboveStep \/ AboveDone
    PROVE  BalanceInv'
<1> USE NoneAssumption, BoundAssumption DEF Topos, Links
<1>1. CASE Crash
  <2>1. /\ stored > 0 /\ pc' = "above" /\ limit' = stored - 1 /\ torn' = (base < stored)
        /\ UNCHANGED <<versions, pointer, stored, cursor>> /\ pc \in {"clean", "exec"} /\ ~torn
    BY <1>1, Zenon DEF Crash, disk, BalanceInv
  <2>2. ~torn' => Bounds(versions, pointer)
    <3>1. CASE pc = "exec"
      BY <2>1, <3>1, Zenon DEF BalanceInv
    <3>2. CASE pc = "clean"
      <4> SUFFICES ASSUME ~torn' PROVE Bounds(versions, pointer)
        BY Zenon
      <4>1. ~(base < stored)
        BY <2>1, Zenon
      <4>2. \A t \in DOMAIN versions : t < base
        BY <2>1, <3>2, <4>1, SMTT(60) DEF BalanceInv, Typing
      <4> QED
        BY <2>1, <3>2, <4>2, Zenon DEF BalanceInv, Bounds
    <3> QED
      BY <2>1, <3>1, <3>2, Zenon
  <2> QED
    BY <2>1, <2>2, Zenon DEF BalanceInv, Bounds, LinkedDown, Descending
<1>2. CASE AboveNothing
  <2>1. /\ pc = "above" /\ pc' = "idle" /\ next' = limit + 1 /\ ~(pointer # None /\ pointer > limit)
        /\ UNCHANGED <<versions, pointer, stored, torn, limit>>
    BY <1>2, Zenon DEF AboveNothing, disk, ghost, loop
  <2>2. limit = stored - 1
    BY <2>1, Zenon DEF BalanceInv
  <2>3. ~torn => \A t \in DOMAIN versions : t < limit + 1
    BY <2>1, SMTT(60) DEF BalanceInv, Bounds, Typing
  <2> QED
    BY <2>1, <2>2, <2>3, SMTT(60) DEF BalanceInv, Bounds, LinkedDown, Descending, Typing
<1>3. CASE AboveStart \/ AboveStep
  <2>1. PICK c \in DOMAIN versions :
           /\ versions' = Drop(versions, c) /\ cursor' = versions[c].prev /\ pc' = "above_walk"
           /\ ~torn => LinkedDown(versions) /\ Bounds(versions, c)
           /\ UNCHANGED <<stored, torn, limit>>
           /\ stored > 0 /\ limit = stored - 1
    <3>1. CASE AboveStart
      BY <3>1, Zenon DEF AboveStart, Without, Drop, BalanceInv
    <3>2. CASE AboveStep
      BY <3>2, Zenon DEF AboveStep, Without, Drop, BalanceInv
    <3> QED
      BY <1>3, <3>1, <3>2, Zenon
  <2>2. DOMAIN versions' = DOMAIN versions \ {c}
    BY <2>1, Zenon DEF Drop
  <2>3. ~torn => LinkedDown(versions')
    BY <2>1, LinkedDrop, Zenon DEF Typing
  <2>4. ~torn => Bounds(versions', cursor')
    BY <2>1, <2>2, SMTT(60) DEF LinkedDown, Bounds, Typing
  <2>5. cursor' # None => cursor' \in Topos
    BY <2>1, Zenon DEF Typing
  <2> QED
    BY <2>1, <2>3, <2>4, <2>5, Zenon DEF BalanceInv
<1>4. CASE AboveDone
  <2>1. /\ pc = "above_walk" /\ pc' = "idle" /\ next' = limit + 1 /\ ~(cursor # None /\ cursor > limit)
        /\ pointer' = cursor /\ UNCHANGED <<versions, stored, torn, limit>>
    BY <1>4, Zenon DEF AboveDone, ghost, loop
  <2>2. limit = stored - 1 /\ (~torn => LinkedDown(versions) /\ Bounds(versions, cursor))
    BY <2>1, Zenon DEF BalanceInv
  <2>3. ~torn => \A t \in DOMAIN versions : t < limit + 1
    BY <2>1, <2>2, SMTT(60) DEF Bounds, Typing
  <2> QED
    BY <2>1, <2>2, <2>3, SMTT(60) DEF BalanceInv, Bounds, LinkedDown, Descending, Typing
<1> QED
  BY <1>1, <1>2, <1>3, <1>4, Zenon

LEMMA PruneBalance ==
    ASSUME kind = "balances", Typing, BalanceInv,
           BelowErase \/ BelowBalances \/ BelowDone \/ \E p \in Topos : Prune(p)
    PROVE  BalanceInv'
<1> USE NoneAssumption, BoundAssumption DEF Topos, Links
<1>1. ASSUME NEW p \in Topos, Prune(p) PROVE BalanceInv'
  <2>1. /\ pc = "idle" /\ ~torn /\ pc' = "below" /\ patched' = FALSE
        /\ UNCHANGED <<versions, pointer, stored, next, torn>>
    BY <1>1, Zenon DEF Prune, disk, ghost
  <2>2. cursor' # None => pointer \in DOMAIN versions /\ cursor' = versions[pointer].prev
    BY <1>1, Zenon DEF Prune, Loadable
  <2>3. cursor' # None => cursor' \in Topos /\ pointer # None /\ cursor' < pointer
    BY <2>1, <2>2, SMTT(60) DEF BalanceInv, LinkedDown, Descending, Typing
  <2> QED
    BY <2>1, <2>3, Zenon DEF BalanceInv, Bounds, LinkedDown, Descending
<1>2. CASE BelowErase
  <2>1. /\ pc = "below" /\ pc' = "below" /\ cursor # None /\ patched
        /\ versions' = Drop(versions, cursor) /\ cursor' \in {0, None}
        /\ UNCHANGED <<pointer, stored, next, torn, patched>>
    BY <1>2, Zenon DEF BelowErase, Without, Drop, DecodedU64, ghost
  <2>2. /\ ~torn /\ LinkedDown(versions) /\ next <= stored /\ Bounds(versions, pointer)
        /\ \A t \in DOMAIN versions : t < next
        /\ pointer # None /\ cursor < pointer /\ cursor \in Topos
    BY <2>1, Zenon DEF BalanceInv
  <2>3. /\ DOMAIN versions' = DOMAIN versions \ {cursor}
        /\ \A t \in DOMAIN versions' : versions'[t] = versions[t]
    BY <2>1, Zenon DEF Drop
  <2>4. LinkedDown(versions')
    BY <2>1, <2>2, LinkedDrop, Zenon DEF Typing
  <2>5. PICK t \in DOMAIN versions : versions[t].output /\ t < pointer /\ cursor < t
    BY <2>1, Zenon DEF BalanceInv, SpentPassed
  <2>6. t \in DOMAIN versions' /\ versions'[t].output /\ (cursor' # None => cursor' < t)
    BY <2>1, <2>2, <2>3, <2>5, SMTT(60) DEF Typing
  <2>7. SpentPassed'
    BY <2>1, <2>5, <2>6, Zenon DEF SpentPassed
  <2>8. cursor' # None => cursor' \in Topos /\ cursor' < pointer
    BY <2>1, <2>2, <2>5, <2>6, SMTT(60) DEF Typing
  <2> QED
    BY <2>1, <2>2, <2>3, <2>4, <2>7, <2>8, Zenon DEF BalanceInv, Bounds
<1>3. CASE BelowBalances
  <2>1. /\ pc = "below" /\ pc' = "below" /\ cursor # None /\ ~patched /\ cursor \in DOMAIN versions
        /\ cursor' = versions[cursor].prev /\ patched' = versions[cursor].output
        /\ UNCHANGED <<versions, pointer, stored, next, torn>>
    BY <1>3, Zenon DEF BelowBalances, disk, ghost
  <2>2. /\ ~torn /\ LinkedDown(versions) /\ next <= stored /\ Bounds(versions, pointer)
        /\ \A t \in DOMAIN versions : t < next
        /\ pointer # None /\ cursor < pointer /\ cursor \in Topos
    BY <2>1, Zenon DEF BalanceInv
  <2>3. cursor' # None => cursor' \in Topos /\ cursor' < cursor /\ cursor' < pointer
    BY <2>1, <2>2, SMTT(60) DEF LinkedDown, Descending, Typing
  <2>4. patched' => SpentPassed'
    <3> SUFFICES ASSUME versions[cursor].output PROVE SpentPassed'
      BY <2>1, Zenon
    <3> QED
      BY <2>1, <2>2, <2>3, Zenon DEF SpentPassed
  <2> QED
    BY <2>1, <2>2, <2>3, <2>4, Zenon DEF BalanceInv, Bounds, LinkedDown, Descending
<1>4. CASE BelowDone
  BY <1>4, Zenon DEF BelowDone, ghost, loop, BalanceInv, Bounds, LinkedDown, Descending
<1> QED
  BY <1>1, <1>2, <1>3, <1>4, Zenon

LEMMA NextBalance ==
    ASSUME kind = "balances", TypeOK, BalanceInv, [Next]_vars
    PROVE  BalanceInv'
<1>1. Typing
  BY Typed, Zenon
<1>2. CASE UNCHANGED vars
  BY <1>2, Zenon DEF vars, disk, ghost, loop, BalanceInv, Bounds, LinkedDown, Descending, SpentPassed
<1>3. CASE Next
  <2>1. ~BelowPatch
    BY Zenon DEF BelowPatch
  <2> QED
    BY <1>1, <1>3, <2>1, AddBlockSteps, ExecuteWriteBalance, RestartBalance, PruneBalance, Zenon DEF Next, Step
<1> QED
  BY <1>2, <1>3, Zenon

\* delete_versioned_balances_below: however the versions of a balance came about, by
\* executions, reorgs, rewinds and restarts, what pruning erases is older than a version
\* with an output that stays, so that the last spent version is never lost.
THEOREM SpentVersionsKept == Spec => PruneKeepsSpent
<1> DEFINE I == TypeInv /\ (kind = "balances" => BalanceInv)
           Keeps == kind = "balances" /\ BelowErase /\ cursor \in DOMAIN versions =>
                      \E t \in DOMAIN versions : cursor < t /\ t < pointer /\ versions[t].output
                                                 /\ t \in DOMAIN versions'
<1>1. Init => I
  BY InitType, InitBalance, Zenon
<1>2. I /\ [Next]_vars => I'
  <2> SUFFICES ASSUME I, [Next]_vars PROVE I'
    BY Zenon
  <2>1. TypeInv'
    BY NextType, Zenon
  <2>2. (kind = "balances" => BalanceInv)'
    BY NextBalance, KindStays, Zenon DEF TypeInv
  <2> QED
    BY <2>1, <2>2, Zenon
<1>3. I /\ [Next]_vars => [Keeps]_vars
  <2> SUFFICES ASSUME I, kind = "balances", BelowErase, cursor \in DOMAIN versions
               PROVE  \E t \in DOMAIN versions : cursor < t /\ t < pointer /\ versions[t].output
                                                 /\ t \in DOMAIN versions'
    BY Zenon
  <2>1. pc = "below" /\ patched /\ cursor # None /\ versions' = Without(cursor)
    BY Zenon DEF BelowErase
  <2>2. PICK t \in DOMAIN versions : versions[t].output /\ t < pointer /\ cursor < t
    BY <2>1, Zenon DEF BalanceInv, SpentPassed
  <2>3. t # cursor
    BY <2>2, Typed, SMTT(60) DEF TypeInv, Typing, Topos
  <2> QED
    BY <2>1, <2>2, <2>3, Zenon DEF Without
<1> QED
  BY <1>1, <1>2, <1>3, PTL DEF Spec, PruneKeepsSpent

-----------------------------------------------------------------------------
(* Reads at a topoheight                                                   *)

\* W is the walk of get_*_at_maximum_topoheight down the versions vs.
WalkStep(vs, max, W, t) ==
    IF t = None THEN None
    ELSE IF t \notin DOMAIN vs THEN Corrupted
    ELSE IF t <= max THEN vs[t].val
    ELSE W[vs[t].prev]
IsWalk(vs, max, W) == W = [t \in Topos \cup {None} |-> WalkStep(vs, max, W, t)]
TheWalk(max) == CHOOSE W : IsWalk(versions, max, W)

LEMMA ReadIsWalk ==
    ASSUME NEW max
    PROVE  GetAtMaximum(max) = IF pointer = None THEN None
                               ELSE IF max \in DOMAIN versions THEN TheWalk(max)[max]
                                    ELSE TheWalk(max)[pointer]
  BY Zenon DEF GetAtMaximum, TheWalk, IsWalk, WalkStep

\* Every set of natural numbers has a least element.
LEMMA NatMin ==
    ASSUME NEW T \in SUBSET Nat, T # {}
    PROVE  \E x \in T : \A y \in T : x <= y
<1>1. IsWellFoundedOn(OpToRel(<, Nat), Nat)
  BY NatLessThanWellFounded, Zenon
<1>2. PICK x \in T : \A y \in T : ~(<<y, x>> \in OpToRel(<, Nat))
  BY <1>1, WFMin, Zenon
<1>3. \A y \in T : ~(y < x)
  BY <1>2, Zenon DEF OpToRel
<1> QED
  BY <1>3, SMTT(60)

\* The links go down, so the walk is defined: it is built from the oldest version on.
LEMMA WalkDefined ==
    ASSUME NEW vs \in VersionMaps, Descending(vs), NEW max \in Nat
    PROVE  \E W : IsWalk(vs, max, W)
<1> USE NoneAssumption, BoundAssumption
<1> DEFINE Dom(n) == {t \in Topos : t < n} \cup {None}
           Upto(n) == \E W : W = [t \in Dom(n) |-> WalkStep(vs, max, W, t)]
           Bad == {n \in Nat : ~Upto(n)}
<1>1. \A t \in DOMAIN vs : t \in Topos /\ vs[t].prev \in Links
  BY VersionMapShape, Zenon
<1>2. Upto(0)
  <2>1. Dom(0) = {None}
    BY SMTT(60) DEF Topos
  <2>2. [t \in {None} |-> None] = [t \in {None} |-> WalkStep(vs, max, [u \in {None} |-> None], t)]
    BY Zenon DEF WalkStep
  <2> QED
    BY <2>1, <2>2, Zenon
<1>3. ASSUME NEW n \in Nat, Upto(n) PROVE Upto(n + 1)
  <2>1. PICK W : W = [t \in Dom(n) |-> WalkStep(vs, max, W, t)]
    BY <1>3, Zenon
  <2> DEFINE V == [t \in Dom(n + 1) |-> WalkStep(vs, max, W, t)]
  <2>2. \A t \in Dom(n) : t \in Dom(n + 1)
    BY SMTT(60) DEF Topos
  <2>3. \A t \in Dom(n) : V[t] = W[t]
    BY <2>1, <2>2, Zenon
  <2>4. \A t \in Dom(n + 1) : t # None /\ t \in DOMAIN vs => vs[t].prev \in Dom(n)
    BY <1>1, SMTT(60) DEF Descending, Topos, Links
  <2>5. \A t \in Dom(n + 1) : WalkStep(vs, max, V, t) = WalkStep(vs, max, W, t)
    <3> HIDE DEF V, Dom
    <3> QED
      BY <2>3, <2>4, Zenon DEF WalkStep
  <2>6. V = [t \in Dom(n + 1) |-> WalkStep(vs, max, V, t)]
    <3> HIDE DEF Dom
    <3>1. V = [t \in Dom(n + 1) |-> WalkStep(vs, max, W, t)]
      BY Zenon
    <3> HIDE DEF V
    <3> QED
      BY <2>5, <3>1, Zenon
  <2> QED
    BY <2>6, Zenon
<1>4. Upto(MaxTopo + 1)
  <2> SUFFICES ASSUME ~Upto(MaxTopo + 1) PROVE FALSE
    BY Zenon
  <2>1. Bad \in SUBSET Nat /\ MaxTopo + 1 \in Bad
    <3> HIDE DEF Upto
    <3> QED
      BY SMTT(60)
  <2>2. PICK n \in Bad : \A m \in Bad : n <= m
    <3> HIDE DEF Bad
    <3> QED
      BY <2>1, NatMin, Zenon
  <2> HIDE DEF Upto
  <2>3. n # 0 /\ n \in Nat
    BY <1>2, <2>2, Zenon
  <2>4. n - 1 \in Nat /\ n - 1 \notin Bad
    BY <2>2, <2>3, SMTT(60)
  <2>5. Upto(n - 1)
    BY <2>4, Zenon
  <2>6. Upto((n - 1) + 1)
    BY <1>3, <2>4, <2>5, Zenon
  <2>7. (n - 1) + 1 = n
    BY <2>3, SMTT(60)
  <2> QED
    BY <2>2, <2>6, <2>7, Zenon
<1>5. Dom(MaxTopo + 1) = Topos \cup {None}
  BY SMTT(60) DEF Topos
<1> HIDE DEF Dom
<1> QED
  BY <1>4, <1>5, Zenon DEF IsWalk

\* What a walk finds at each topoheight.
LEMMA WalkIs ==
    ASSUME NEW vs \in VersionMaps, Descending(vs), NEW max \in Nat, NEW W, IsWalk(vs, max, W)
    PROVE  /\ W[None] = None
           /\ \A t \in DOMAIN vs : t <= max => W[t] = vs[t].val
           /\ \A t \in DOMAIN vs : ~(t <= max) => W[t] = W[vs[t].prev]
<1>1. \A t \in Topos \cup {None} : W[t] = WalkStep(vs, max, W, t)
  BY Zenon DEF IsWalk
<1>2. DOMAIN vs \subseteq Topos /\ None \notin Topos
  BY VersionMapShape, NoneAssumption, SMTT(60) DEF Topos
<1> QED
  BY <1>1, <1>2, Zenon DEF WalkStep

\* There is always a last write, or none.
LEMMA LastWriteExists ==
    ASSUME NEW h \in Histories, NEW n \in Nat
    PROVE  \E s \in Links : IsLast(h, s, n)
<1> USE NoneAssumption, BoundAssumption
<1> DEFINE Good(m) == \E s \in Links : IsLast(h, s, m)
           Bad == {m \in Nat : ~Good(m)}
<1>1. Good(0)
  <2>1. IsLast(h, None, 0) /\ None \in Links
    BY SMTT(60) DEF IsLast, Topos, Links
  <2> QED
    BY <2>1, Zenon
<1>2. ASSUME NEW m \in Nat, Good(m) PROVE Good(m + 1)
  <2>1. PICK s \in Links : IsLast(h, s, m)
    BY <1>2, Zenon
  <2>2. CASE m \in Topos /\ h[m] # None
    <3>1. IsLast(h, m, m + 1)
      BY <2>2, SMTT(60) DEF IsLast, Topos
    <3> QED
      BY <2>2, <3>1, Zenon DEF Links
  <2>3. CASE ~(m \in Topos /\ h[m] # None)
    <3>1. IsLast(h, s, m + 1)
      BY <2>1, <2>3, SMTT(60) DEF IsLast, Topos, Links
    <3> QED
      BY <3>1, Zenon
  <2> QED
    BY <2>2, <2>3, Zenon
<1> SUFFICES ASSUME ~Good(n) PROVE FALSE
  BY Zenon
<1>3. Bad \in SUBSET Nat /\ n \in Bad
  BY Zenon
<1>4. PICK m \in Bad : \A k \in Bad : m <= k
  <2> HIDE DEF Bad
  <2> QED
    BY <1>3, NatMin, Zenon
<1> HIDE DEF Good
<1>5. m # 0 /\ m \in Nat
  BY <1>1, <1>4, Zenon
<1>6. m - 1 \in Nat /\ m - 1 \notin Bad
  BY <1>4, <1>5, SMTT(60)
<1>7. Good((m - 1) + 1)
  BY <1>2, <1>6, Zenon
<1>8. (m - 1) + 1 = m
  BY <1>5, SMTT(60)
<1> QED
  BY <1>4, <1>7, <1>8, Zenon

\* Above the last write up to max, the walk from any version comes down to it.
LEMMA WalkFindsWrite ==
    ASSUME NEW vs \in VersionMaps, NEW h \in Histories, NEW p \in Links, NEW n \in Nat, NEW f \in Nat,
           Descending(vs), Consistent(vs, h, f, p, n), NEW max \in Topos, max < n,
           NEW s \in Topos, f <= s, IsLast(h, s, max + 1),
           NEW W, IsWalk(vs, max, W), NEW t \in DOMAIN vs, s <= t
    PROVE  W[t] = h[s]
<1> USE NoneAssumption DEF Topos, Links
<1>1. /\ \A u \in DOMAIN vs : u \in Topos /\ vs[u].prev \in Links
      /\ s < max + 1 /\ h[s] # None /\ \A u \in Topos : s < u /\ u < max + 1 => h[u] = None
  BY VersionMapShape, SMTT(60) DEF IsLast
<1>2. /\ \A u \in DOMAIN vs : u <= max => W[u] = vs[u].val
      /\ \A u \in DOMAIN vs : ~(u <= max) => W[u] = W[vs[u].prev]
  BY WalkIs, SMTT(60)
<1> SUFFICES ASSUME W[t] # h[s] PROVE FALSE
  BY Zenon
<1>3. PICK u \in DOMAIN vs : /\ s <= u /\ W[u] # h[s]
                            /\ \A w \in DOMAIN vs : s <= w /\ W[w] # h[s] => u <= w
  <2> DEFINE Bad == {u \in DOMAIN vs : s <= u /\ W[u] # h[s]}
  <2>1. Bad \in SUBSET Nat /\ t \in Bad
    BY <1>1, SMTT(60)
  <2> HIDE DEF Bad
  <2>2. PICK u \in Bad : \A w \in Bad : u <= w
    BY <2>1, NatMin, Zenon
  <2> QED
    BY <2>2, Zenon DEF Bad
<1>4. u \in Topos
  BY <1>1, Zenon
<1>5. h[u] # None /\ u < n /\ vs[u].val = h[u]
  BY <1>3, <1>4, SMTT(60) DEF Consistent, VersionsOK, WritesBelow
<1>6. u # s
  BY <1>1, <1>2, <1>3, <1>5, SMTT(60)
<1>7. ~(u <= max)
  BY <1>1, <1>3, <1>4, <1>5, <1>6, SMTT(60)
<1>8. LinkOK(h, f, vs[u].prev, u) /\ (vs[u].prev # None => vs[u].prev \in DOMAIN vs)
  BY <1>3, <1>4, <1>5, SMTT(60) DEF Consistent, LinksOK
<1>9. vs[u].prev # None /\ s <= vs[u].prev /\ vs[u].prev < u
  <2>1. vs[u].prev \in Links
    BY <1>1, Zenon
  <2> QED
    BY <1>1, <1>3, <1>4, <1>6, <1>8, <2>1, SMTT(60) DEF LinkOK, IsLast
<1>10. vs[u].prev \in DOMAIN vs /\ vs[u].prev \in Topos
  BY <1>1, <1>8, <1>9, Zenon
<1>11. W[vs[u].prev] = h[s]
  BY <1>3, <1>4, <1>9, <1>10, SMTT(60)
<1> QED
  BY <1>2, <1>3, <1>7, <1>11, Zenon

\* Without a write from the floor f up to max, the walk ends below the floor, at a
\* version that is still there, or finds that there is none.
LEMMA WalkFindsOlder ==
    ASSUME NEW vs \in VersionMaps, NEW h \in Histories, NEW p \in Links, NEW n \in Nat, NEW f \in Nat,
           Descending(vs), Consistent(vs, h, f, p, n), NEW max \in Topos, max < n, f <= max,
           \A u \in Topos : f <= u /\ u <= max => h[u] = None,
           NEW W, IsWalk(vs, max, W), NEW t \in DOMAIN vs
    PROVE  /\ W[t] = None \/ W[t] \in Values
           /\ f = 0 => W[t] = None
<1> USE NoneAssumption DEF Topos, Links
<1>1. \A u \in DOMAIN vs : u \in Topos /\ vs[u].prev \in Links /\ vs[u].val \in Values
  BY VersionMapShape, Zenon DEF Version
<1>2. /\ W[None] = None
      /\ \A u \in DOMAIN vs : u <= max => W[u] = vs[u].val
      /\ \A u \in DOMAIN vs : ~(u <= max) => W[u] = W[vs[u].prev]
  BY WalkIs, SMTT(60)
<1> DEFINE Fine(u) == (W[u] = None \/ W[u] \in Values) /\ (f = 0 => W[u] = None)
<1> SUFFICES ASSUME ~Fine(t) PROVE FALSE
  BY Zenon
<1>3. PICK u \in DOMAIN vs : ~Fine(u) /\ \A w \in DOMAIN vs : ~Fine(w) => u <= w
  <2> DEFINE Bad == {u \in DOMAIN vs : ~Fine(u)}
  <2> HIDE DEF Fine
  <2>1. Bad \in SUBSET Nat /\ t \in Bad
    BY <1>1, SMTT(60)
  <2> HIDE DEF Bad
  <2>2. PICK u \in Bad : \A w \in Bad : u <= w
    BY <2>1, NatMin, Zenon
  <2> QED
    BY <2>2, Zenon DEF Bad
<1>4. u \in Topos /\ vs[u].val \in Values /\ vs[u].prev \in Links
  BY <1>1, Zenon
<1>5. f <= u
  <2> SUFFICES ASSUME u < f PROVE FALSE
    BY <1>4, SMTT(60)
  <2>1. W[u] = vs[u].val
    BY <1>2, <1>4, SMTT(60)
  <2> QED
    BY <1>3, <1>4, <2>1, SMTT(60)
<1>6. h[u] # None /\ u < n
  BY <1>4, <1>5, Zenon DEF Consistent, VersionsOK, WritesBelow
<1>7. ~(u <= max)
  BY <1>4, <1>5, <1>6, Zenon
<1>8. vs[u].prev # None => vs[u].prev \in DOMAIN vs /\ vs[u].prev < u
  BY <1>4, <1>5, <1>6, Zenon DEF Consistent, LinksOK, Descending
<1>9. Fine(vs[u].prev)
  <2>1. CASE vs[u].prev = None
    BY <1>2, <2>1, Zenon
  <2>2. CASE vs[u].prev # None
    <3>1. vs[u].prev \in DOMAIN vs /\ ~(u <= vs[u].prev)
      BY <1>1, <1>4, <1>8, <2>2, SMTT(60)
    <3> HIDE DEF Fine
    <3> QED
      BY <1>3, <3>1, Zenon
  <2> QED
    BY <2>1, <2>2, Zenon
<1> QED
  BY <1>2, <1>3, <1>7, <1>9, Zenon

\* get_nonce_at_maximum_topoheight and its siblings: in every state between two operations,
\* and while a pruning runs, a read at a topoheight from the pruned one up finds the last
\* value the executed blocks wrote there, and never a missing version.
THEOREM ReadsFindWrites == Spec => []UnprunedWritesReadBack
<1>1. (kind = "tree" => TreeInv) => UnprunedWritesReadBack
  <2> USE NoneAssumption, BoundAssumption, CorruptedAssumption
  <2> SUFFICES ASSUME TreeInv, pc \in {"idle", "below"}, ~torn,
                      NEW max \in Topos, Floor <= max, max < next
               PROVE  LET s == LastWrite(max)
                      IN  IF s # None /\ s >= Floor
                          THEN GetAtMaximum(max) = hist[s]
                          ELSE /\ GetAtMaximum(max) # Corrupted
                               /\ pruned = 0 /\ pc = "idle" => GetAtMaximum(max) = ValueAt(s)
    BY Zenon DEF UnprunedWritesReadBack
  <2> DEFINE s == LastWrite(max)
             W == TheWalk(max)
  <2>1. Typing /\ max \in Nat /\ Floor \in Nat
    BY Typed, SMTT(60) DEF TreeInv, Typing, Floor, Topos
  <2>2. Descending(versions) /\ Consistent(versions, hist, Floor, pointer, next)
    BY Zenon DEF TreeInv, CutShort, BelowInv, Floor
  <2>3. s \in Links /\ IsLast(hist, s, max + 1)
    <3>1. \E r \in Topos \cup {None} : IsLast(hist, r, max + 1)
      BY <2>1, LastWriteExists, SMTT(60) DEF Typing, Links
    <3> QED
      BY <3>1, Zenon DEF LastWrite, Links
  <2>4. IsWalk(versions, max, W)
    BY <2>1, <2>2, WalkDefined, Zenon DEF TheWalk, Typing
  <2>5. GetAtMaximum(max) = IF pointer = None THEN None
                            ELSE IF max \in DOMAIN versions THEN W[max] ELSE W[pointer]
    BY ReadIsWalk, Zenon
  <2>6. pointer # None => pointer \in DOMAIN versions
    BY <2>2, Zenon DEF Consistent, HeadOK
  <2> HIDE DEF s, W
  <2>7. CASE s # None /\ s >= Floor
    <3>1. s \in Topos /\ hist[s] # None /\ s <= max
      BY <2>1, <2>3, <2>7, SMTT(60) DEF Links, IsLast, Topos
    <3>2. pointer # None /\ s <= pointer
      BY <2>1, <2>2, <2>7, <3>1, SMTT(60) DEF Consistent, HeadOK, LinkOK, IsLast, Topos, Links, Typing
    <3>3. \A t \in DOMAIN versions : s <= t => W[t] = hist[s]
      <4>1. /\ versions \in VersionMaps /\ hist \in Histories /\ pointer \in Links
            /\ next \in Nat /\ Floor \in Nat
        BY <2>1, Zenon DEF Typing
      <4>2. Floor <= s
        BY <2>1, <2>7, <3>1, Zenon DEF Topos
      <4> QED
        BY <2>2, <2>3, <2>4, <3>1, <4>1, <4>2, WalkFindsWrite, SMTT(60)
    <3>4. GetAtMaximum(max) = hist[s]
      BY <2>5, <2>6, <3>1, <3>2, <3>3, Zenon
    <3> QED
      BY <2>7, <3>4, Zenon DEF s
  <2>8. CASE ~(s # None /\ s >= Floor)
    <3>1. \A u \in Topos : Floor <= u /\ u <= max => hist[u] = None
      BY <2>1, <2>3, <2>8, SMTT(60) DEF IsLast, Topos, Links
    <3>2. max \notin DOMAIN versions
      BY <2>2, <3>1, SMTT(60) DEF Consistent, VersionsOK, Topos
    <3>3. \A t \in DOMAIN versions : (W[t] = None \/ W[t] \in Values) /\ (Floor = 0 => W[t] = None)
      BY <2>1, <2>2, <2>4, <3>1, WalkFindsOlder, SMTT(60) DEF Typing
    <3>4. GetAtMaximum(max) # Corrupted
      BY <2>5, <2>6, <3>2, <3>3, Zenon
    <3>5. pruned = 0 /\ pc = "idle" => Floor = 0
      BY Zenon DEF Floor
    <3>6. Floor = 0 => s = None
      BY <2>1, <2>3, <2>8, SMTT(60) DEF Links, Topos
    <3>7. pruned = 0 /\ pc = "idle" => GetAtMaximum(max) = ValueAt(s)
      BY <2>5, <2>6, <3>2, <3>3, <3>5, <3>6, Zenon DEF ValueAt
    <3> QED
      BY <2>8, <3>4, <3>7, Zenon DEF s
  <2> QED
    BY <2>7, <2>8, Zenon
<1> QED
  BY <1>1, TreeInvariant, PTL
=============================================================================
