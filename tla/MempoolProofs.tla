---------------------------- MODULE MempoolProofs ----------------------------
(***************************************************************************)
(* Proofs about the mempool, for any accounts, assets, transactions and    *)
(* chain values: the caches and the pending set agree, the nonces of an    *)
(* account are contiguous from the chain nonce and in arrival order,       *)
(* consecutive transactions are compatible, the lookup by nonce is exact.  *)
(*                                                                         *)
(* The invariant is a property of each cache by itself (CacheOK) and of    *)
(* the pending set; the lemmas are about one cache, so that the steps only *)
(* have to say which cache an action replaces and by what.                 *)
(***************************************************************************)
EXTENDS Mempool, FiniteSetTheorems, TLAPS

\* What an AccountCache c of account a satisfies when the last nonce is n.
CacheOK(c, a, n) ==
    /\ c \in Caches
    /\ c.min = NonceSeen(None, n)
    /\ c.min <= c.max
    /\ \A t \in c.txs : t.src = a /\ c.min <= t.nonce /\ t.nonce <= c.max
    /\ \A i \in c.min .. c.max : \E t \in c.txs : t.nonce = i
    /\ \A t, u \in c.txs : c.rank[t] < c.rank[u] <=> t.nonce < u.nonce
    /\ \A t, u \in c.txs : t.nonce = u.nonce => t = u
    /\ \A t \in c.txs : c.rank[t] < c.next
    /\ \A t, u \in c.txs : u.nonce = t.nonce + 1 =>
        \A x \in Assets :
            t.base[x] # None /\ u.base[x] # None => u.base[x] = t.base[x] - 1
    /\ \A t \in c.txs : t.nonce = c.max => c.balances = Left(t)

\* The inductive invariant.
Inv ==
    /\ TypeOK
    /\ CachesMatchTxs
    /\ \A a \in Accounts : caches[a] # None => CacheOK(caches[a], a, nonces[a])

-----------------------------------------------------------------------------
(* One cache                                                               *)

\* What a transaction leaves is a partial map of balances.
LEMMA LeftType ==
    ASSUME NEW t \in Txs
    PROVE  Left(t) \in [Assets -> Nat \cup {None}]
<1>1. \A x \in Assets : t.base[x] \in (Nat \ {0}) \cup {None}
  BY TxAssumption, Zenon
<1> QED BY <1>1, SMTT(60) DEF Left

\* The multisig setup seen or left is a setup or none.
LEMMA MultisigType ==
    ASSUME NEW t \in Txs, NEW c \in Caches \cup {None},
           NEW m \in Setups \cup {None}, NEW known \in BOOLEAN
    PROVE  MultisigAfter(c, m, t, known) \in Setups \cup {None}
BY TxAssumption, Zenon DEF MultisigAfter, MultisigSeen, Caches

\* add_tx keeps the shape of a cache.
LEMMA UpdatedType ==
    ASSUME NEW t \in Txs, NEW c \in Caches \cup {None},
           NEW m \in Setups \cup {None}, NEW known \in BOOLEAN
    PROVE  Updated(c, m, t, known) \in Caches
<1>1. Left(t) \in [Assets -> Nat \cup {None}] BY LeftType, Zenon
<1>2. MultisigAfter(c, m, t, known) \in Setups \cup {None} BY MultisigType, Zenon
<1>3. t.nonce \in Nat BY TxAssumption, Zenon
<1>4. CASE c = None
  BY <1>1, <1>2, <1>3, <1>4, SMTT(60) DEF Updated, Caches
<1>5. CASE c # None
  <2>1. c \in Caches BY <1>5, Zenon
  <2> QED BY <1>1, <1>2, <1>3, <1>5, <2>1, SMTT(60) DEF Updated, Caches
<1> QED BY <1>4, <1>5, Zenon

\* The first transaction of an account makes a cache that starts at the nonce
\* the chain expects.
LEMMA UpdatedFirst ==
    ASSUME NEW t \in Txs, NEW m \in Setups \cup {None}, NEW known \in BOOLEAN,
           NEW n, t.nonce = NonceSeen(None, n)
    PROVE  CacheOK(Updated(None, m, t, known), t.src, n)
<1> DEFINE c == Updated(None, m, t, known)
<1>1. c \in Caches BY UpdatedType, ZenonT(30)
<1>2. t.nonce \in Nat BY TxAssumption, Zenon
<1>3. /\ c.min = t.nonce /\ c.max = t.nonce /\ c.txs = {t}
      /\ c.rank = [[u \in Txs |-> 0] EXCEPT ![t] = 0] /\ c.next = 0 + 1
      /\ c.balances = Left(t)
  BY <1>2, Zenon DEF Updated
<1>4. c.rank[t] = 0 BY <1>3, Zenon
<1> HIDE DEF c
<1>5. \A u, v \in c.txs : u = t /\ v = t BY <1>3, Zenon
<1>6. \A i \in c.min .. c.max : i = t.nonce BY <1>2, <1>3, SMTT(60)
<1>7. CacheOK(c, t.src, n)
  BY <1>1, <1>2, <1>3, <1>4, <1>5, <1>6, SMTT(60) DEF CacheOK
<1> QED BY <1>7, Zenon DEF c

\* A further transaction, with the next nonce and built on the cached balances,
\* extends the cache at its end.
LEMMA UpdatedNext ==
    ASSUME NEW t \in Txs, NEW m \in Setups \cup {None}, NEW known \in BOOLEAN,
           NEW n, NEW a, NEW c, CacheOK(c, a, n), t.src = a,
           t \notin c.txs, t.nonce = c.max + 1, NEW b,
           \A x \in Assets : t.base[x] # None => BalanceSeen(c, b, x) = t.base[x]
    PROVE  CacheOK(Updated(c, m, t, known), a, n)
<1> DEFINE d == Updated(c, m, t, known)
<1>0. c \in Caches /\ c # None BY NoneAssumption, Zenon DEF CacheOK
<1>1. d \in Caches BY UpdatedType, <1>0, Zenon
<1>2. /\ t.nonce \in Nat /\ c.min \in Nat /\ c.max \in Nat /\ c.next \in Nat
      /\ c.min <= c.max /\ c.rank \in [Txs -> Nat] /\ c.txs \subseteq Txs
  BY TxAssumption, <1>0, Zenon DEF Caches, CacheOK
<1>3. /\ d.min = c.min /\ d.max = t.nonce /\ d.txs = c.txs \cup {t}
      /\ d.rank = [c.rank EXCEPT ![t] = c.next] /\ d.next = c.next + 1
      /\ d.balances = Left(t)
  <2>1. d = [min |-> IF t.nonce < c.min THEN t.nonce ELSE c.min,
             max |-> IF t.nonce > c.max THEN t.nonce ELSE c.max,
             txs |-> c.txs \cup {t},
             rank |-> [c.rank EXCEPT ![t] = c.next],
             next |-> c.next + 1,
             balances |-> Left(t),
             multisig |-> MultisigAfter(c, m, t, known)]
    BY <1>0, Zenon DEF Updated
  <2> HIDE DEF d
  <2>2. ~(t.nonce < c.min) /\ t.nonce > c.max BY <1>2, SMTT(60)
  <2> QED BY <2>1, <2>2, Zenon
<1>4. d.rank[t] = c.next /\ \A u \in c.txs : d.rank[u] = c.rank[u] /\ d.rank[u] \in Nat
  BY <1>2, <1>3, Zenon
<1>5. \A u \in Txs : u.nonce \in Nat BY TxAssumption, Zenon
<1> HIDE DEF d
<1>6. \A u \in c.txs : /\ u.src = a /\ c.min <= u.nonce /\ u.nonce <= c.max
                       /\ c.rank[u] < c.next
  BY Zenon DEF CacheOK
<1>7. \A u \in d.txs : u.src = a /\ d.min <= u.nonce /\ u.nonce <= d.max
  BY <1>2, <1>3, <1>5, <1>6, SMTT(60)
<1>8. \A i \in d.min .. d.max : \E u \in d.txs : u.nonce = i
  <2> SUFFICES ASSUME NEW i \in d.min .. d.max
               PROVE  \E u \in d.txs : u.nonce = i
    BY Zenon
  <2>1. CASE i = t.nonce BY <2>1, <1>3, Zenon
  <2>2. CASE i # t.nonce
    <3>1. i \in c.min .. c.max BY <2>2, <1>2, <1>3, SMTT(60)
    <3>2. PICK u \in c.txs : u.nonce = i BY <3>1, Zenon DEF CacheOK
    <3> QED BY <3>2, <1>3, Zenon
  <2> QED BY <2>1, <2>2, Zenon
<1>9. \A u, v \in d.txs : d.rank[u] < d.rank[v] <=> u.nonce < v.nonce
  <2> SUFFICES ASSUME NEW u \in d.txs, NEW v \in d.txs
               PROVE  d.rank[u] < d.rank[v] <=> u.nonce < v.nonce
    BY Zenon
  <2>1. CASE u = t /\ v = t BY <2>1, <1>2, <1>4, SMTT(60)
  <2>2. CASE u = t /\ v \in c.txs BY <2>2, <1>2, <1>4, <1>5, <1>6, SMTT(60)
  <2>3. CASE u \in c.txs /\ v = t BY <2>3, <1>2, <1>4, <1>5, <1>6, SMTT(60)
  <2>4. CASE u \in c.txs /\ v \in c.txs BY <2>4, <1>4, Zenon DEF CacheOK
  <2> QED BY <2>1, <2>2, <2>3, <2>4, <1>3, Zenon
<1>10. \A u, v \in d.txs : u.nonce = v.nonce => u = v
  <2>1. \A u \in c.txs : u.nonce # t.nonce BY <1>2, <1>5, <1>6, SMTT(60)
  <2>2. \A u, v \in c.txs : u.nonce = v.nonce => u = v BY Zenon DEF CacheOK
  <2> QED BY <2>1, <2>2, <1>3, Zenon
<1>11. \A u \in d.txs : d.rank[u] < d.next
  BY <1>2, <1>3, <1>4, <1>6, SMTT(60)
<1>12. \A u, v \in d.txs : v.nonce = u.nonce + 1 =>
        \A x \in Assets :
            u.base[x] # None /\ v.base[x] # None => v.base[x] = u.base[x] - 1
  <2> SUFFICES ASSUME NEW u \in d.txs, NEW v \in d.txs, v.nonce = u.nonce + 1,
                      NEW x \in Assets, u.base[x] # None, v.base[x] # None
               PROVE  v.base[x] = u.base[x] - 1
    BY Zenon
  <2>1. u \in c.txs BY <1>2, <1>3, <1>5, <1>6, SMTT(60)
  <2>2. CASE v \in c.txs BY <2>1, <2>2, SMTT(60) DEF CacheOK
  <2>3. CASE v = t
    <3>1. u.nonce = c.max BY <2>1, <2>3, <1>2, <1>5, SMTT(60)
    <3>2. c.balances = Left(u) BY <3>1, <2>1, Zenon DEF CacheOK
    <3>3. u.base[x] \in Nat \ {0} BY <2>1, <1>2, TxAssumption, SMTT(60)
    <3>4. c.balances[x] = u.base[x] - 1 BY <3>2, Zenon DEF Left
    <3>5. c.balances[x] # None BY <3>3, <3>4, NoneAssumption, SMTT(60)
    <3>6. BalanceSeen(c, b, x) = c.balances[x] BY <3>5, <1>0, Zenon DEF BalanceSeen
    <3> QED BY <3>4, <3>6, <2>3, Zenon
  <2> QED BY <2>2, <2>3, <1>3, Zenon
<1>13. \A u \in d.txs : u.nonce = d.max => d.balances = Left(u)
  BY <1>3, <1>10, Zenon
<1>14. d.min = NonceSeen(None, n) /\ d.min <= d.max BY <1>2, <1>3, SMTT(60) DEF CacheOK
<1>15. CacheOK(d, a, n)
  BY <1>1, <1>7, <1>8, <1>9, <1>10, <1>11, <1>12, <1>13, <1>14, Zenon DEF CacheOK
<1> QED BY <1>15, Zenon DEF d

\* The nonce a verification without a cache expects.
LEMMA SeenType ==
    ASSUME NEW n \in Nat \cup {None}
    PROVE  /\ NonceSeen(None, n) \in Nat
           /\ n # None => NonceSeen(None, n) = n
BY Zenon DEF NonceSeen

\* clean_up leaves a cache that starts at the new nonce of the account, or none.
LEMMA CleanedOK ==
    ASSUME NEW c, NEW a, NEW n0, CacheOK(c, a, n0), NEW p, c.txs \subseteq p,
           NEW n \in Nat \cup {None}, NEW b, NEW m,
           Cleaned(c, p, n, b, m) # None
    PROVE  /\ CacheOK(Cleaned(c, p, n, b, m), a, n)
           /\ Cleaned(c, p, n, b, m).txs \subseteq c.txs
<1> DEFINE kept == Kept(c, p, n)
           low == CHOOSE i \in {t.nonce : t \in kept} : \A t \in kept : i <= t.nonce
           high == CHOOSE i \in {t.nonce : t \in kept} : \A t \in kept : i >= t.nonce
           d == [c EXCEPT !.txs = kept,
                          !.rank = [u \in Txs |-> IF u \in kept THEN c.rank[u] ELSE 0],
                          !.min = low, !.max = high]
<1>1. c \in Caches BY Zenon DEF CacheOK
<1>2. /\ c.min \in Nat /\ c.max \in Nat /\ c.next \in Nat /\ c.min <= c.max
      /\ c.rank \in [Txs -> Nat] /\ c.txs \subseteq Txs
  BY <1>1, Zenon DEF Caches, CacheOK
<1>3. n \in Nat /\ n >= c.min
  BY <1>2, NoneAssumption, SMTT(60) DEF Cleaned
<1>4. CASE n = c.min
  <2>1. Cleaned(c, p, n, b, m) = c BY <1>3, <1>4, NoneAssumption, <1>2, Zenon DEF Cleaned
  <2>2. NonceSeen(None, n) = c.min BY <1>3, <1>4, NoneAssumption, Zenon DEF NonceSeen
  <2>3. CacheOK(c, a, n) BY <2>2, Zenon DEF CacheOK
  <2> QED BY <2>1, <2>3, Zenon
<1>5. CASE n > c.min
  <2>1. Cleaned(c, p, n, b, m) = d /\ kept # {}
    BY <1>2, <1>3, <1>5, NoneAssumption, Zenon DEF Cleaned
  <2>2. \A t \in Txs : t.nonce \in Nat BY TxAssumption, Zenon
  <2>3. \A t \in kept : t \in c.txs /\ t.nonce >= n BY Zenon DEF Kept
  <2>4. \A t \in c.txs : t.nonce >= n => t \in kept BY Zenon DEF Kept
  <2>5. \A t \in c.txs : t.src = a /\ c.min <= t.nonce /\ t.nonce <= c.max BY Zenon DEF CacheOK
  <2> HIDE DEF kept
  <2>6. n <= c.max
    <3>1. PICK t \in kept : TRUE BY <2>1, Zenon
    <3> QED BY <3>1, <2>2, <2>3, <2>5, <1>2, <1>3, SMTT(60)
  <2>7. \A i \in n .. c.max : \E t \in kept : t.nonce = i
    <3> SUFFICES ASSUME NEW i \in n .. c.max PROVE \E t \in kept : t.nonce = i
      BY Zenon
    <3>1. i \in c.min .. c.max BY <1>2, <1>3, SMTT(60)
    <3>2. PICK t \in c.txs : t.nonce = i BY <3>1, Zenon DEF CacheOK
    <3> QED BY <3>2, <2>4, <1>3, SMTT(60)
  <2>8. low = n
    <3>1. \E i \in {t.nonce : t \in kept} : \A t \in kept : i <= t.nonce
      <4>1. n \in {t.nonce : t \in kept} BY <2>6, <2>7, <1>2, <1>3, SMTT(60)
      <4> QED BY <4>1, <2>2, <2>3, <1>2, <1>3, Zenon
    <3>2. low \in {t.nonce : t \in kept} /\ \A t \in kept : low <= t.nonce
      BY <3>1, Zenon
    <3> HIDE DEF low
    <3>3. PICK t \in kept : t.nonce = n BY <2>6, <2>7, <1>2, <1>3, SMTT(60)
    <3> QED BY <3>2, <3>3, <2>2, <2>3, <1>2, <1>3, SMTT(60)
  <2>9. high = c.max
    <3>1. c.max \in {t.nonce : t \in kept} BY <2>6, <2>7, <1>2, <1>3, SMTT(60)
    <3>2. \E i \in {t.nonce : t \in kept} : \A t \in kept : i >= t.nonce
      BY <3>1, <2>2, <2>3, <2>5, <1>2, Zenon
    <3>3. high \in {t.nonce : t \in kept} /\ \A t \in kept : high >= t.nonce
      BY <3>2, Zenon
    <3> HIDE DEF high
    <3>4. PICK t \in kept : t.nonce = c.max BY <3>1, Zenon
    <3> QED BY <3>3, <3>4, <2>2, <2>3, <2>5, <1>2, SMTT(60)
  <2> HIDE DEF low, high
  <2>10. /\ d.txs = kept /\ d.min = n /\ d.max = c.max /\ d.next = c.next
         /\ d.rank = [u \in Txs |-> IF u \in kept THEN c.rank[u] ELSE 0]
         /\ d.balances = c.balances /\ d.multisig = c.multisig
    BY <1>1, <2>8, <2>9, SMTT(30) DEF Caches
  <2>11. d \in Caches
    BY <1>1, <1>2, <1>3, <2>3, <2>8, <2>9, ZenonT(30) DEF Caches
  <2> HIDE DEF d
  <2>12. \A t \in kept : t \in c.txs /\ d.rank[t] = c.rank[t]
    BY <2>3, <2>10, <1>2, Zenon
  <2>13. NonceSeen(None, n) = n BY <1>3, NoneAssumption, SMTT(30) DEF NonceSeen
  <2>14. CacheOK(d, a, n)
    BY <1>2, <1>3, <2>2, <2>3, <2>5, <2>6, <2>7, <2>10, <2>11, <2>12, <2>13, SMTT(60) DEF CacheOK
  <2> QED BY <2>1, <2>3, <2>10, <2>14, Zenon
<1> QED BY <1>2, <1>3, <1>4, <1>5, SMTT(60)

-----------------------------------------------------------------------------
(* The steps                                                               *)

\* The known-hash flag is a Boolean whatever the configuration.
LEMMA KnownType == MayBeKnown \subseteq BOOLEAN
BY ZenonT(30) DEF MayBeKnown

\* Submitting a transaction that is accepted keeps the caches right.
LEMMA InsertOK ==
    ASSUME Inv, NEW t \in Txs, NEW known \in BOOLEAN,
           Accepted(txs, caches[t.src], t, known), Insert(t, known),
           UNCHANGED chain
    PROVE  /\ txs' \subseteq Txs
           /\ caches' \in [Accounts -> Caches \cup {None}]
           /\ CachesMatchTxs'
           /\ \A a \in Accounts : caches'[a] # None => CacheOK(caches'[a], a, nonces'[a])
<1> DEFINE s == t.src
           c == caches[s]
           d == Updated(c, multisigs[s], t, known)
<1>1. s \in Accounts BY TxAssumption, Zenon
<1>2. /\ caches \in [Accounts -> Caches \cup {None}] /\ c \in Caches \cup {None}
      /\ multisigs[s] \in Setups \cup {None} /\ txs \subseteq Txs
  BY <1>1, Zenon DEF Inv, TypeOK
<1>3. d \in Caches BY <1>2, UpdatedType, ZenonT(30)
<1>4. nonces' = nonces BY Zenon DEF chain
<1>5. CacheOK(d, s, nonces[s])
  <2>1. CASE c = None
    <3>1. t.nonce = NonceSeen(None, nonces[s]) BY <2>1, Zenon DEF Accepted, Verified
    <3> QED BY <3>1, <2>1, <1>2, UpdatedFirst, Zenon
  <2>2. CASE c # None
    <3>1. CacheOK(c, s, nonces[s]) BY <2>2, <1>1, Zenon DEF Inv
    <3>2. /\ t \notin txs /\ t.nonce = c.max + 1
          /\ \A x \in Assets : t.base[x] # None => BalanceSeen(c, balances[s], x) = t.base[x]
      BY <2>2, Zenon DEF Accepted, Verified, NonceSeen
    <3>3. t \notin c.txs
      <4>1. c.txs = {u \in txs : u.src = s} BY <2>2, <1>1, Zenon DEF Inv, CachesMatchTxs, TxsOf
      <4> QED BY <4>1, <3>2, Zenon
    <3> HIDE DEF c
    <3> QED BY <3>1, <3>2, <3>3, <1>2, UpdatedNext, ZenonT(30)
  <2> QED BY <2>1, <2>2, Zenon
<1>6. d.txs = TxsOf(c) \cup {t}
  <2>1. CASE c = None BY <2>1, SMTT(30) DEF Updated, TxsOf
  <2>2. CASE c # None BY <2>2, Zenon DEF Updated, TxsOf
  <2> QED BY <2>1, <2>2, Zenon
<1>7. caches' = [caches EXCEPT ![s] = d] /\ txs' = txs \cup {t} BY Zenon DEF Insert
<1>8. d # None BY <1>3, NoneAssumption, Zenon
<1> HIDE DEF d
<1>9. caches'[s] = d /\ \A a \in Accounts : a # s => caches'[a] = caches[a]
  BY <1>1, <1>2, <1>7, Zenon
<1>10. CachesMatchTxs'
  <2> SUFFICES ASSUME NEW a \in Accounts
               PROVE  TxsOf(caches'[a]) = {u \in txs' : u.src = a}
    BY Zenon DEF CachesMatchTxs, TxsOf
  <2>1. TxsOf(caches[a]) = {u \in txs : u.src = a} BY Zenon DEF Inv, CachesMatchTxs
  <2>2. CASE a = s BY <2>1, <2>2, <1>6, <1>7, <1>8, <1>9, Zenon DEF TxsOf
  <2>3. CASE a # s BY <2>1, <2>3, <1>7, <1>9, Zenon DEF TxsOf
  <2> QED BY <2>2, <2>3, Zenon
<1>11. ASSUME NEW a \in Accounts, caches'[a] # None
       PROVE  CacheOK(caches'[a], a, nonces'[a])
  <2>1. CASE a = s BY <2>1, <1>4, <1>5, <1>9, Zenon
  <2>2. CASE a # s
    <3>1. CacheOK(caches[a], a, nonces[a]) BY <2>2, <1>9, <1>11, Zenon DEF Inv
    <3> QED BY <3>1, <2>2, <1>4, <1>9, Zenon
  <2> QED BY <2>1, <2>2, Zenon
<1> QED BY <1>2, <1>3, <1>7, <1>10, <1>11, ZenonT(30)

\* clean_up brings every cache in line with the new chain and removes from the
\* pending set exactly what the caches lost.
LEMMA CleanUpOK ==
    ASSUME Inv, NEW n \in [Accounts -> Nonces], NEW b, NEW m, CleanUp(n, b, m)
    PROVE  /\ txs' \subseteq Txs
           /\ caches' \in [Accounts -> Caches \cup {None}]
           /\ CachesMatchTxs'
           /\ \A a \in Accounts : caches'[a] # None => CacheOK(caches'[a], a, n[a])
<1> DEFINE new(a) == Cleaned(caches[a], txs, n[a], b[a], m[a])
           lost == UNION {TxsOf(caches[a]) \ TxsOf(caches'[a]) : a \in Accounts}
<1>1. caches' = [a \in Accounts |-> IF caches[a] = None THEN None ELSE new(a)]
  BY Zenon DEF CleanUp
<1>2. txs' = txs \ lost BY <1>1, Zenon DEF CleanUp
<1>3. \A a \in Accounts : TxsOf(caches[a]) = {t \in txs : t.src = a}
  BY Zenon DEF Inv, CachesMatchTxs
<1>4. ASSUME NEW a \in Accounts, caches'[a] # None
      PROVE  /\ CacheOK(caches'[a], a, n[a])
             /\ caches'[a].txs \subseteq TxsOf(caches[a])
  <2>1. caches[a] # None /\ caches'[a] = new(a) /\ new(a) # None BY <1>1, <1>4, Zenon
  <2>2. CacheOK(caches[a], a, nonces[a]) BY <2>1, Zenon DEF Inv
  <2>3. caches[a].txs \subseteq txs BY <2>1, <1>3, Zenon DEF TxsOf
  <2>4. n[a] \in Nat \cup {None} BY ChainAssumption, ZenonT(30)
  <2>5. CacheOK(new(a), a, n[a]) /\ new(a).txs \subseteq caches[a].txs
    BY <2>1, <2>2, <2>3, <2>4, CleanedOK, ZenonT(30)
  <2> HIDE DEF new
  <2> QED BY <2>1, <2>5, Zenon DEF TxsOf
<1> HIDE DEF new
<1>5. \A a \in Accounts : caches'[a] \in Caches \cup {None}
  BY <1>4, Zenon DEF CacheOK
<1>6. caches' \in [Accounts -> Caches \cup {None}] BY <1>1, <1>5, Zenon
<1>7. \A a \in Accounts : TxsOf(caches'[a]) \subseteq TxsOf(caches[a])
  BY <1>4, Zenon DEF TxsOf
<1>8. CachesMatchTxs'
  <2> SUFFICES ASSUME NEW a \in Accounts
               PROVE  TxsOf(caches'[a]) = {t \in txs' : t.src = a}
    BY Zenon DEF CachesMatchTxs, TxsOf
  <2>1. \A t \in TxsOf(caches'[a]) : t \in txs' /\ t.src = a
    <3> SUFFICES ASSUME NEW t \in TxsOf(caches'[a]) PROVE t \in txs' /\ t.src = a
      BY Zenon
    <3>1. t \in txs /\ t.src = a BY <1>3, <1>7, Zenon
    <3>2. ASSUME NEW e \in Accounts, t \in TxsOf(caches[e]) \ TxsOf(caches'[e])
          PROVE  FALSE
      BY <3>1, <3>2, <1>3, Zenon
    <3> QED BY <3>1, <3>2, <1>2, Zenon
  <2>2. \A t \in txs' : t.src = a => t \in TxsOf(caches'[a])
    BY <1>2, <1>3, SMTT(60)
  <2> QED BY <2>1, <2>2, Zenon
<1>9. txs' \subseteq Txs BY <1>2, Zenon DEF Inv, TypeOK
<1> QED BY <1>4, <1>6, <1>8, <1>9, Zenon

\* The invariant holds of the empty mempool.
LEMMA InitInv == Init => Inv
<1> SUFFICES ASSUME Init PROVE Inv BY Zenon
<1>1. \A a \in Accounts : caches[a] = None BY Zenon DEF Init
<1>2. TypeOK BY Zenon DEF Init, TypeOK
<1>3. CachesMatchTxs BY <1>1, Zenon DEF Init, CachesMatchTxs, TxsOf
<1> QED BY <1>1, <1>2, <1>3, Zenon DEF Inv

\* An entry of the queue for a transaction has the shape of one.
LEMMA EntryType ==
    ASSUME NEW t \in Txs, NEW i \in Int, NEW j \in Nat
    PROVE  Entry(t, i, j) \in [tx: Txs, turn: Int, at: Nat]
BY Zenon DEF Entry

\* The queue after a rewind: the popped and the drained transactions.
LEMMA RewindQueue ==
    ASSUME TypeOK, NEW n, NEW b, NEW m, NEW popped \in Batches,
           NEW topo \in [popped -> 1 .. MaxPopped], Rewind(n, b, m, popped, topo)
    PROVE  queue' \subseteq [tx: Txs, turn: Int, at: Nat]
<1>1. popped \subseteq Txs BY ConfigAssumption, Zenon
<1>2. \A t \in popped : 0 - topo[t] \in Int /\ t.nonce \in Nat
  BY <1>1, TxAssumption, ConfigAssumption, SMTT(60)
<1>3. \A t \in txs : (IF caches[t.src] = None THEN 0 ELSE caches[t.src].rank[t]) \in Nat
  <2> SUFFICES ASSUME NEW t \in txs, caches[t.src] # None
               PROVE  caches[t.src].rank[t] \in Nat
    BY Zenon
  <2>1. t \in Txs /\ t.src \in Accounts BY TxAssumption, Zenon DEF TypeOK
  <2>2. caches[t.src] \in Caches BY <2>1, Zenon DEF TypeOK
  <2> QED BY <2>1, <2>2, Zenon DEF Caches
<1>4. {Entry(t, 0 - topo[t], t.nonce) : t \in popped} \subseteq [tx: Txs, turn: Int, at: Nat]
  BY <1>1, <1>2, EntryType, ZenonT(60)
<1>5. {Entry(t, 1, IF caches[t.src] = None THEN 0 ELSE caches[t.src].rank[t]) : t \in txs}
        \subseteq [tx: Txs, turn: Int, at: Nat]
  BY <1>3, EntryType, SMTT(60) DEF TypeOK
<1> QED BY <1>4, <1>5, Zenon DEF Rewind

\* Every step preserves the invariant.
LEMMA NextInv == Inv /\ [Next]_vars => Inv'
<1> SUFFICES ASSUME Inv, [Next]_vars PROVE Inv' BY Zenon
<1>t. TypeOK BY Zenon DEF Inv
<1>1. ASSUME NEW t \in Txs, NEW known \in MayBeKnown, AddTx(t, known)
      PROVE  Inv'
  <2>1. Accepted(txs, caches[t.src], t, known) /\ Insert(t, known) /\ UNCHANGED chain
    BY <1>1, Zenon DEF AddTx, chain
  <2>2. known \in BOOLEAN BY KnownType, Zenon
  <2>3. /\ txs' \subseteq Txs /\ caches' \in [Accounts -> Caches \cup {None}]
        /\ CachesMatchTxs'
        /\ \A a \in Accounts : caches'[a] # None => CacheOK(caches'[a], a, nonces'[a])
    BY <2>1, <2>2, InsertOK, Zenon
  <2>4. TypeOK' BY <1>1, <1>t, <2>3, Zenon DEF AddTx, TypeOK, chain
  <2> QED BY <2>3, <2>4, Zenon DEF Inv
<1>2. ASSUME NEW n \in [Accounts -> Nonces], NEW b \in [Accounts -> [Assets -> Amounts]],
             NEW m \in [Accounts -> Setups \cup {None}]
      PROVE  /\ \A orphans \in Batches, tracked \in BOOLEAN :
                  BlockAdded(n, b, m, orphans, tracked) => Inv'
             /\ \A popped \in Batches : \A topo \in [popped -> 1 .. MaxPopped] :
                  Rewind(n, b, m, popped, topo) => Inv'
             /\ Clear(n, b, m) => Inv'
  <2>1. ASSUME NEW orphans \in Batches, NEW tracked \in BOOLEAN,
               BlockAdded(n, b, m, orphans, tracked)
        PROVE  Inv'
    <3>1. /\ txs' \subseteq Txs /\ caches' \in [Accounts -> Caches \cup {None}]
          /\ CachesMatchTxs'
          /\ \A a \in Accounts : caches'[a] # None => CacheOK(caches'[a], a, n[a])
      <4>1. CleanUp(n, b, m) BY <2>1, Zenon DEF BlockAdded
      <4> QED BY <4>1, CleanUpOK, Zenon
    <3>2. nonces' = n /\ balances' = b /\ multisigs' = m
      BY <2>1, Zenon DEF BlockAdded, ChainTo
    <3>3. queue' \subseteq [tx: Txs, turn: Int, at: Nat]
      <4>1. orphans \subseteq Txs BY ConfigAssumption, Zenon
      <4>2. \A t \in orphans : Entry(t, 0, t.nonce) \in [tx: Txs, turn: Int, at: Nat]
        BY <4>1, EntryType, TxAssumption, SMTT(60)
      <4> QED BY <2>1, <4>2, Zenon DEF BlockAdded
    <3>4. TypeOK' BY <3>1, <3>2, <3>3, Zenon DEF TypeOK
    <3> QED BY <3>1, <3>2, <3>4, Zenon DEF Inv
  <2>2. ASSUME NEW popped \in Batches, NEW topo \in [popped -> 1 .. MaxPopped],
               Rewind(n, b, m, popped, topo)
        PROVE  Inv'
    <3>1. /\ nonces' = n /\ balances' = b /\ multisigs' = m
          /\ txs' = {} /\ caches' = [a \in Accounts |-> None]
      BY <2>2, Zenon DEF Rewind, ChainTo
    <3>2. queue' \subseteq [tx: Txs, turn: Int, at: Nat] BY <2>2, <1>t, RewindQueue, ZenonT(30)
    <3>3. TypeOK' BY <3>1, <3>2, Zenon DEF TypeOK
    <3>4. CachesMatchTxs' BY <3>1, Zenon DEF CachesMatchTxs, TxsOf
    <3> QED BY <3>1, <3>3, <3>4, Zenon DEF Inv
  <2>3. ASSUME Clear(n, b, m) PROVE Inv'
    <3>1. /\ nonces' = n /\ balances' = b /\ multisigs' = m
          /\ txs' = {} /\ caches' = [a \in Accounts |-> None] /\ queue' = queue
      BY <2>3, Zenon DEF Clear, ChainTo
    <3>2. TypeOK' BY <3>1, <1>t, Zenon DEF TypeOK
    <3>3. CachesMatchTxs' BY <3>1, Zenon DEF CachesMatchTxs, TxsOf
    <3> QED BY <3>1, <3>2, <3>3, Zenon DEF Inv
  <2> QED BY <2>1, <2>2, <2>3, Zenon
<1>3. ASSUME NEW e \in queue, NEW known \in MayBeKnown, ReAdd(e, known)
      PROVE  Inv'
  <2>1. e.tx \in Txs BY <1>t, Zenon DEF TypeOK
  <2>2. known \in BOOLEAN BY KnownType, Zenon
  <2>3. /\ Accepted(txs, caches[e.tx.src], e.tx, known) /\ Insert(e.tx, known)
        /\ UNCHANGED chain
    BY <1>3, SMTT(30) DEF ReAdd, chain
  <2>4. /\ txs' \subseteq Txs /\ caches' \in [Accounts -> Caches \cup {None}]
        /\ CachesMatchTxs'
        /\ \A a \in Accounts : caches'[a] # None => CacheOK(caches'[a], a, nonces'[a])
    BY <2>1, <2>2, <2>3, InsertOK, Zenon
  <2>5. TypeOK' BY <1>3, <1>t, <2>4, Zenon DEF ReAdd, TypeOK, chain
  <2> QED BY <2>4, <2>5, Zenon DEF Inv
<1>4. ASSUME NEW e \in queue, NEW known \in MayBeKnown, Refuse(e, known)
      PROVE  Inv'
  <2>1. e.tx \in Txs BY <1>t, Zenon DEF TypeOK
  <2>2. TypeOK' BY <2>1, <1>4, <1>t, Zenon DEF Refuse, TypeOK, chain
  <2>3. txs' = txs /\ caches' = caches /\ nonces' = nonces BY <1>4, SMTT(30) DEF Refuse, chain
  <2> QED BY <2>2, <2>3, Zenon DEF Inv, CachesMatchTxs, TxsOf
<1>5. CASE UNCHANGED vars
  <2>1. TypeOK' BY <1>5, <1>t, Zenon DEF vars, TypeOK
  <2> QED BY <2>1, <1>5, Zenon DEF vars, Inv, CachesMatchTxs, TxsOf
<1> QED BY <1>1, <1>2, <1>3, <1>4, <1>5, Zenon DEF Next, ChainMoves, Resubmit

-----------------------------------------------------------------------------
(* The theorems                                                            *)

\* The mempool and its caches keep their shape whatever is submitted and
\* however the chain moves.
THEOREM TypeCorrect == Spec => []TypeOK
<1>1. Inv => TypeOK BY Zenon DEF Inv
<1> QED BY <1>1, InitInv, NextInv, PTL DEF Spec

\* The pending set and the caches always agree: clean_up reaches every pending
\* transaction and leaves none behind.
THEOREM CachesAgree == Spec => []CachesMatchTxs
<1>1. Inv => CachesMatchTxs BY SMTT(30) DEF Inv
<1> QED BY <1>1, InitInv, NextInv, PTL DEF Spec

\* The nonces of an account's pending transactions are contiguous, used once
\* and in the order of arrival.
THEOREM NonceOrder == Spec => []NoncesContiguous
<1>1. Inv => NoncesContiguous BY SMTT(30) DEF Inv, CacheOK, NoncesContiguous
<1> QED BY <1>1, InitInv, NextInv, PTL DEF Spec

\* The pending transactions of an account start at the nonce its next
\* transaction must have on the chain.
THEOREM StartsAtChainNonce == Spec => []MinIsChainNonce
<1>1. Inv => MinIsChainNonce BY SMTT(30) DEF Inv, CacheOK, MinIsChainNonce
<1> QED BY <1>1, InitInv, NextInv, PTL DEF Spec

\* Consecutive pending transactions are compatible, which is what lets
\* clean_up verify only the first one left.
THEOREM NeighboursCompatible == Spec => []ConsecutiveCompatible
<1>1. Inv => ConsecutiveCompatible BY Zenon DEF Inv, CacheOK, ConsecutiveCompatible
<1> QED BY <1>1, InitInv, NextInv, PTL DEF Spec

\* As many transactions of a cache precede one as there are nonces between min
\* and its own: its position is what the index formula computes.
LEMMA PositionOf ==
    ASSUME NEW c, NEW a, NEW n, CacheOK(c, a, n), NEW t \in c.txs
    PROVE  Cardinality(Before(c, t)) = t.nonce - c.min
<1> DEFINE S == Before(c, t)
           T == c.min .. (t.nonce - 1)
           f == [u \in S |-> u.nonce]
<1>1. c.min \in Nat /\ c.txs \subseteq Txs BY Zenon DEF CacheOK, Caches
<1>2. \A u \in c.txs : u.nonce \in Nat /\ c.min <= u.nonce /\ u.nonce <= c.max
  BY <1>1, TxAssumption, Zenon DEF CacheOK
<1>3. S = {u \in c.txs : u.nonce < t.nonce} BY Zenon DEF CacheOK, Before
<1>4. c.max \in Nat BY Zenon DEF CacheOK, Caches
<1> HIDE DEF S
<1>5. f \in Injection(S, T)
  <2>1. f \in [S -> T] BY <1>1, <1>2, <1>3, SMTT(60)
  <2>2. \A u, v \in S : f[u] = f[v] => u = v
    <3>1. \A u, v \in c.txs : u.nonce = v.nonce => u = v BY Zenon DEF CacheOK
    <3> QED BY <3>1, <1>3, Zenon
  <2> HIDE DEF f, T
  <2> QED BY <2>1, <2>2, Zenon DEF Injection, IsInjective
<1>6. \A i \in T : \E u \in S : f[u] = i
  <2> SUFFICES ASSUME NEW i \in T PROVE \E u \in S : f[u] = i BY Zenon
  <2>1. i \in c.min .. c.max /\ i < t.nonce BY <1>1, <1>2, <1>4, SMTT(30)
  <2>2. PICK u \in c.txs : u.nonce = i BY <2>1, Zenon DEF CacheOK
  <2> QED BY <2>1, <2>2, <1>3, Zenon
<1>7. /\ IsFiniteSet(T)
      /\ Cardinality(T) = IF c.min > t.nonce - 1 THEN 0 ELSE t.nonce - 1 - c.min + 1
  <2>1. c.min \in Int /\ t.nonce - 1 \in Int BY <1>1, <1>2, SMTT(60)
  <2> QED BY <2>1, FS_Interval, Zenon
<1> HIDE DEF T, f
<1>8. f \in Surjection(S, T) BY <1>5, <1>6, Zenon DEF Injection, Surjection
<1>9. Cardinality(S) = Cardinality(T) BY <1>5, <1>7, <1>8, FS_Injection, Zenon
<1>10. Cardinality(S) = t.nonce - c.min BY <1>1, <1>2, <1>7, <1>9, SMTT(60)
<1> QED BY <1>10, Zenon DEF S

\* has_tx_with_same_nonce returns the pending transaction that has the nonce,
\* for every nonce in the range of the cache.
THEOREM LookupCorrect == Spec => []LookupExact
<1>1. ASSUME Inv PROVE LookupExact
  <2> SUFFICES ASSUME NEW a \in Accounts, caches[a] # None,
                      NEW i \in caches[a].min .. caches[a].max
               PROVE  SameNonce(caches[a], i) = {t \in caches[a].txs : t.nonce = i}
    BY Zenon DEF LookupExact
  <2> DEFINE c == caches[a]
  <2>1. CacheOK(c, a, nonces[a]) BY <1>1, SMTT(30) DEF Inv
  <2>2. c.min \in Nat /\ c.max \in Nat /\ c.txs \subseteq Txs /\ i \in Nat
    BY <2>1, SMTT(30) DEF CacheOK, Caches
  <2>3. \A t \in c.txs : t.nonce \in Nat /\ c.min <= t.nonce
    BY <2>1, <2>2, TxAssumption, SMTT(30) DEF CacheOK
  <2>4. c.txs # {} BY <2>1, Zenon DEF CacheOK
  <2>5. (i - c.min) % (c.max + 1 - c.min) = i - c.min
    <3>1. \A x, y \in Nat : x < y => x % y = x BY SMT
    <3>2. i - c.min \in Nat /\ c.max + 1 - c.min \in Nat /\ i - c.min < c.max + 1 - c.min
      BY <2>2, SMTT(60)
    <3> QED BY <3>1, <3>2, Zenon
  <2>6. \A t \in c.txs : Cardinality(Before(c, t)) = t.nonce - c.min
    BY <2>1, PositionOf, Zenon
  <2>7. SameNonce(c, i) = AtIndex(c, i - c.min)
    BY <2>2, <2>4, <2>5, SMTT(60) DEF SameNonce
  <2>8. \A t \in c.txs : t.nonce - c.min = i - c.min <=> t.nonce = i
    BY <2>2, <2>3, SMTT(60)
  <2> HIDE DEF c
  <2>9. SameNonce(c, i) = {t \in c.txs : t.nonce = i}
    BY <2>6, <2>7, <2>8, Zenon DEF AtIndex
  <2> QED BY <2>9, Zenon DEF c
<1> QED BY <1>1, InitInv, NextInv, PTL DEF Spec

=============================================================================
