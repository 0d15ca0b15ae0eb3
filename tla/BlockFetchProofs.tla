-------------------------- MODULE BlockFetchProofs --------------------------
(***************************************************************************)
(* Proofs about the fetching of announced blocks, for any peers, blocks,   *)
(* transactions and limits: pending_requests holds exactly the blocks      *)
(* being requested or added, each once, and a request of the ObjectTracker *)
(* that was never sent has its hash on the way to the requester.           *)
(*                                                                         *)
(* The first needs that no two futures or executions are for one block;    *)
(* the second that a future that is over waits for room no more.           *)
(***************************************************************************)
EXTENDS BlockFetch, FiniteSetTheorems, WellFoundedInduction, TLAPS

Ats == {"new", "sending", "listening", "over"}
Answers == {"none", "ok", "failed"}
FuturesOf(b) ==
    [peer : Peers, block : {b}, state : {"run", "ok", "failed"},
     at : [DOMAIN TxsOf[b] -> Ats], got : [DOMAIN TxsOf[b] -> Answers]]
Futures == UNION {FuturesOf(b) : b \in Blocks}
Requests == [tx : Txs, peer : Peers, state : {"new", "requested", "expired"}]

TypeOK ==
    /\ chain \subseteq Blocks /\ txs \subseteq Txs /\ closed \subseteq Peers
    /\ propagating \in Seq(Blocks)
    /\ handling \in [Peers -> Seq(Blocks)]
    /\ processor \in Seq(Peers \X Blocks)
    /\ pending \subseteq Blocks
    /\ futures \in Seq(Futures)
    /\ executor \in Seq(Blocks)
    /\ queue \in Seq(Requests)
    /\ channel \in Seq(Txs)
    /\ asked \in [Peers \X Txs -> Nat]
    /\ abandoned \subseteq Txs

\* A block is requested by one future or added by one execution, never both.
OneEach ==
    /\ \A i, j \in DOMAIN futures : futures[i].block = futures[j].block => i = j
    /\ \A i, j \in DOMAIN executor : executor[i] = executor[j] => i = j
    /\ \A i \in DOMAIN futures, j \in DOMAIN executor : futures[i].block # executor[j]

\* A future that is over sends nothing any more.
OverIsOver ==
    \A i \in DOMAIN futures : futures[i].state # "run" =>
        \A k \in DOMAIN futures[i].at : futures[i].at[k] = "over"

\* The inductive invariant.
Inv == TypeOK /\ OneEach /\ IsFiniteSet(pending) /\ PendingExact /\ OverIsOver /\ UnsentOnItsWay

-----------------------------------------------------------------------------
(* What is left of a queue                                                 *)

\* Every set of natural numbers has a least element.
LEMMA NatMin ==
    ASSUME NEW T \in SUBSET Nat, T # {}
    PROVE  \E x \in T : \A y \in T : x <= y
<1>1. IsWellFoundedOn(OpToRel(<, Nat), Nat) BY NatLessThanWellFounded, Zenon
<1>2. PICK x \in T : \A y \in T : ~(<<y, x>> \in OpToRel(<, Nat))
  BY <1>1, WFMin, Zenon
<1>3. \A y \in T : ~(y < x)
  BY <1>2, Zenon DEF OpToRel
<1> QED BY <1>3, SMTT(60)

\* A set of positions has a last one.
LEMMA LastPosition ==
    ASSUME NEW m \in Nat, NEW K \in SUBSET (1..m), K # {}
    PROVE  \E x \in K : \A y \in K : y <= x
<1> DEFINE T == {n \in Nat : \E x \in K : n = m - x}
<1>1. T \in SUBSET Nat /\ T # {}
  <2>1. PICK x \in K : TRUE BY Zenon
  <2>2. m - x \in T BY SMTT(60)
  <2> QED BY <2>2, Zenon
<1>2. PICK n \in T : \A y \in T : n <= y BY <1>1, NatMin, Zenon
<1>3. PICK x \in K : n = m - x BY <1>2, Zenon
<1>4. ASSUME NEW y \in K PROVE y <= x
  <2>1. m - y \in T BY SMTT(60)
  <2> QED BY <1>2, <1>3, <2>1, SMTT(60)
<1> QED BY <1>4, Zenon

\* Positions can be counted in their order.
Increasing(f) == \A i, j \in DOMAIN f : i < j => f[i] < f[j]

LEMMA Enumerable ==
    ASSUME NEW m \in Nat, NEW K \in SUBSET (1..m)
    PROVE  /\ Cardinality(K) \in Nat
           /\ \E f \in [1..Cardinality(K) -> K] : Increasing(f)
<1>1. ASSUME NEW S \in SUBSET (1..m) PROVE IsFiniteSet(S) /\ Cardinality(S) \in Nat
  <2>1. IsFiniteSet(1..m) BY FS_Interval, SMTT(60)
  <2>2. IsFiniteSet(S) BY <1>1, <2>1, FS_Subset, Zenon
  <2> QED BY <2>2, FS_CardinalityType, Zenon
<1> DEFINE Good(S) == \E f \in [1..Cardinality(S) -> S] : Increasing(f)
           Bad == {n \in Nat : \E S \in SUBSET (1..m) : n = Cardinality(S) /\ ~Good(S)}
<1>2. ASSUME Bad # {} PROVE FALSE
  <2>1. PICK n \in Bad : \A y \in Bad : n <= y BY <1>2, NatMin, Zenon
  <2>2. PICK S \in SUBSET (1..m) : n = Cardinality(S) /\ ~Good(S) BY <2>1, Zenon
  <2>3. CASE S = {}
    <3>1. Cardinality(S) = 0 BY <2>3, FS_EmptySet, Zenon
    <3>2. [i \in 1..0 |-> 0] \in [1..Cardinality(S) -> S] BY <3>1, SMTT(60)
    <3>3. Increasing([i \in 1..0 |-> 0]) BY SMTT(60) DEF Increasing
    <3> QED BY <2>2, <3>2, <3>3, Zenon
  <2>4. CASE S # {}
    <3>1. PICK x \in S : \A y \in S : y <= x BY <2>4, LastPosition, Zenon
    <3>2. S \ {x} \in SUBSET (1..m) BY Zenon
    <3>3. Cardinality(S \ {x}) = n - 1 BY <1>1, <2>2, FS_RemoveElement, Zenon
    <3>4. Cardinality(S \ {x}) \in Nat /\ n \in Nat BY <1>1, <3>2, Zenon
    <3>5. Good(S \ {x}) BY <2>1, <3>2, <3>3, <3>4, SMTT(60)
    <3>6. PICK f \in [1..n - 1 -> S \ {x}] : Increasing(f) BY <3>3, <3>5, Zenon
    <3> DEFINE g == [i \in 1..n |-> IF i = n THEN x ELSE f[i]]
    <3>7. g \in [1..Cardinality(S) -> S] BY <2>2, <3>4, <3>6, SMTT(60)
    <3>8. Increasing(g)
      <4> SUFFICES ASSUME NEW i \in 1..n, NEW j \in 1..n, i < j PROVE g[i] < g[j]
        BY Zenon DEF Increasing
      <4>1. i \in 1..n - 1 /\ g[i] = f[i] /\ f[i] \in S \ {x} BY <3>4, <3>6, SMTT(60)
      <4>2. CASE j = n
        <5>1. g[j] = x BY <4>2, Zenon
        <5>2. f[i] <= x /\ f[i] # x BY <3>1, <4>1, Zenon
        <5>3. f[i] \in 1..m /\ x \in 1..m BY <4>1, Zenon
        <5> QED BY <4>1, <5>1, <5>2, <5>3, SMTT(60)
      <4>3. CASE j # n
        <5>1. j \in 1..n - 1 /\ g[j] = f[j] BY <3>4, <4>3, SMTT(60)
        <5>2. DOMAIN f = 1..n - 1 BY <3>6, Zenon
        <5> QED BY <3>6, <4>1, <5>1, <5>2, Zenon DEF Increasing
      <4> QED BY <4>2, <4>3, Zenon
    <3> QED BY <2>2, <3>7, <3>8, Zenon
  <2> QED BY <2>3, <2>4, Zenon
<1> QED BY <1>1, <1>2, Zenon

\* What is kept was there, and is a sequence again.
LEMMA KeptIs ==
    ASSUME NEW S, NEW q \in Seq(S), NEW K \in SUBSET DOMAIN q
    PROVE  /\ Kept(q, K) \in Seq(S)
           /\ \A i \in DOMAIN Kept(q, K) : \E k \in K : Kept(q, K)[i] = q[k]
<1> DEFINE n == Cardinality(K)
           f == CHOOSE f \in [1..n -> K] : \A i, j \in DOMAIN f : i < j => f[i] < f[j]
<1>1. n \in Nat /\ \E g \in [1..n -> K] : \A i, j \in DOMAIN g : i < j => g[i] < g[j]
  <2>1. Len(q) \in Nat /\ K \in SUBSET (1..Len(q)) BY SMTT(60)
  <2> QED BY <2>1, Enumerable, Zenon DEF Increasing
<1>2. f \in [1..n -> K] BY <1>1, Zenon
<1>3. Kept(q, K) = [i \in 1..n |-> q[f[i]]] BY Zenon DEF Kept
<1> HIDE DEF f, n
<1> QED BY <1>1, <1>2, <1>3, SMTT(60)

LEMMA TailIs ==
    ASSUME NEW S, NEW s \in Seq(S), s # <<>>
    PROVE  /\ Tail(s) \in Seq(S) /\ Len(s) = Len(Tail(s)) + 1
           /\ Head(s) = s[1] /\ Head(s) \in S /\ 1 \in DOMAIN s
           /\ \A j \in DOMAIN Tail(s) : j + 1 \in DOMAIN s /\ j + 1 # 1 /\ Tail(s)[j] = s[j + 1]
           /\ \A j \in DOMAIN s : j = 1 \/ (j - 1 \in DOMAIN Tail(s) /\ Tail(s)[j - 1] = s[j])
<1>1. Len(s) \in Nat /\ Len(s) > 0 BY SMTT(60)
<1>2. Tail(s) \in Seq(S) /\ Len(Tail(s)) = Len(s) - 1 BY <1>1, SMTT(60)
<1>3. DOMAIN Tail(s) = 1..(Len(s) - 1) /\ DOMAIN s = 1..Len(s) BY <1>1, <1>2, SMTT(60)
<1>4. \A j \in 1..(Len(s) - 1) : Tail(s)[j] = s[j + 1] BY <1>1, SMTT(60)
<1>5. Head(s) = s[1] /\ 1 \in DOMAIN s /\ Head(s) \in S BY <1>1, <1>3, SMTT(60)
<1> QED BY <1>1, <1>2, <1>3, <1>4, <1>5, SMTT(60)

LEMMA AppendIs ==
    ASSUME NEW S, NEW s \in Seq(S), NEW e \in S
    PROVE  /\ Append(s, e) \in Seq(S) /\ Len(Append(s, e)) = Len(s) + 1 /\ Len(s) \in Nat
           /\ DOMAIN Append(s, e) = DOMAIN s \cup {Len(s) + 1} /\ Len(s) + 1 \notin DOMAIN s
           /\ Append(s, e)[Len(s) + 1] = e
           /\ \A j \in DOMAIN s : Append(s, e)[j] = s[j]
<1>1. Append(s, e) \in Seq(S) /\ Len(Append(s, e)) = Len(s) + 1 /\ Len(s) \in Nat BY SMTT(60)
<1>2. DOMAIN Append(s, e) = 1..(Len(s) + 1) /\ DOMAIN s = 1..Len(s) BY <1>1, SMTT(60)
<1>3. \A j \in 1..Len(s) : Append(s, e)[j] = s[j] BY SMTT(60)
<1>4. Append(s, e)[Len(s) + 1] = e BY SMTT(60)
<1> QED BY <1>1, <1>2, <1>3, <1>4, SMTT(60)

-----------------------------------------------------------------------------
(* One future                                                              *)

LEMMA FutureShape ==
    ASSUME NEW f \in Futures
    PROVE  /\ f.block \in Blocks /\ f.peer \in Peers /\ f \in FuturesOf(f.block)
           /\ f.state \in {"run", "ok", "failed"}
           /\ f.at \in [DOMAIN TxsOf[f.block] -> Ats]
           /\ f.got \in [DOMAIN TxsOf[f.block] -> Answers]
           /\ \A k \in DOMAIN f.at : TxsOf[f.block][k] \in Txs
<1>1. PICK b \in Blocks : f \in FuturesOf(b) BY Zenon DEF Futures
<1>2. f.block = b BY <1>1, Zenon DEF FuturesOf
<1>3. TxsOf[b] \in Seq(Txs) BY BlockFetchAssumption, Zenon
<1>4. /\ f.peer \in Peers /\ f.state \in {"run", "ok", "failed"}
      /\ f.at \in [DOMAIN TxsOf[b] -> Ats] /\ f.got \in [DOMAIN TxsOf[b] -> Answers]
  BY <1>1, Zenon DEF FuturesOf
<1>5. \A k \in DOMAIN f.at : TxsOf[b][k] \in Txs BY <1>3, <1>4, SMTT(60)
<1> QED BY <1>1, <1>2, <1>4, <1>5, Zenon

LEMMA NewFutureShape ==
    ASSUME NEW p \in Peers, NEW b \in Blocks
    PROVE  /\ NewFuture(p, b) \in Futures /\ NewFuture(p, b).block = b
           /\ NewFuture(p, b).state = "run"
<1>1. NewFuture(p, b) \in FuturesOf(b) BY Zenon DEF NewFuture, FuturesOf, Ats, Answers
<1> QED BY <1>1, Zenon DEF Futures, NewFuture

\* The future of a transaction moves on, and may have its answer at once.
Moved(f, k, a) == [f EXCEPT !.at[k] = a]
MovedAnswered(f, k, a) == [f EXCEPT !.at[k] = a, !.got[k] = "ok"]

LEMMA MovedShape ==
    ASSUME NEW f \in Futures, NEW k \in DOMAIN f.at, NEW a \in Ats, NEW h,
           h = Moved(f, k, a) \/ h = MovedAnswered(f, k, a)
    PROVE  /\ h \in Futures /\ h.block = f.block /\ h.state = f.state
           /\ h.at = [f.at EXCEPT ![k] = a]
<1> DEFINE b == f.block
           ats == [f.at EXCEPT ![k] = a]
           gots == [f.got EXCEPT ![k] = "ok"]
<1>1. /\ b \in Blocks /\ f \in FuturesOf(b) /\ f.at \in [DOMAIN TxsOf[b] -> Ats]
      /\ f.got \in [DOMAIN TxsOf[b] -> Answers]
  BY FutureShape, Zenon
<1>2. ats \in [DOMAIN TxsOf[b] -> Ats] /\ gots \in [DOMAIN TxsOf[b] -> Answers]
  BY <1>1, Zenon DEF Answers
<1>3. h = [f EXCEPT !.at = ats] \/ h = [f EXCEPT !.at = ats, !.got = gots]
  BY <1>1, Zenon DEF FuturesOf, Moved, MovedAnswered
<1> HIDE DEF ats, gots
<1>4. h \in FuturesOf(b) /\ h.block = b /\ h.state = f.state /\ h.at = ats
  BY <1>1, <1>2, <1>3, Zenon DEF FuturesOf
<1> QED BY <1>1, <1>4, Zenon DEF Futures, ats

LEMMA OverShape ==
    ASSUME NEW f \in Futures, NEW s \in {"ok", "failed"}
    PROVE  /\ Over(f, s) \in Futures /\ Over(f, s).block = f.block /\ Over(f, s).state = s
           /\ \A k \in DOMAIN Over(f, s).at : Over(f, s).at[k] = "over"
<1> DEFINE b == f.block
<1>1. /\ b \in Blocks /\ f \in FuturesOf(b) /\ f.at \in [DOMAIN TxsOf[b] -> Ats]
      /\ f.got \in [DOMAIN TxsOf[b] -> Answers]
  BY FutureShape, Zenon
<1> DEFINE ats == [i \in DOMAIN TxsOf[b] |-> "over"]
           gots == [i \in DOMAIN TxsOf[b] |-> "none"]
<1>2. Over(f, s) = [f EXCEPT !.state = s, !.at = ats, !.got = gots]
  BY <1>1, Zenon DEF Over, FuturesOf
<1>3. ats \in [DOMAIN TxsOf[b] -> Ats] /\ gots \in [DOMAIN TxsOf[b] -> Answers]
  BY Zenon DEF Ats, Answers
<1>4. \A k \in DOMAIN ats : ats[k] = "over" BY Zenon
<1> HIDE DEF ats, gots
<1>5. Over(f, s) \in FuturesOf(b) BY <1>1, <1>2, <1>3, Zenon DEF FuturesOf
<1>6. Over(f, s).block = b /\ Over(f, s).state = s /\ Over(f, s).at = ats
  BY <1>1, <1>2, Zenon DEF FuturesOf
<1> QED BY <1>1, <1>4, <1>5, <1>6, Zenon DEF Futures

\* An answer is told to the listeners; where the futures are does not change.
LEMMA NotifyShape ==
    ASSUME futures \in Seq(Futures), NEW T, NEW answer \in Answers
    PROVE  /\ Notify(T, answer) \in Seq(Futures)
           /\ DOMAIN Notify(T, answer) = DOMAIN futures
           /\ Len(Notify(T, answer)) = Len(futures)
           /\ \A i \in DOMAIN futures :
                 /\ Notify(T, answer)[i].block = futures[i].block
                 /\ Notify(T, answer)[i].state = futures[i].state
                 /\ Notify(T, answer)[i].at = futures[i].at
<1> DEFINE told(i) == [k \in DOMAIN futures[i].got |->
                IF TxsOf[futures[i].block][k] \in T /\ futures[i].at[k] \in {"sending", "listening"}
                   /\ futures[i].got[k] = "none"
                THEN answer ELSE futures[i].got[k]]
           g(i) == [futures[i] EXCEPT !.got = told(i)]
<1>1. Notify(T, answer) = [i \in DOMAIN futures |-> g(i)] BY Zenon DEF Notify
<1>2. ASSUME NEW i \in DOMAIN futures
      PROVE  /\ g(i) \in Futures /\ g(i).block = futures[i].block
             /\ g(i).state = futures[i].state /\ g(i).at = futures[i].at
  <2> DEFINE b == futures[i].block
  <2>1. futures[i] \in Futures BY SMTT(60)
  <2>2. /\ b \in Blocks /\ futures[i] \in FuturesOf(b)
        /\ futures[i].got \in [DOMAIN TxsOf[b] -> Answers]
    BY <2>1, FutureShape, Zenon
  <2>3. told(i) \in [DOMAIN TxsOf[b] -> Answers] BY <2>2, Zenon
  <2> HIDE DEF told
  <2>4. g(i) \in FuturesOf(b) /\ g(i).block = b
        /\ g(i).state = futures[i].state /\ g(i).at = futures[i].at
    BY <2>2, <2>3, Zenon DEF FuturesOf
  <2> QED BY <2>2, <2>4, Zenon DEF Futures
<1> HIDE DEF g
<1> QED BY <1>1, <1>2, SMTT(60)

-----------------------------------------------------------------------------
(* Steps that leave the requests alone                                     *)

LEMMA InitInv == Init => Inv
<1> SUFFICES ASSUME Init PROVE Inv BY Zenon
<1>1. TypeOK BY SMTT(60) DEF Init, TypeOK
<1>2. OneEach /\ OverIsOver /\ UnsentOnItsWay
    BY SMTT(60) DEF Init, OneEach, OverIsOver, UnsentOnItsWay
<1>3. IsFiniteSet(pending) /\ Cardinality(pending) = 0 BY FS_EmptySet, Zenon DEF Init
<1>4. BlocksOf(futures) \cup Range(executor) = {} BY SMTT(60) DEF Init, BlocksOf, Range
<1>5. PendingExact BY <1>3, <1>4, SMTT(60) DEF Init, PendingExact
<1> QED BY <1>1, <1>2, <1>3, <1>5, Zenon DEF Inv

LEMMA PutType ==
    ASSUME NEW q \in Seq(Blocks), NEW b \in Blocks
    PROVE  Put(q, b) \in Seq(Blocks)
<1> DEFINE K == {i \in DOMAIN q : q[i] # b}
           r == Append(Kept(q, K), b)
<1>1. Kept(q, K) \in Seq(Blocks) BY KeptIs, Zenon
<1>2. r \in Seq(Blocks) /\ Len(r) > 0 /\ Len(r) \in Nat BY <1>1, SMTT(60)
<1> HIDE DEF r
<1>3. r # <<>> BY <1>2, SMTT(60)
<1>4. Tail(r) \in Seq(Blocks) BY <1>2, <1>3, SMTT(60)
<1> QED BY <1>2, <1>4, Zenon DEF Put, r

LEMMA OutsideSteps ==
    ASSUME Inv,
           \/ \E p \in Peers : (\E b \in Blocks : Announce(p, b)) \/ Enqueue(p) \/ ClosePeer(p)
           \/ \E t \in Gossiped : LearnTx(t)
           \/ UNCHANGED vars
    PROVE  Inv'
<1>1. /\ UNCHANGED <<pending, futures, executor, queue, channel, abandoned>>
  BY Zenon DEF Announce, Enqueue, ClosePeer, LearnTx, task, tracker, vars
<1>2. (OneEach /\ IsFiniteSet(pending) /\ PendingExact /\ OverIsOver /\ UnsentOnItsWay)'
  BY <1>1, SMTT(60) DEF Inv, OneEach, PendingExact, OverIsOver, UnsentOnItsWay
<1>3. TypeOK'
  <2>1. CASE \E p \in Peers, b \in Blocks : Announce(p, b)
    BY <2>1, SMTT(60) DEF Inv, TypeOK, Announce, node, task, tracker
  <2>2. ASSUME NEW p \in Peers, Enqueue(p) PROVE TypeOK'
    <3>1. handling[p] \in Seq(Blocks) /\ handling[p] # <<>> BY <2>2, Zenon DEF Inv, TypeOK, Enqueue
    <3>2. handling[p][1] \in Blocks BY <3>1, SMTT(60)
    <3>3. propagating' \in Seq(Blocks) BY <2>2, <3>2, PutType, Zenon DEF Inv, TypeOK, Enqueue
    <3>4. processor' \in Seq(Peers \X Blocks) BY <2>2, <3>2, SMTT(60) DEF Inv, TypeOK, Enqueue
    <3>5. handling' \in [Peers -> Seq(Blocks)] BY <2>2, SMTT(60) DEF Inv, TypeOK, Enqueue
    <3> QED BY <1>1, <2>2, <3>3, <3>4, <3>5, Zenon DEF Inv, TypeOK, Enqueue, node, tracker
  <2>3. ASSUME NEW p \in Peers, ClosePeer(p) PROVE TypeOK'
    <3>1. handling' \in [Peers -> Seq(Blocks)] BY <2>3, SMTT(60) DEF Inv, TypeOK, ClosePeer
    <3>2. asked' \in [Peers \X Txs -> Nat] BY <2>3, Zenon DEF Inv, TypeOK, ClosePeer
    <3> QED BY <1>1, <2>3, <3>1, <3>2, Zenon DEF Inv, TypeOK, ClosePeer, node, task
  <2>4. CASE \E t \in Gossiped : LearnTx(t)
    BY <1>1, <2>4, BlockFetchAssumption, Zenon DEF Inv, TypeOK, LearnTx, caches, task, tracker
  <2>5. CASE UNCHANGED vars
    BY <2>5, Zenon DEF Inv, TypeOK, vars
  <2> QED BY <2>1, <2>2, <2>3, <2>4, <2>5, Zenon
<1> QED BY <1>2, <1>3, Zenon DEF Inv

-----------------------------------------------------------------------------
(* The futures of the block task                                           *)

\* A step after which the same blocks are requested, in the same order.
LEMMA SameBlocks ==
    ASSUME Inv, UNCHANGED <<pending, executor>>,
           futures' \in Seq(Futures), Len(futures') = Len(futures),
           \A i \in DOMAIN futures : futures'[i].block = futures[i].block
    PROVE  OneEach' /\ PendingExact' /\ IsFiniteSet(pending)'
<1>1. futures \in Seq(Futures) BY Zenon DEF Inv, TypeOK
<1>2. DOMAIN futures' = DOMAIN futures BY <1>1, SMTT(60)
<1>3. OneEach' BY <1>2, SMTT(60) DEF Inv, OneEach
<1>4. BlocksOf(futures') = BlocksOf(futures) BY <1>2, Zenon DEF BlocksOf
<1>5. PendingExact' BY <1>4, Zenon DEF Inv, PendingExact
<1> QED BY <1>3, <1>5, Zenon DEF Inv

\* One future is replaced by a later state of its own.
LEMMA Replaced ==
    ASSUME Inv, UNCHANGED <<pending, executor>>,
           NEW i \in DOMAIN futures, NEW g \in Futures, g.block = futures[i].block,
           g.state # "run" => \A k \in DOMAIN g.at : g.at[k] = "over",
           futures' = [futures EXCEPT ![i] = g]
    PROVE  /\ futures' \in Seq(Futures) /\ DOMAIN futures' = DOMAIN futures
           /\ OneEach' /\ PendingExact' /\ IsFiniteSet(pending)' /\ OverIsOver'
<1>1. futures \in Seq(Futures) BY Zenon DEF Inv, TypeOK
<1>2. futures' \in Seq(Futures) /\ DOMAIN futures' = DOMAIN futures /\ Len(futures') = Len(futures)
  BY <1>1, SMTT(60)
<1>3. \A j \in DOMAIN futures : futures'[j] = IF j = i THEN g ELSE futures[j] BY <1>1, Zenon
<1>4. \A j \in DOMAIN futures : futures'[j].block = futures[j].block BY <1>3, Zenon
<1>5. OverIsOver' BY <1>2, <1>3, Zenon DEF Inv, OverIsOver
<1>6. OneEach' /\ PendingExact' /\ IsFiniteSet(pending)' BY <1>2, <1>4, SameBlocks, Zenon
<1> QED BY <1>2, <1>5, <1>6, Zenon

\* A future of transaction t waits for room in the channel.
Sending(fs, t) ==
    \E i \in DOMAIN fs : \E k \in DOMAIN fs[i].at :
        fs[i].at[k] = "sending" /\ TxsOf[fs[i].block][k] = t

LEMMA Appended ==
    ASSUME channel \in Seq(Txs), NEW t \in Txs, channel' = Append(channel, t)
    PROVE  /\ channel' \in Seq(Txs) /\ t \in Range(channel')
           /\ \A u : u \in Range(channel) => u \in Range(channel')
BY AppendIs, SMTT(60) DEF Range

LEMMA RequestStep ==
    ASSUME Inv, NEW i \in DOMAIN futures, NEW k \in DOMAIN futures[i].at, Request(i, k)
    PROVE  Inv'
<1> DEFINE f == futures[i]
           t == TxsOf[f.block][k]
<1>1. f \in Futures /\ futures \in Seq(Futures) /\ channel \in Seq(Txs) /\ queue \in Seq(Requests)
  BY SMTT(60) DEF Inv, TypeOK
<1>2. t \in Txs /\ f.peer \in Peers /\ f.state = "run" /\ f.at[k] = "new"
      /\ f.at \in [DOMAIN TxsOf[f.block] -> Ats]
  BY <1>1, FutureShape, Zenon DEF Request
<1>3. UNCHANGED <<abandoned, chain, txs, closed, propagating, handling, processor, pending,
                  executor, asked>>
  BY Zenon DEF Request, node, caches
<1>4. PICK a \in {"listening", "sending"} : \E g :
         /\ g = Moved(f, k, a) \/ g = MovedAnswered(f, k, a)
         /\ futures' = [futures EXCEPT ![i] = g]
         /\ \/ UNCHANGED <<queue, channel>>
            \/ /\ queue' = Append(queue, Entry(f.peer, t))
               /\ \/ channel' = Append(channel, t)
                  \/ UNCHANGED channel /\ a = "sending"
  <2>1. CASE t \in txs
    <3>1. futures' = [futures EXCEPT ![i].at[k] = "listening", ![i].got[k] = "ok"]
          /\ UNCHANGED <<queue, channel>>
      BY <2>1, Zenon DEF Request
    <3>2. futures' = [futures EXCEPT ![i] = MovedAnswered(f, k, "listening")]
      BY <3>1, Zenon DEF MovedAnswered
    <3> QED BY <3>1, <3>2, Zenon
  <2>2. CASE t \notin txs /\ Tracked(t)
    <3>1. futures' = [futures EXCEPT ![i] = Moved(f, k, "listening")] /\ UNCHANGED <<queue, channel>>
      BY <2>2, Zenon DEF Request, Moved
    <3> QED BY <3>1, Zenon
  <2>3. CASE t \notin txs /\ ~Tracked(t)
    <3>1. /\ futures' = [futures EXCEPT ![i] = Moved(f, k, IF Room THEN "listening" ELSE "sending")]
          /\ queue' = Append(queue, Entry(f.peer, t))
          /\ channel' = IF Room THEN Append(channel, t) ELSE channel
      BY <2>3, Zenon DEF Request, Moved
    <3> QED BY <3>1, Zenon
  <2> QED BY <2>1, <2>2, <2>3, Zenon
<1>41. PICK g :
         /\ g = Moved(f, k, a) \/ g = MovedAnswered(f, k, a)
         /\ futures' = [futures EXCEPT ![i] = g]
         /\ \/ UNCHANGED <<queue, channel>>
            \/ /\ queue' = Append(queue, Entry(f.peer, t))
               /\ \/ channel' = Append(channel, t)
                  \/ UNCHANGED channel /\ a = "sending"
  BY <1>4, Zenon
<1>5. /\ g \in Futures /\ g.block = f.block /\ g.state = "run"
      /\ g.at = [f.at EXCEPT ![k] = a]
  <2>1. a \in Ats /\ k \in DOMAIN f.at BY Zenon DEF Ats
  <2>2. f \in Futures BY <1>1, Zenon
  <2>3. g = Moved(f, k, a) \/ g = MovedAnswered(f, k, a) BY <1>41, Zenon
  <2> HIDE DEF f
  <2>4. g \in Futures /\ g.block = f.block /\ g.state = f.state
        /\ g.at = [f.at EXCEPT ![k] = a]
    BY <2>1, <2>2, <2>3, MovedShape, SMTT(60)
  <2> QED BY <1>2, <2>4, Zenon
<1>6. /\ futures' \in Seq(Futures) /\ DOMAIN futures' = DOMAIN futures
      /\ OneEach' /\ PendingExact' /\ IsFiniteSet(pending)' /\ OverIsOver'
  BY <1>1, <1>3, <1>41, <1>5, Replaced, Zenon
<1>7. Entry(f.peer, t) \in Requests BY <1>2, Zenon DEF Entry, Requests
<1>8. queue' \in Seq(Requests)
  <2> DEFINE e == Entry(f.peer, t)
  <2>1. queue' = queue \/ queue' = Append(queue, e) BY <1>41, Zenon
  <2>2. e \in Requests BY <1>7, Zenon
  <2>3. queue \in Seq(Requests) BY <1>1, Zenon
  <2> HIDE DEF e, f, t
  <2>4. Append(queue, e) \in Seq(Requests) BY <2>2, <2>3, SMTT(60)
  <2> QED BY <2>1, <2>3, <2>4, Zenon
<1>9. channel' \in Seq(Txs) /\ \A u : u \in Range(channel) => u \in Range(channel')
  BY <1>1, <1>2, <1>41, Appended, Zenon
<1>10. TypeOK' BY <1>3, <1>6, <1>8, <1>9, Zenon DEF Inv, TypeOK
<1>11. \A u : Sending(futures, u) => Sending(futures', u)
  <2> SUFFICES ASSUME NEW u, Sending(futures, u) PROVE Sending(futures', u) BY Zenon
  <2>1. PICK j \in DOMAIN futures : \E l \in DOMAIN futures[j].at :
           futures[j].at[l] = "sending" /\ TxsOf[futures[j].block][l] = u
    BY Zenon DEF Sending
  <2> PICK l \in DOMAIN futures[j].at :
         futures[j].at[l] = "sending" /\ TxsOf[futures[j].block][l] = u
    BY <2>1, Zenon
  <2>2. futures'[j].at[l] = "sending" /\ futures'[j].block = futures[j].block
        /\ l \in DOMAIN futures'[j].at
    BY <1>1, <1>2, <1>41, <1>5, <2>1, Zenon
  <2> QED BY <1>6, <2>1, <2>2, Zenon DEF Sending
<1>12. UnsentOnItsWay'
  <2> SUFFICES ASSUME NEW q \in DOMAIN queue', queue'[q].state = "new"
               PROVE  \/ queue'[q].tx \in Range(channel') \/ queue'[q].tx \in abandoned'
                      \/ Sending(futures', queue'[q].tx)
    BY Zenon DEF UnsentOnItsWay, Sending
  <2>1. CASE q \in DOMAIN queue /\ queue'[q] = queue[q]
    <3>1. \/ queue[q].tx \in Range(channel) \/ queue[q].tx \in abandoned \/ Sending(futures, queue[q].tx)
      BY <2>1, Zenon DEF Inv, UnsentOnItsWay, Sending
    <3> QED BY <1>3, <1>9, <1>11, <2>1, <3>1, Zenon
  <2>2. CASE /\ queue' = Append(queue, Entry(f.peer, t)) /\ q = Len(queue) + 1
    <3>1. queue'[q].tx = t BY <1>1, <2>2, SMTT(60) DEF Entry
    <3>2. CASE channel' = Append(channel, t) BY <1>1, <1>2, <3>1, <3>2, Appended, Zenon
    <3>3. CASE UNCHANGED channel /\ a = "sending"
      <4>1. i \in DOMAIN futures' /\ futures'[i] = g BY <1>1, <1>41, <1>6, Zenon
      <4>2. k \in DOMAIN g.at /\ g.at[k] = "sending" /\ TxsOf[g.block][k] = t
        BY <1>2, <1>5, <3>3, Zenon
      <4> QED BY <3>1, <4>1, <4>2, Zenon DEF Sending
    <3>4. queue' # queue
      <4>1. Len(queue') = Len(queue) + 1 /\ Len(queue) \in Nat BY <1>1, <1>7, <2>2, SMTT(60)
      <4> QED BY <4>1, SMTT(60)
    <3> QED BY <1>41, <3>2, <3>3, <3>4, Zenon
  <2>3. \/ q \in DOMAIN queue /\ queue'[q] = queue[q]
        \/ queue' = Append(queue, Entry(f.peer, t)) /\ q = Len(queue) + 1
    <3> DEFINE e == Entry(f.peer, t)
    <3>1. queue' = queue \/ queue' = Append(queue, e) BY <1>41, Zenon
    <3> HIDE DEF e
    <3>2. CASE queue' = Append(queue, e)
      <4>1. Len(queue') = Len(queue) + 1 /\ Len(queue) \in Nat BY <1>1, <3>2, SMTT(60)
      <4>2. DOMAIN queue' = 1..(Len(queue) + 1) /\ DOMAIN queue = 1..Len(queue)
        BY <1>1, <1>8, <4>1, SMTT(60)
      <4> QED BY <1>1, <3>2, <4>1, <4>2, SMTT(60) DEF e
    <3> QED BY <3>1, <3>2, Zenon
  <2> QED BY <2>1, <2>2, <2>3, Zenon
<1> QED BY <1>6, <1>10, <1>12, Zenon DEF Inv

LEMMA SendStep ==
    ASSUME Inv, NEW i \in DOMAIN futures, NEW k \in DOMAIN futures[i].at, Send(i, k)
    PROVE  Inv'
<1> DEFINE f == futures[i]
           t == TxsOf[f.block][k]
           g == Moved(f, k, "listening")
<1>1. f \in Futures /\ futures \in Seq(Futures) /\ channel \in Seq(Txs) /\ k \in DOMAIN f.at
  BY SMTT(60) DEF Inv, TypeOK
<1>2. t \in Txs BY <1>1, FutureShape, Zenon
<1>3. UNCHANGED <<abandoned, chain, txs, closed, propagating, handling, processor, pending,
                  executor, queue, asked>>
  BY Zenon DEF Send, node, caches
<1>4. f.at[k] = "sending" /\ channel' = Append(channel, t)
  BY Zenon DEF Send
<1>5. futures' = [futures EXCEPT ![i] = g] BY Zenon DEF Send, Moved
<1>6. /\ g \in Futures /\ g.block = f.block /\ g.state = f.state
      /\ g.at = [f.at EXCEPT ![k] = "listening"]
  <2>1. "listening" \in Ats BY Zenon DEF Ats
  <2> HIDE DEF f
  <2> QED BY <1>1, <2>1, MovedShape, SMTT(60)
<1>7. f.state = "run"
  <2> SUFFICES ASSUME f.state # "run" PROVE FALSE BY Zenon
  <2>1. f.at[k] = "over" BY <1>1, Zenon DEF Inv, OverIsOver
  <2> QED BY <1>4, <2>1, Zenon
<1> HIDE DEF g
<1>8. /\ futures' \in Seq(Futures) /\ DOMAIN futures' = DOMAIN futures
      /\ OneEach' /\ PendingExact' /\ IsFiniteSet(pending)' /\ OverIsOver'
  BY <1>3, <1>5, <1>6, <1>7, Replaced, Zenon
<1>9. /\ channel' \in Seq(Txs) /\ t \in Range(channel')
      /\ \A u : u \in Range(channel) => u \in Range(channel')
  BY <1>1, <1>2, <1>4, Appended, Zenon
<1>10. TypeOK' BY <1>3, <1>8, <1>9, Zenon DEF Inv, TypeOK
<1>11. ASSUME NEW u, Sending(futures, u) PROVE Sending(futures', u) \/ u = t
  <2>1. PICK j \in DOMAIN futures : \E l \in DOMAIN futures[j].at :
           futures[j].at[l] = "sending" /\ TxsOf[futures[j].block][l] = u
    BY <1>11, Zenon DEF Sending
  <2>2. PICK l \in DOMAIN futures[j].at :
           futures[j].at[l] = "sending" /\ TxsOf[futures[j].block][l] = u
    BY <2>1, Zenon
  <2>3. CASE j # i
    <3>1. futures'[j] = futures[j] BY <1>1, <1>5, <2>3, Zenon
    <3> QED BY <1>8, <2>2, <3>1, Zenon DEF Sending
  <2>4. CASE j = i /\ l # k
    <3>1. futures'[j] = g BY <1>1, <1>5, <2>4, Zenon
    <3>2. l \in DOMAIN g.at /\ g.at[l] = "sending" BY <1>6, <2>2, <2>4, Zenon
    <3> QED BY <1>6, <1>8, <2>2, <2>4, <3>1, <3>2, Zenon DEF Sending
  <2>5. CASE j = i /\ l = k BY <2>2, <2>5, Zenon
  <2> QED BY <2>3, <2>4, <2>5, Zenon
<1>12. UnsentOnItsWay'
  <2> SUFFICES ASSUME NEW q \in DOMAIN queue, queue[q].state = "new"
               PROVE  \/ queue[q].tx \in Range(channel') \/ queue[q].tx \in abandoned
                      \/ Sending(futures', queue[q].tx)
    BY <1>3, Zenon DEF UnsentOnItsWay, Sending
  <2>1. \/ queue[q].tx \in Range(channel) \/ queue[q].tx \in abandoned
        \/ Sending(futures, queue[q].tx)
    BY Zenon DEF Inv, UnsentOnItsWay, Sending
  <2> QED BY <1>9, <1>11, <2>1, Zenon
<1> QED BY <1>8, <1>10, <1>12, Zenon DEF Inv

LEMMA CollectedStep ==
    ASSUME Inv, NEW i \in DOMAIN futures, Collected(i)
    PROVE  Inv'
<1> DEFINE f == futures[i]
           waiting == {TxsOf[f.block][k] : k \in {j \in DOMAIN f.at : f.at[j] = "sending"}}
<1>1. f \in Futures /\ futures \in Seq(Futures)
  BY SMTT(60) DEF Inv, TypeOK
<1>2. UNCHANGED <<chain, txs, closed, propagating, handling, processor, pending, executor,
                  queue, channel, asked>>
  BY Zenon DEF Collected, node, caches, tracker
<1>3. PICK s \in {"ok", "failed"} :
         /\ futures' = [futures EXCEPT ![i] = Over(f, s)]
         /\ \/ UNCHANGED abandoned /\ \A k \in DOMAIN f.at : f.at[k] = "listening"
            \/ abandoned' = abandoned \cup waiting
  BY Zenon DEF Collected, Heard
<1>4. /\ Over(f, s) \in Futures /\ Over(f, s).block = f.block /\ Over(f, s).state = s
      /\ \A k \in DOMAIN Over(f, s).at : Over(f, s).at[k] = "over"
  BY <1>1, OverShape, Zenon
<1>5. /\ futures' \in Seq(Futures) /\ DOMAIN futures' = DOMAIN futures
      /\ OneEach' /\ PendingExact' /\ IsFiniteSet(pending)' /\ OverIsOver'
  BY <1>2, <1>3, <1>4, Replaced, Zenon
<1>6. abandoned' \subseteq Txs
  <2>1. waiting \subseteq Txs BY <1>1, FutureShape, ZenonT(60)
  <2> QED BY <1>3, <2>1, Zenon DEF Inv, TypeOK
<1>7. TypeOK' BY <1>2, <1>5, <1>6, Zenon DEF Inv, TypeOK
<1>8. ASSUME NEW u, Sending(futures, u) PROVE Sending(futures', u) \/ u \in abandoned'
  <2>1. PICK j \in DOMAIN futures : \E l \in DOMAIN futures[j].at :
           futures[j].at[l] = "sending" /\ TxsOf[futures[j].block][l] = u
    BY <1>8, Zenon DEF Sending
  <2>2. PICK l \in DOMAIN futures[j].at :
           futures[j].at[l] = "sending" /\ TxsOf[futures[j].block][l] = u
    BY <2>1, Zenon
  <2>3. CASE j # i
    <3>1. futures'[j] = futures[j] BY <1>1, <1>3, <2>3, Zenon
    <3> QED BY <1>5, <2>2, <3>1, Zenon DEF Sending
  <2>4. CASE j = i
    <3>1. u \in waiting /\ ~\A k \in DOMAIN f.at : f.at[k] = "listening" BY <2>2, <2>4, Zenon
    <3> QED BY <1>3, <3>1, Zenon
  <2> QED BY <2>3, <2>4, Zenon
<1>9. UnsentOnItsWay'
  <2> SUFFICES ASSUME NEW q \in DOMAIN queue, queue[q].state = "new"
               PROVE  \/ queue[q].tx \in Range(channel) \/ queue[q].tx \in abandoned'
                      \/ Sending(futures', queue[q].tx)
    BY <1>2, Zenon DEF UnsentOnItsWay, Sending
  <2>1. \/ queue[q].tx \in Range(channel) \/ queue[q].tx \in abandoned
        \/ Sending(futures, queue[q].tx)
    BY Zenon DEF Inv, UnsentOnItsWay, Sending
  <2>2. abandoned \subseteq abandoned' BY <1>3, Zenon
  <2> QED BY <1>8, <2>1, <2>2, Zenon
<1> QED BY <1>5, <1>7, <1>9, Zenon DEF Inv

-----------------------------------------------------------------------------
(* Futures come and go                                                     *)

LEMMA ReceiveBlockStep ==
    ASSUME Inv, ReceiveBlock
    PROVE  Inv'
<1> DEFINE p == Head(processor)[1]
           b == Head(processor)[2]
           g == NewFuture(p, b)
           n == Len(futures) + 1
<1>1. processor # <<>> /\ processor \in Seq(Peers \X Blocks)
      /\ futures \in Seq(Futures) /\ executor \in Seq(Blocks)
  BY Zenon DEF Inv, TypeOK, ReceiveBlock
<1>2. Head(processor) \in Peers \X Blocks /\ Tail(processor) \in Seq(Peers \X Blocks)
  BY <1>1, TailIs, Zenon
<1>3. p \in Peers /\ b \in Blocks BY <1>2, Zenon
<1>4. g \in Futures /\ g.block = b /\ g.state = "run" BY <1>3, NewFutureShape, Zenon
<1>5. /\ processor' = Tail(processor)
      /\ UNCHANGED <<abandoned, chain, txs, closed, propagating, handling, executor, queue,
                     channel, asked>>
  BY Zenon DEF ReceiveBlock, node, caches, tracker
<1>6. \/ UNCHANGED <<pending, futures>>
      \/ b \notin pending /\ pending' = pending \cup {b} /\ futures' = Append(futures, g)
  BY Zenon DEF ReceiveBlock, Duplicate
<1> HIDE DEF b, g
<1>7. CASE UNCHANGED <<pending, futures>>
  <2>1. TypeOK' BY <1>2, <1>5, <1>7, Zenon DEF Inv, TypeOK
  <2> QED BY <1>5, <1>7, <2>1, SMTT(60) DEF Inv, OneEach, PendingExact, OverIsOver, UnsentOnItsWay
<1>8. CASE b \notin pending /\ pending' = pending \cup {b} /\ futures' = Append(futures, g)
  <2>1. /\ futures' \in Seq(Futures) /\ Len(futures') = Len(futures) + 1 /\ Len(futures) \in Nat
        /\ DOMAIN futures' = DOMAIN futures \cup {n} /\ n \notin DOMAIN futures
        /\ futures'[n] = g /\ \A j \in DOMAIN futures : futures'[j] = futures[j]
    BY <1>1, <1>4, <1>8, AppendIs, SMTT(60)
  <2> HIDE DEF n
  <2>2. pending = BlocksOf(futures) \cup Range(executor) BY Zenon DEF Inv, PendingExact
  <2>3. \A j \in DOMAIN futures : futures[j].block # b BY <1>8, <2>2, Zenon DEF BlocksOf
  <2>4. \A j \in DOMAIN executor : executor[j] # b BY <1>8, <2>2, Zenon DEF Range
  <2>5. OneEach' BY <1>4, <1>5, <2>1, <2>3, <2>4, SMTT(60) DEF Inv, OneEach
  <2>6. BlocksOf(futures') = BlocksOf(futures) \cup {b} BY <1>4, <2>1, SMTT(60) DEF BlocksOf
  <2>7. IsFiniteSet(pending') /\ Cardinality(pending') = Cardinality(pending) + 1
    BY <1>8, FS_AddElement, Zenon DEF Inv
  <2>8. PendingExact'
    <3>1. pending' = BlocksOf(futures') \cup Range(executor') BY <1>5, <1>8, <2>2, <2>6, Zenon
    <3>2. Len(executor) \in Nat BY <1>1, SMTT(60)
    <3>3. Len(futures') + Len(executor') = Cardinality(pending')
      BY <1>5, <2>1, <2>7, <3>2, SMTT(60) DEF Inv, PendingExact
    <3> QED BY <3>1, <3>3, Zenon DEF PendingExact
  <2>9. OverIsOver' BY <1>4, <2>1, ZenonT(60) DEF Inv, OverIsOver
  <2>10. UnsentOnItsWay' BY <1>5, <2>1, SMTT(60) DEF Inv, UnsentOnItsWay
  <2>11. TypeOK' BY <1>2, <1>3, <1>5, <1>8, <2>1, Zenon DEF Inv, TypeOK
  <2> QED BY <2>5, <2>7, <2>8, <2>9, <2>10, <2>11, Zenon DEF Inv
<1> QED BY <1>6, <1>7, <1>8, Zenon

LEMMA YieldStep ==
    ASSUME Inv, Yield
    PROVE  Inv'
<1> DEFINE f == futures[1]
           b == f.block
           n == Len(executor) + 1
<1>1. futures # <<>> /\ futures \in Seq(Futures) /\ executor \in Seq(Blocks)
  BY Zenon DEF Inv, TypeOK, Yield
<1>2. /\ futures' = Tail(futures) /\ Head(futures) = f /\ 1 \in DOMAIN futures /\ f \in Futures
      /\ futures' \in Seq(Futures) /\ Len(futures) = Len(futures') + 1
      /\ \A j \in DOMAIN futures' : j + 1 \in DOMAIN futures /\ j + 1 # 1 /\ futures'[j] = futures[j + 1]
      /\ \A j \in DOMAIN futures : j = 1 \/ (j - 1 \in DOMAIN futures' /\ futures'[j - 1] = futures[j])
  BY <1>1, TailIs, SMTT(60) DEF Yield
<1>3. UNCHANGED <<abandoned, chain, txs, closed, propagating, handling, processor, queue,
                  channel, asked>>
  BY Zenon DEF Yield, node, caches, tracker
<1>4. /\ f.state # "run"
      /\ \/ executor' = Append(executor, b) /\ UNCHANGED pending
         \/ pending' = pending \ {b} /\ UNCHANGED executor
  BY <1>2, Zenon DEF Yield
<1>5. b \in Blocks BY <1>2, FutureShape, Zenon
<1>6. Len(executor) \in Nat /\ Len(futures') \in Nat /\ DOMAIN futures \subseteq Nat
      /\ DOMAIN futures' \subseteq Nat
  BY <1>1, <1>2, SMTT(60)
<1> HIDE DEF f
<1>7. \A j \in DOMAIN futures' : futures'[j].block # b
  BY <1>2, SMTT(60) DEF Inv, OneEach, f
<1>8. \A j \in DOMAIN executor : executor[j] # b
  BY <1>2, Zenon DEF Inv, OneEach, f
<1>9. BlocksOf(futures) = BlocksOf(futures') \cup {b} /\ b \notin BlocksOf(futures')
  <2>1. ASSUME NEW c \in BlocksOf(futures) PROVE c \in BlocksOf(futures') \cup {b}
    <3>1. PICK j \in DOMAIN futures : c = futures[j].block BY <2>1, Zenon DEF BlocksOf
    <3> QED BY <1>2, <3>1, Zenon DEF BlocksOf, f
  <2>2. BlocksOf(futures') \subseteq BlocksOf(futures) BY <1>2, SMTT(60) DEF BlocksOf
  <2>3. b \in BlocksOf(futures) BY <1>2, Zenon DEF BlocksOf, f
  <2>4. b \notin BlocksOf(futures') BY <1>7, Zenon DEF BlocksOf
  <2> QED BY <2>1, <2>2, <2>3, <2>4, Zenon
<1>10. \A i, j \in DOMAIN futures' : futures'[i].block = futures'[j].block => i = j
  <2> TAKE i, j \in DOMAIN futures'
  <2> HAVE futures'[i].block = futures'[j].block
  <2>1. i + 1 = j + 1 BY <1>2, SMTT(60) DEF Inv, OneEach
  <2> QED BY <1>6, <2>1, SMTT(60)
<1>11. OverIsOver' BY <1>2, SMTT(60) DEF Inv, OverIsOver
<1>12. UnsentOnItsWay'
  <2>1. ASSUME NEW u, Sending(futures, u) PROVE Sending(futures', u)
    <3>1. PICK j \in DOMAIN futures : \E l \in DOMAIN futures[j].at :
             futures[j].at[l] = "sending" /\ TxsOf[futures[j].block][l] = u
      BY <2>1, Zenon DEF Sending
    <3>2. j # 1 BY <1>4, <3>1, Zenon DEF Inv, OverIsOver, f
    <3>3. j - 1 \in DOMAIN futures' /\ futures'[j - 1] = futures[j] BY <1>2, <3>2, Zenon
    <3> QED BY <3>1, <3>3, Zenon DEF Sending
  <2> SUFFICES ASSUME NEW q \in DOMAIN queue, queue[q].state = "new"
               PROVE  \/ queue[q].tx \in Range(channel) \/ queue[q].tx \in abandoned
                      \/ Sending(futures', queue[q].tx)
    BY <1>3, Zenon DEF UnsentOnItsWay, Sending
  <2>2. \/ queue[q].tx \in Range(channel) \/ queue[q].tx \in abandoned
        \/ Sending(futures, queue[q].tx)
    BY Zenon DEF Inv, UnsentOnItsWay, Sending
  <2> QED BY <2>1, <2>2, Zenon
<1> HIDE DEF b, n
<1>13. CASE executor' = Append(executor, b) /\ UNCHANGED pending
  <2>1. /\ executor' \in Seq(Blocks) /\ Len(executor') = Len(executor) + 1
        /\ DOMAIN executor' = DOMAIN executor \cup {n} /\ n \notin DOMAIN executor
        /\ executor'[n] = b /\ \A j \in DOMAIN executor : executor'[j] = executor[j]
    BY <1>1, <1>5, <1>13, AppendIs, SMTT(60) DEF n
  <2>2. \A i, j \in DOMAIN executor' : executor'[i] = executor'[j] => i = j
    BY <1>8, <2>1, Zenon DEF Inv, OneEach
  <2>3. \A i \in DOMAIN futures', j \in DOMAIN executor' : futures'[i].block # executor'[j]
    BY <1>2, <1>7, <2>1, SMTT(60) DEF Inv, OneEach
  <2>4. OneEach' BY <1>10, <2>2, <2>3, Zenon DEF OneEach
  <2>5. Range(executor') = Range(executor) \cup {b} BY <2>1, SMTT(60) DEF Range
  <2>6. pending' = BlocksOf(futures') \cup Range(executor')
    BY <1>9, <1>13, <2>5, Zenon DEF Inv, PendingExact
  <2>7. Len(futures') + Len(executor') = Cardinality(pending')
    BY <1>2, <1>6, <1>13, <2>1, SMTT(60) DEF Inv, PendingExact
  <2>8. TypeOK' BY <1>2, <1>3, <1>13, <2>1, Zenon DEF Inv, TypeOK
  <2> QED BY <1>11, <1>12, <1>13, <2>4, <2>6, <2>7, <2>8, Zenon DEF Inv, PendingExact
<1>14. CASE pending' = pending \ {b} /\ UNCHANGED executor
  <2>1. OneEach' BY <1>2, <1>10, <1>14, SMTT(60) DEF Inv, OneEach
  <2>2. b \notin Range(executor) BY <1>8, Zenon DEF Range
  <2>3. pending' = BlocksOf(futures') \cup Range(executor') /\ b \in pending
    BY <1>9, <1>14, <2>2, Zenon DEF Inv, PendingExact
  <2>4. IsFiniteSet(pending') /\ Cardinality(pending') = Cardinality(pending) - 1
    BY <1>14, <2>3, FS_RemoveElement, Zenon DEF Inv
  <2>5. Len(futures') + Len(executor') = Cardinality(pending')
    BY <1>2, <1>6, <1>14, <2>4, SMTT(60) DEF Inv, PendingExact
  <2>6. TypeOK' BY <1>2, <1>3, <1>14, Zenon DEF Inv, TypeOK
  <2> QED BY <1>11, <1>12, <2>1, <2>3, <2>4, <2>5, <2>6, Zenon DEF Inv, PendingExact
<1> QED BY <1>4, <1>13, <1>14, Zenon

LEMMA ExecutorStep ==
    ASSUME Inv, AddBlock \/ RefuseBlock
    PROVE  Inv'
<1> DEFINE b == executor[1]
<1>1. executor # <<>> /\ futures \in Seq(Futures) /\ executor \in Seq(Blocks)
  BY Zenon DEF Inv, TypeOK, AddBlock, RefuseBlock
<1>2. /\ executor' = Tail(executor) /\ Head(executor) = b /\ 1 \in DOMAIN executor /\ b \in Blocks
      /\ executor' \in Seq(Blocks) /\ Len(executor) = Len(executor') + 1
      /\ \A j \in DOMAIN executor' : j + 1 \in DOMAIN executor /\ j + 1 # 1
                                      /\ executor'[j] = executor[j + 1]
      /\ \A j \in DOMAIN executor : j = 1 \/ (j - 1 \in DOMAIN executor'
                                              /\ executor'[j - 1] = executor[j])
  <2>1. executor' = Tail(executor) BY Zenon DEF AddBlock, RefuseBlock
  <2> QED BY <1>1, <2>1, TailIs, ZenonT(60)
<1>3. /\ UNCHANGED <<abandoned, closed, propagating, handling, processor, futures, queue,
                     channel, asked>>
      /\ pending' = pending \ {b}
  BY <1>2, Zenon DEF AddBlock, RefuseBlock, node, caches, tracker
<1>4. chain' \subseteq Blocks /\ txs' \subseteq Txs
  <2>1. TxsOf[b] \in Seq(Txs) BY <1>2, BlockFetchAssumption, Zenon
  <2>2. Range(TxsOf[b]) \subseteq Txs BY <2>1, SMTT(60) DEF Range
  <2> QED BY <1>2, <2>2, ZenonT(60) DEF Inv, TypeOK, AddBlock, RefuseBlock, node
<1>5. Len(executor') \in Nat /\ Len(futures) \in Nat /\ DOMAIN executor' \subseteq Nat
  BY <1>1, <1>2, SMTT(60)
<1>6. \A i, j \in DOMAIN executor' : executor'[i] = executor'[j] => i = j
  <2> TAKE i, j \in DOMAIN executor'
  <2> HAVE executor'[i] = executor'[j]
  <2>1. i + 1 = j + 1 BY <1>2, SMTT(60) DEF Inv, OneEach
  <2> QED BY <1>5, <2>1, SMTT(60)
<1>7. OneEach' BY <1>2, <1>3, <1>6, SMTT(60) DEF Inv, OneEach
<1>8. Range(executor) = Range(executor') \cup {b} /\ b \notin Range(executor')
  <2>1. ASSUME NEW c \in Range(executor) PROVE c \in Range(executor') \cup {b}
    <3>1. PICK j \in DOMAIN executor : c = executor[j] BY <2>1, Zenon DEF Range
    <3> QED BY <1>2, <3>1, ZenonT(60) DEF Range
  <2>2. Range(executor') \subseteq Range(executor) BY <1>2, SMTT(60) DEF Range
  <2>3. b \in Range(executor) BY <1>2, Zenon DEF Range
  <2>4. b \notin Range(executor') BY <1>2, SMTT(60) DEF Range, Inv, OneEach
  <2> QED BY <2>1, <2>2, <2>3, <2>4, Zenon
<1>9. b \notin BlocksOf(futures) BY <1>2, SMTT(60) DEF Inv, OneEach, BlocksOf
<1>10. pending' = BlocksOf(futures') \cup Range(executor') /\ b \in pending
  BY <1>3, <1>8, <1>9, Zenon DEF Inv, PendingExact
<1>11. IsFiniteSet(pending') /\ Cardinality(pending') = Cardinality(pending) - 1
  BY <1>3, <1>10, FS_RemoveElement, Zenon DEF Inv
<1>12. Len(futures') + Len(executor') = Cardinality(pending')
  BY <1>2, <1>3, <1>5, <1>11, SMTT(60) DEF Inv, PendingExact
<1>13. TypeOK' BY <1>2, <1>3, <1>4, Zenon DEF Inv, TypeOK
<1>14. OverIsOver' /\ UnsentOnItsWay' BY <1>3, SMTT(60) DEF Inv, OverIsOver, UnsentOnItsWay
<1> QED BY <1>7, <1>10, <1>11, <1>12, <1>13, <1>14, Zenon DEF Inv, PendingExact

-----------------------------------------------------------------------------
(* The ObjectTracker                                                       *)

\* A step that tells listeners, or nobody, and leaves the block task alone.
LEMMA Told ==
    ASSUME Inv, UNCHANGED <<pending, executor>>,
           \/ UNCHANGED futures
           \/ \E T : \E answer \in Answers : futures' = Notify(T, answer)
    PROVE  /\ futures' \in Seq(Futures)
           /\ OneEach' /\ PendingExact' /\ IsFiniteSet(pending)' /\ OverIsOver'
           /\ \A u : Sending(futures, u) => Sending(futures', u)
<1>1. futures \in Seq(Futures) BY Zenon DEF Inv, TypeOK
<1>2. /\ futures' \in Seq(Futures) /\ DOMAIN futures' = DOMAIN futures
      /\ Len(futures') = Len(futures)
      /\ \A i \in DOMAIN futures : /\ futures'[i].block = futures[i].block
                                   /\ futures'[i].state = futures[i].state
                                   /\ futures'[i].at = futures[i].at
  <2>1. CASE UNCHANGED futures BY <1>1, <2>1, Zenon
  <2>2. CASE \E T : \E answer \in Answers : futures' = Notify(T, answer)
    BY <1>1, <2>2, NotifyShape, SMTT(60)
  <2> QED BY <2>1, <2>2, Zenon
<1>3. OneEach' /\ PendingExact' /\ IsFiniteSet(pending)' BY <1>2, SameBlocks, Zenon
<1>4. OverIsOver' BY <1>2, SMTT(60) DEF Inv, OverIsOver
<1>5. ASSUME NEW u, Sending(futures, u) PROVE Sending(futures', u)
  BY <1>2, <1>5, Zenon DEF Sending
<1> QED BY <1>2, <1>3, <1>4, <1>5, Zenon

\* Such a step keeps the invariant if every request left unsent was so before, and its
\* hash has not been taken from the channel.
LEMMA TrackerStep ==
    ASSUME Inv,
           UNCHANGED <<abandoned, chain, txs, closed, propagating, handling, processor, pending,
                       executor>>,
           \/ UNCHANGED futures
           \/ \E T : \E answer \in Answers : futures' = Notify(T, answer),
           queue' \in Seq(Requests), channel' \in Seq(Txs), asked' \in [Peers \X Txs -> Nat],
           \A q \in DOMAIN queue' : queue'[q].state = "new" =>
              /\ \E k \in DOMAIN queue : queue[k].state = "new" /\ queue[k].tx = queue'[q].tx
              /\ queue'[q].tx \in Range(channel) => queue'[q].tx \in Range(channel')
    PROVE  Inv'
<1>1. /\ futures' \in Seq(Futures)
      /\ OneEach' /\ PendingExact' /\ IsFiniteSet(pending)' /\ OverIsOver'
      /\ \A u : Sending(futures, u) => Sending(futures', u)
  BY Told, Zenon
<1>2. TypeOK' BY <1>1, Zenon DEF Inv, TypeOK
<1>3. UnsentOnItsWay'
  <2> SUFFICES ASSUME NEW q \in DOMAIN queue', queue'[q].state = "new"
               PROVE  \/ queue'[q].tx \in Range(channel') \/ queue'[q].tx \in abandoned
                      \/ Sending(futures', queue'[q].tx)
    BY Zenon DEF UnsentOnItsWay, Sending
  <2>1. PICK k \in DOMAIN queue : queue[k].state = "new" /\ queue[k].tx = queue'[q].tx
    BY Zenon
  <2>2. \/ queue[k].tx \in Range(channel) \/ queue[k].tx \in abandoned
        \/ Sending(futures, queue[k].tx)
    BY <2>1, Zenon DEF Inv, UnsentOnItsWay, Sending
  <2> QED BY <1>1, <2>1, <2>2, Zenon
<1> QED BY <1>1, <1>2, <1>3, Zenon DEF Inv

LEMMA CleanQueueIs ==
    ASSUME NEW q \in Seq(Requests), NEW p, clean_queue(q, p)
    PROVE  /\ queue' \in Seq(Requests)
           /\ \A j \in DOMAIN queue' : \E k \in DOMAIN q : queue'[j] = q[k]
           /\ \E T : \E answer \in Answers : futures' = Notify(T, answer)
<1> DEFINE K == {i \in DOMAIN q : ~ToClean(q[i], p)}
<1>1. queue' = Kept(q, K) BY Zenon DEF clean_queue
<1>2. K \in SUBSET DOMAIN q BY Zenon
<1>3. queue' \in Seq(Requests) /\ \A j \in DOMAIN queue' : \E k \in K : queue'[j] = q[k]
  <2> HIDE DEF K
  <2> QED BY <1>1, <1>2, KeptIs, SMTT(60)
<1>4. \E T : \E answer \in Answers : futures' = Notify(T, answer)
  BY Zenon DEF clean_queue, Answers
<1> QED BY <1>2, <1>3, <1>4, Zenon

LEMMA AskStep ==
    ASSUME Inv, Ask
    PROVE  Inv'
<1> DEFINE t == Head(channel)
           q == [i \in DOMAIN queue |-> IF queue[i].tx = t THEN Requested(queue[i]) ELSE queue[i]]
<1>1. /\ channel # <<>> /\ channel \in Seq(Txs) /\ queue \in Seq(Requests)
      /\ asked \in [Peers \X Txs -> Nat] /\ channel' = Tail(channel)
  BY Zenon DEF Inv, TypeOK, Ask
<1>2. /\ t = channel[1] /\ t \in Txs /\ channel' \in Seq(Txs)
      /\ \A j \in DOMAIN channel : j = 1 \/ (j - 1 \in DOMAIN channel' /\ channel'[j - 1] = channel[j])
  BY <1>1, TailIs, Zenon
<1>3. ASSUME NEW u, u \in Range(channel), u # t PROVE u \in Range(channel')
  <2>1. PICK j \in DOMAIN channel : channel[j] = u BY <1>3, Zenon DEF Range
  <2>2. j - 1 \in DOMAIN channel' /\ channel'[j - 1] = u BY <1>2, <1>3, <2>1, Zenon
  <2> QED BY <2>2, Zenon DEF Range
<1>4. UNCHANGED <<abandoned, chain, txs, closed, propagating, handling, processor, pending, executor>>
  BY Zenon DEF Ask, node, caches
<1>5. /\ q \in Seq(Requests) /\ DOMAIN q = DOMAIN queue
      /\ \A k \in DOMAIN queue : q[k].state = "new" => q[k] = queue[k] /\ queue[k].tx # t
  <2>1. ASSUME NEW k \in DOMAIN queue
        PROVE  Requested(queue[k]) \in Requests /\ Requested(queue[k]).state = "requested"
    <3>1. queue[k] \in Requests BY <1>1, SMTT(60)
    <3> QED BY <3>1, Zenon DEF Requested, Requests
  <2>2. ASSUME NEW k \in DOMAIN queue PROVE q[k] \in Requests BY <1>1, <2>1, SMTT(60)
  <2>3. DOMAIN queue = 1..Len(queue) /\ Len(queue) \in Nat BY <1>1, SMTT(60)
  <2>4. q \in Seq(Requests)
    <3>1. q \in [1..Len(queue) -> Requests] BY <2>2, <2>3, Zenon
    <3> QED BY <2>3, <3>1, SMTT(60)
  <2> QED BY <2>1, <2>4, Zenon
<1> HIDE DEF q
<1>6. CASE ~Tracked(t) /\ UNCHANGED <<queue, asked, futures>>
  <2>1. \A k \in DOMAIN queue : queue[k].tx # t BY <1>6, Zenon DEF Tracked
  <2> QED BY <1>1, <1>2, <1>3, <1>4, <1>6, <2>1, TrackerStep, Zenon
<1>7. CASE \E i \in DOMAIN queue :
              /\ queue[i].tx = t
              /\ asked' = [asked EXCEPT ![<<queue[i].peer, t>>] = @ + 1]
              /\ queue' = q /\ UNCHANGED futures
  <2>1. PICK i \in DOMAIN queue : /\ asked' = [asked EXCEPT ![<<queue[i].peer, t>>] = @ + 1]
                                  /\ queue' = q /\ UNCHANGED futures
    BY <1>7, Zenon
  <2>2. queue[i] \in Requests BY <1>1, SMTT(60)
  <2>3. <<queue[i].peer, t>> \in Peers \X Txs BY <1>2, <2>2, Zenon DEF Requests
  <2>4. asked' \in [Peers \X Txs -> Nat] BY <1>1, <2>1, <2>3, SMTT(60)
  <2> HIDE DEF t
  <2>5. \A j \in DOMAIN queue' : queue'[j].state = "new" =>
           \E k \in DOMAIN queue : queue[k].state = "new" /\ queue[k].tx = queue'[j].tx
                                   /\ queue[k].tx # t
    BY <1>5, <2>1, Zenon
  <2>6. queue' \in Seq(Requests) /\ UNCHANGED futures BY <1>5, <2>1, Zenon
  <2> QED BY <1>2, <1>3, <1>4, <2>4, <2>5, <2>6, TrackerStep, Zenon
<1>8. CASE \E i \in DOMAIN queue : clean_queue(q, queue[i].peer) /\ UNCHANGED asked
  <2>1. PICK p : clean_queue(q, p) /\ UNCHANGED asked BY <1>8, Zenon
  <2>2. /\ queue' \in Seq(Requests)
        /\ \A j \in DOMAIN queue' : \E k \in DOMAIN q : queue'[j] = q[k]
        /\ \E T : \E answer \in Answers : futures' = Notify(T, answer)
    BY <1>5, <2>1, CleanQueueIs, Zenon
  <2> HIDE DEF t
  <2>3. \A j \in DOMAIN queue' : queue'[j].state = "new" =>
           \E k \in DOMAIN queue : queue[k].state = "new" /\ queue[k].tx = queue'[j].tx
                                   /\ queue[k].tx # t
    BY <1>5, <2>2, Zenon
  <2>4. asked' \in [Peers \X Txs -> Nat] BY <1>1, <2>1, Zenon
  <2> QED BY <1>2, <1>3, <1>4, <2>2, <2>3, <2>4, TrackerStep, Zenon
<1> QED BY <1>6, <1>7, <1>8, Zenon DEF Ask, q

LEMMA TimeoutSteps ==
    ASSUME Inv, HandleTimeouts \/ \E i \in DOMAIN queue : Expire(i)
    PROVE  Inv'
<1>1. /\ channel \in Seq(Txs) /\ queue \in Seq(Requests) /\ asked \in [Peers \X Txs -> Nat]
  BY Zenon DEF Inv, TypeOK
<1>2. UNCHANGED <<abandoned, chain, txs, closed, propagating, handling, processor, pending, executor,
                  channel, asked>>
  BY Zenon DEF HandleTimeouts, Expire, node, caches, task
<1>3. CASE HandleTimeouts
  <2>1. PICK p : clean_queue(queue, p) BY <1>3, Zenon DEF HandleTimeouts
  <2>2. /\ queue' \in Seq(Requests)
        /\ \A j \in DOMAIN queue' : \E k \in DOMAIN queue : queue'[j] = queue[k]
        /\ \E T : \E answer \in Answers : futures' = Notify(T, answer)
    BY <1>1, <2>1, CleanQueueIs, Zenon
  <2>3. \A j \in DOMAIN queue' : queue'[j].state = "new" =>
           \E k \in DOMAIN queue : queue[k].state = "new" /\ queue[k].tx = queue'[j].tx
    BY <2>2, Zenon
  <2> QED BY <1>1, <1>2, <2>2, <2>3, TrackerStep, Zenon
<1>4. CASE \E i \in DOMAIN queue : Expire(i)
  <2>1. PICK i \in DOMAIN queue : Expire(i) BY <1>4, Zenon
  <2> DEFINE e == [queue[i] EXCEPT !.state = "expired"]
  <2>2. queue' = [queue EXCEPT ![i] = e] /\ UNCHANGED futures BY <2>1, Zenon DEF Expire, task
  <2>3. queue[i] \in Requests BY <1>1, SMTT(60)
  <2>4. e \in Requests /\ e.state = "expired" BY <2>3, Zenon DEF Requests
  <2> HIDE DEF e
  <2>5. queue' \in Seq(Requests) /\ DOMAIN queue' = DOMAIN queue
        /\ \A j \in DOMAIN queue : queue'[j] = IF j = i THEN e ELSE queue[j]
    BY <1>1, <2>2, <2>4, SMTT(60)
  <2>6. \A j \in DOMAIN queue' : queue'[j].state = "new" =>
           \E k \in DOMAIN queue : queue[k].state = "new" /\ queue[k].tx = queue'[j].tx
    BY <2>4, <2>5, Zenon
  <2> QED BY <1>1, <1>2, <2>2, <2>5, <2>6, TrackerStep, Zenon
<1> QED BY <1>3, <1>4, Zenon

LEMMA AnswerStep ==
    ASSUME Inv, NEW p \in Peers, NEW t \in Txs, NEW answer \in {"ok", "failed"}, Answer(p, t, answer)
    PROVE  Inv'
<1> DEFINE K == {i \in DOMAIN queue : queue[i].tx # t}
<1>1. /\ channel \in Seq(Txs) /\ queue \in Seq(Requests) /\ asked \in [Peers \X Txs -> Nat]
  BY Zenon DEF Inv, TypeOK
<1>2. UNCHANGED <<abandoned, chain, txs, closed, propagating, handling, processor, pending, executor,
                  channel>>
  BY Zenon DEF Answer, node, caches
<1>3. queue' = Kept(queue, K) /\ K \in SUBSET DOMAIN queue BY Zenon DEF Answer
<1> HIDE DEF K
<1>4. queue' \in Seq(Requests) /\ \A j \in DOMAIN queue' : \E k \in K : queue'[j] = queue[k]
  BY <1>1, <1>3, KeptIs, SMTT(60)
<1>5. \A j \in DOMAIN queue' : queue'[j].state = "new" =>
         \E k \in DOMAIN queue : queue[k].state = "new" /\ queue[k].tx = queue'[j].tx
  BY <1>3, <1>4, Zenon
<1>6. \/ UNCHANGED futures \/ \E T : \E a \in Answers : futures' = Notify(T, a)
  BY Zenon DEF Answer, Answers
<1>7. asked' \in [Peers \X Txs -> Nat]
  <2>1. <<p, t>> \in Peers \X Txs BY Zenon
  <2>2. asked[<<p, t>>] \in Nat /\ asked[<<p, t>>] > 0 BY <1>1, <2>1, Zenon DEF Answer
  <2>3. asked[<<p, t>>] - 1 \in Nat BY <2>2, SMTT(60)
  <2> QED BY <1>1, <2>1, <2>3, Zenon DEF Answer
<1> QED BY <1>1, <1>2, <1>4, <1>5, <1>6, <1>7, TrackerStep, Zenon

-----------------------------------------------------------------------------
(* Theorems                                                                *)

LEMMA InvNext == Inv /\ [Next]_vars => Inv'
<1> SUFFICES ASSUME Inv, [Next]_vars PROVE Inv' BY Zenon
<1>1. CASE \E p \in Peers : (\E b \in Blocks : Announce(p, b)) \/ Enqueue(p) \/ ClosePeer(p)
  BY <1>1, OutsideSteps, Zenon
<1>2. CASE \E p \in Peers : \E t \in Txs : Answer(p, t, "ok") \/ Answer(p, t, "failed")
  BY <1>2, AnswerStep, Zenon
<1>3. CASE BlockTask
  <2>1. Polled \subseteq DOMAIN futures
    <3>1. futures \in Seq(Futures) /\ executor \in Seq(Blocks) /\ Concurrency \in Nat
      BY BlockFetchAssumption, Zenon DEF Inv, TypeOK
    <3>2. Len(futures) \in Nat /\ DOMAIN futures = 1..Len(futures) /\ Len(executor) \in Nat
        BY <3>1, SMTT(60)
    <3> QED BY <3>1, <3>2, SMTT(60) DEF Polled
  <2>2. CASE \E i \in Polled : FutureStep(i)
    BY <2>1, <2>2, CollectedStep, RequestStep, SendStep, Zenon DEF FutureStep
  <2> QED BY <1>3, <2>2, ReceiveBlockStep, YieldStep, ExecutorStep, Zenon DEF BlockTask
<1>4. CASE Ask \/ HandleTimeouts \/ \E i \in DOMAIN queue : Expire(i)
  BY <1>4, AskStep, TimeoutSteps, Zenon
<1>5. CASE (\E t \in Gossiped : LearnTx(t)) \/ UNCHANGED vars
  BY <1>5, OutsideSteps, Zenon
<1> QED BY <1>1, <1>2, <1>3, <1>4, <1>5, Zenon DEF Next

LEMMA Invariance == Spec => []Inv
<1>1. Init => Inv BY InitInv, Zenon
<1>2. Inv /\ [Next]_vars => Inv' BY InvNext, Zenon
<1> QED BY <1>1, <1>2, PTL DEF Spec

\* Every queue, cache and task of the fetching machinery keeps its type; in particular a
\* future's record of its transactions always has one entry per transaction of its block
\* (request_block, blocks_processing_task, ObjectTracker).
THEOREM TypeCorrect == Spec => []TypeOK
<1>1. Inv => TypeOK BY Zenon DEF Inv
<1> QED BY <1>1, Invariance, PTL

\* pending_requests of blocks_processing_task is at every moment exactly the set of the
\* blocks being requested or added, and no block is requested or added twice at a time,
\* whatever the peers announce and in whichever order the requests end.
THEOREM PendingRequestsExact == Spec => []PendingExact
<1>1. Inv => PendingExact BY Zenon DEF Inv
<1> QED BY <1>1, Invariance, PTL

\* A request in the ObjectTracker's queue that was never sent has its hash in the channel
\* of the requester, or a future that waits for room there, unless that future was dropped
\* with its block: no request is lost between request_block and the requester loop.
THEOREM NoRequestLost == Spec => []UnsentOnItsWay
<1>1. Inv => UnsentOnItsWay BY Zenon DEF Inv
<1> QED BY <1>1, Invariance, PTL
=============================================================================
