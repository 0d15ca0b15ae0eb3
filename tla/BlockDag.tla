------------------------------ MODULE BlockDag ------------------------------
(***************************************************************************)
(* A node that receives blocks (Blockchain::add_new_block, rewind_chain,   *)
(* startup): which ones it accepts, how it orders them, and what it then   *)
(* holds for stable.  Every DAG is built, one accepted block at a time: a  *)
(* block is accepted after its tips, so any arrival order of any DAG is a  *)
(* behaviour.                                                              *)
(*                                                                         *)
(* chain is what is stored (see DagAlgorithms), with                       *)
(*   applied   the block whose state changes are stored at a topoheight    *)
(*   ended     the last topoheight of the last full order                  *)
(* `ended', and the headers of deleted blocks, are not stored by the code: *)
(* they are kept to state properties, and to let a deleted block return.   *)
(* The blocks are valid in all but their place in the DAG, the chain is    *)
(* not pruned and has no checkpoints, and every call runs to its end.      *)
(***************************************************************************)
EXTENDS DagAlgorithms

CONSTANTS
    Blocks,         \* the hashes, numbers
    Genesis,
    Difficulties,   \* what get_difficulty_at_tips may answer
    MaxTips,        \* at most TIPS_LIMIT
    MaxRewinds,     \* bound on the rewinds and restarts of a behaviour
    MaxRewound      \* bound on the blocks stored before one

ASSUME DagAssumption ==
    /\ Blocks \subseteq Nat /\ Genesis \in Blocks /\ IsFiniteSet(Blocks)
    /\ Difficulties \subseteq Nat \ {0} /\ MaxTips \in 1..3 /\ {MaxRewinds, MaxRewound} \subseteq Nat

VARIABLES
    chain, caches, stable_height, stable_topoheight, calls

vars == <<chain, caches, stable_height, stable_topoheight, calls>>

Topos == 0..Cardinality(Blocks) - 1
NoHeader == [tips |-> <<>>, height |-> 0, difficulty |-> 0]
NoCaches == [tip_base |-> <<>>, common_base |-> <<>>, work |-> <<>>, order |-> <<>>]

(* After the genesis block was added. *)
Init ==
    /\ \E d \in Difficulties :
          chain = [header     |-> [b \in Blocks |-> IF b = Genesis
                                    THEN [NoHeader EXCEPT !.difficulty = d] ELSE NoHeader],
                   blocks     |-> {Genesis},
                   cum        |-> [b \in Blocks |-> IF b = Genesis THEN d ELSE 0],
                   topo       |-> [b \in Blocks |-> IF b = Genesis THEN 0 ELSE Absent],
                   hash_at    |-> [n \in Topos |-> IF n = 0 THEN Genesis ELSE Absent],
                   applied    |-> [n \in Topos |-> IF n = 0 THEN Genesis ELSE Absent],
                   tips       |-> {Genesis},
                   height     |-> 0,
                   topoheight |-> 0,
                   ended      |-> 0]
    /\ caches = NoCaches
    /\ stable_height = 0 /\ stable_topoheight = 0
    /\ calls = 0

-----------------------------------------------------------------------------
(* Adding a block *)

(* The headers a block may have: any tips that are stored, the height and  *)
(* the difficulty that follow from them.  A hash names one header.         *)
Headers(b) ==
    {h \in {[tips |-> t, height |-> HeightAtTips(chain, t), difficulty |-> d] :
               t \in UNION {[1..n -> chain.blocks] : n \in 1..MaxTips}, d \in Difficulties} :
        /\ IsInjective(h.tips)
        /\ chain.header[b] \in {NoHeader, h}
        /\ \A o \in Blocks : TipsOf(chain, o) = h.tips => Difficulty(chain, o) = h.difficulty}

(* The early returns of add_new_block that are about the DAG.              *)
Accepts(c, b) ==
    /\ HeightOf(c, b) >= stable_height
    /\ NonReachable(c, Past(c, b))
    /\ \A t \in Past(c, b) : NearMain(c, t, HeightOf(c, b) - 1)
    /\ LET heaviest == SelectSeq(TipsOf(c, b), LAMBDA t : t \in Heaviest(c, Past(c, b)))
       IN  \A t \in Past(c, b) \ {Head(heaviest)} : ValidTip(c, Head(heaviest), t)

(* The blocks of the order that are left where they are: a prefix, none    *)
(* when the order starts at the genesis.                                   *)
Unmoved(c, order, from) ==
    IF from = 0 THEN 0
    ELSE Max({k \in 0..Len(order) : \A i \in 1..k :
                 /\ from + i - 1 <= c.topoheight
                 /\ Ordered(c, order[i]) /\ c.hash_at[from + i - 1] = order[i]})

(* The cleaning and the execution: every block above the prefix loses its  *)
(* state, then the order is executed from there.                           *)
Reapplied(c, order, from) ==
    LET first == from + Unmoved(c, order, from)
        top   == from + Len(order) - 1
    IN  [n \in Topos |-> CASE n \in first..top -> order[n - from + 1]
                           [] n > top /\ n \in first..c.topoheight -> Absent
                           [] OTHER -> c.applied[n]]

(* The ordering: each block of the order gets its topoheight.              *)
Placed(c, order, from) ==
    LET place == [b \in ToSet(order) |->
                     from - 1 + CHOOSE i \in DOMAIN order : order[i] = b]
        top   == from + Len(order) - 1
    IN  [c EXCEPT
            !.hash_at = [n \in Topos |-> IF n \in from..top THEN order[n - from + 1] ELSE @[n]],
            !.topo    = [b \in Blocks |-> IF b \in DOMAIN place THEN place[b] ELSE @[b]],
            !.applied = Reapplied(c, order, from),
            !.ended   = top]

(* The topoheight is only raised.                                          *)
Raised(c) ==
    IF c.height = 0 \/ c.ended > c.topoheight THEN c.ended ELSE c.topoheight

(* The tips that are not too easy, next to the heaviest one.               *)
KeptTips(c, tips, best) == {t \in tips : t = best \/ ValidTip(c, best, t)}

(* The block is saved with its cumulative difficulty: the score from the   *)
(* common base of its tips.                                                *)
Saved(c, m, b) ==
    [c EXCEPT !.blocks = @ \cup {b},
              !.cum[b] = m.work[<<b, m.common_base[Past(c, b)]>>]]

(* Mutant: only the first tip stops being one.                             *)
NewTipsFirst(c, b) == (c.tips \cup {b}) \ {Head(TipsOf(c, b))}

(* The new block is a tip in place of the ones it builds on.               *)
NewTips(c, b) == (c.tips \cup {b}) \ Past(c, b)

(* What add_new_block makes of a saved block, one result for each of the   *)
(* heaviest tips.  Some tip is near enough in every state checked: the     *)
(* call never fails for having none left.                                  *)
Integrated(c, m, b) ==
    LET tips  == NewTips(c, b)
        m3    == CommonBaseCached(c, m, tips)
        base  == m3.common_base[tips]
        m4    == BestTipCached(c, m3, tips, base)
        full  == FullOrder(c, m4, BestTip(m4, tips, base), base)
        after == Placed(c, full.order, c.topo[base])
        near  == {t \in tips : NearMain(after, t, after.height)}
    IN  {[chain  |-> [after EXCEPT !.tips       = KeptTips(after, near, best),
                                   !.topoheight = Raised(after),
                                   !.height     = Max({@, HeightOf(c, b)})],
          caches |-> full.caches,
          base   |-> base] : best \in Heaviest(after, near)}

(* The caches once the work of a block was counted. *)
Counting(c, m, b) ==
    LET m1 == CommonBaseCached(c, m, Past(c, b))
    IN  WorkCached(c, m1, b, m1.common_base[Past(c, b)])

AddBlock(b, header) ==
    /\ b \notin chain.blocks
    /\ \E c \in {[chain EXCEPT !.header[b] = header]} :
       /\ Accepts(c, b)
       /\ \E m \in {Counting(c, caches, b)} : \E to \in Integrated(Saved(c, m, b), m, b) :
             /\ chain' = to.chain
             /\ caches' = to.caches
             /\ stable_height' = HeightOf(to.chain, to.base)
             /\ stable_topoheight' = chain.topo[to.base]
    /\ UNCHANGED calls

-----------------------------------------------------------------------------
(* Rewind and restart *)

(* The block at a topoheight is the only one of its height.                *)
Alone(c, n) == \A o \in c.blocks : HeightOf(c, o) = HeightOf(c, c.hash_at[n]) => o = c.hash_at[n]

(* pop_blocks: the search of the topoheight to stop at.                    *)
LowestTopo(c, count) ==
    Max({n \in 0..c.topoheight - count : n = 0 \/ Alone(c, n)})

(* The tips after a rewind: no orphans, and the parents of what is gone.   *)
TipsWithout(c, gone) ==
    ({t \in c.tips : Ordered(c, t)} \cup UNION {Past(c, b) : b \in gone}) \ gone

(* pop_blocks: the blocks above a topoheight are deleted from the top      *)
(* down, their tips become tips again.                                     *)
Popped(c, stop) ==
    LET gone == {c.hash_at[n] : n \in stop + 1..c.topoheight}
        left == [n \in Topos |-> IF n \in stop + 1..c.topoheight THEN Absent ELSE c.hash_at[n]]
    IN  [c EXCEPT
            !.blocks     = @ \ gone,
            !.cum        = [b \in Blocks |-> IF b \in gone THEN 0 ELSE @[b]],
            !.topo       = [b \in Blocks |-> IF b \in gone THEN Absent ELSE @[b]],
            !.hash_at    = left,
            !.applied    = [n \in Topos |-> IF n \in stop + 1..c.topoheight THEN Absent ELSE @[n]],
            !.tips       = TipsWithout(c, gone),
            !.height     = Min({@} \cup {HeightOf(c, b) : b \in gone}),
            !.topoheight = Min({@, stop}),
            !.ended      = Min({@, stop})]

(* rewind_chain_for_storage.  The stable height is looked up before the    *)
(* caches are cleared.  A chain whose order got shorter is not rewound.    *)
CanRewind(count) ==
    /\ count <= chain.topoheight
    /\ \A n \in 0..chain.topoheight : chain.hash_at[n] # Absent /\ Ordered(chain, chain.hash_at[n])

Rewind(count, stop_at_stable_height) ==
    /\ CanRewind(count)
    /\ LET until == IF stop_at_stable_height THEN stable_topoheight ELSE 0
           after == Popped(chain, Max({LowestTopo(chain, count), until}))
           base  == CommonBase(after, caches, after.tips)
       IN  /\ chain' = after
           /\ IF stop_at_stable_height
              THEN UNCHANGED <<stable_height, stable_topoheight>>
              ELSE stable_height' = HeightOf(after, base) /\ stable_topoheight' = after.topo[base]
    /\ caches' = NoCaches

RewindChain(count, stop_at_stable_height) ==
    /\ calls < MaxRewinds /\ calls' = calls + 1 /\ Cardinality(chain.blocks) <= MaxRewound
    /\ Rewind(count, stop_at_stable_height)

(* The node stops and starts again from what it stored.                    *)
Restart ==
    /\ calls < MaxRewinds /\ calls' = calls + 1 /\ Cardinality(chain.blocks) <= MaxRewound
    /\ LET m    == CommonBaseCached(chain, NoCaches, chain.tips)
           base == m.common_base[chain.tips]
       IN  /\ caches' = m
           /\ stable_height' = HeightOf(chain, base)
           /\ stable_topoheight' = chain.topo[base]
    /\ UNCHANGED chain

Next ==
    \/ \E b \in Blocks \ chain.blocks : \E header \in Headers(b) : AddBlock(b, header)
    \/ \E count \in 1..Cardinality(Blocks), stop_at_stable_height \in BOOLEAN :
          RewindChain(count, stop_at_stable_height)
    \/ Restart

Spec == Init /\ [][Next]_vars

-----------------------------------------------------------------------------
(* Properties *)

(* Every ordered block comes after all the blocks it builds on: the order  *)
(* of generate_full_order, cut at a base and put above it, is topological. *)
ParentsFirst ==
    \A n \in 0..chain.topoheight : \A t \in Past(chain, chain.hash_at[n]) :
        \E k \in 0..n - 1 : chain.hash_at[k] = t

(* Before any rewind or restart (calls = 0), no tip is in the past of      *)
(* another one, so that a block built on all of them passes                *)
(* verify_non_reachability.                                                *)
TipsIncomparable ==
    calls = 0 => \A t, u \in chain.tips : t # u => t \notin Reachable(chain, u).set

(* The full order of a new block is put above an ordered base that is part *)
(* of it, and takes no block ordered below the base: what add_new_block    *)
(* relies on when it cleans and places the order from the base up.         *)
OrderAboveBase ==
    [][calls' = calls =>
        LET base == chain.hash_at[stable_topoheight'] IN
        /\ stable_topoheight' <= chain.ended /\ Ordered(chain, base)
        /\ \E n \in stable_topoheight'..chain'.ended : chain'.hash_at[n] = base
        /\ stable_topoheight' = 0 => chain'.hash_at[0] = base
        /\ \A n \in stable_topoheight'..chain'.ended :
              Ordered(chain, chain'.hash_at[n])
                  => chain.topo[chain'.hash_at[n]] >= stable_topoheight']_vars

(* All the work a block builds on, and its own.                            *)
RECURSIVE PastOf(_, _)
PastOf(c, b) == {b} \cup UNION {PastOf(c, t) : t \in Past(c, b)}
Work(c, b) == FoldSet(LAMBDA x, acc : Difficulty(c, x) + acc, 0, PastOf(c, b))

(* The order computed from the genesis, over the heaviest of all blocks,   *)
(* with nothing ordered or cached before.                                  *)
CanonicalOrder(c) ==
    LET new == [c EXCEPT !.topo    = [b \in Blocks |-> IF b = Genesis THEN 0 ELSE Absent],
                         !.hash_at = [n \in Topos |-> IF n = 0 THEN Genesis ELSE Absent]]
    IN  Visit(new, NoCaches, Genesis, <<Last(Ascending(new, c.blocks))>>, <<>>, {}).order

(* Before any rewind or restart (calls = 0), the order is a function of    *)
(* the accepted blocks: a cumulative difficulty is all the work below, and *)
(* add_new_block gives the same order whatever order the blocks came in,   *)
(* and whatever bases and caches it used on the way.  Two nodes with the   *)
(* same blocks agree.                                                      *)
OrderIsCanonical == calls = 0 =>
    /\ \A b \in chain.blocks : chain.cum[b] = Work(chain, b)
    /\ [i \in 1..chain.topoheight + 1 |-> chain.hash_at[i - 1]] = CanonicalOrder(chain)
=============================================================================
