--------------------------- MODULE DagAlgorithms ---------------------------
(***************************************************************************)
(* The algorithms that turn the block DAG into one topological order       *)
(* (daemon/src/core/blockchain.rs and blockdag.rs).                        *)
(*                                                                         *)
(* They read the stored chain c, a record:                                 *)
(*   header    tips (a sequence), height and difficulty of a block         *)
(*   blocks    the saved blocks          cum       cumulative difficulties *)
(*   topo      topoheight of a block     hash_at   block at a topoheight   *)
(* and four caches m, a record of functions with growing domains:          *)
(*   tip_base[<<block, height>>], common_base[tips],                       *)
(*   work[<<block, base>>], order[<<block, base>>].                        *)
(* A block is a number, which is also its hash: hashes are only compared.  *)
(* The chain is not pruned.                                                *)
(***************************************************************************)
EXTENDS Integers, Sequences, FiniteSets, FiniteSetsExt, SequencesExt, TLC

CONSTANT STABLE_LIMIT

ASSUME LimitAssumption == STABLE_LIMIT \in Nat \ {0}

Absent == -1
TipsOf(c, b) == c.header[b].tips
Past(c, b) == ToSet(c.header[b].tips)
HeightOf(c, b) == c.header[b].height
Difficulty(c, b) == c.header[b].difficulty

(* calculate_height_at_tips *)
HeightAtTips(c, tips) == IF tips = <<>> THEN 0 ELSE 1 + Max({HeightOf(c, t) : t \in ToSet(tips)})

(* is_block_topological_ordered *)
Ordered(c, b) == c.topo[b] # Absent /\ c.hash_at[c.topo[b]] = b

(* Mutant: one topoheight too low.                                         *)
AtOrAboveLower(c, b, n) == ~Ordered(c, b) \/ c.topo[b] >= n - 1

(* An unordered block, or an ordered one at or above a topoheight.         *)
AtOrAbove(c, b, n) == ~Ordered(c, b) \/ c.topo[b] >= n

-----------------------------------------------------------------------------
(* Stability *)

StablePoint(h) == IF h >= STABLE_LIMIT THEN h - STABLE_LIMIT ELSE STABLE_LIMIT - h

(* is_sync_block_at_height: ordered, deep enough, the only ordered block   *)
(* at its height and heavier than the ordered blocks of the heights below. *)
IsSync(c, b, height) ==
    \/ HeightOf(c, b) = 0
    \/ /\ HeightOf(c, b) + STABLE_LIMIT <= height
       /\ Ordered(c, b)
       /\ \A o \in {x \in c.blocks \ {b} : Ordered(c, x)} :
             /\ HeightOf(c, o) # HeightOf(c, b)
             /\ HeightOf(c, o) \in StablePoint(HeightOf(c, b))..HeightOf(c, b) - 1 /\ HeightOf(c, o) # 0
                   => c.cum[o] < c.cum[b]

(* One turn of the loop of find_tip_base: the bases found from a block and *)
(* the tips left to explore.  The first sync tip ends the turn.            *)
Explored(c, m, b, height) ==
    LET sync == {i \in DOMAIN TipsOf(c, b) : IsSync(c, TipsOf(c, b)[i], height)} IN
    CASE <<b, height>> \in DOMAIN m.tip_base ->
            [bases |-> {m.tip_base[<<b, height>>]}, tips |-> {}]
      [] <<b, height>> \notin DOMAIN m.tip_base /\ TipsOf(c, b) = <<>> ->
            [bases |-> {b}, tips |-> {}]
      [] OTHER ->
            [bases |-> IF sync = {} THEN {} ELSE {TipsOf(c, b)[Min(sync)]},
             tips  |-> {TipsOf(c, b)[i] : i \in {j \in DOMAIN TipsOf(c, b) :
                                               \A s \in sync : j < s}}]

RECURSIVE Bases(_, _, _, _, _)
Bases(c, m, todo, seen, height) ==
    IF todo = {} THEN {}
    ELSE LET found == {Explored(c, m, b, height) : b \in todo}
             known == seen \cup todo
         IN  UNION {f.bases : f \in found}
             \cup Bases(c, m, UNION {f.tips : f \in found} \ known, known, height)

Lowest(c, S) == CHOOSE b \in S : \A o \in S : HeightOf(c, b) <= HeightOf(c, o)

(* find_tip_base, for one tip after the other: the lowest base found is    *)
(* cached.                                                                 *)
TipBaseCached(c, m, b, height) ==
    [m EXCEPT !.tip_base = (<<b, height>> :> Lowest(c, Bases(c, m, {b}, {}, height))) @@ @]

(* find_common_base; the result is also kept in the cache.                 *)
CommonBaseCached(c, m, tips) ==
    IF tips \in DOMAIN m.common_base THEN m
    ELSE LET height == Max({HeightOf(c, t) : t \in tips})
             after  == FoldSet(LAMBDA b, acc : TipBaseCached(c, acc, b, height), m, tips)
             base   == Lowest(c, {after.tip_base[<<b, height>>] : b \in tips})
         IN  [after EXCEPT !.common_base = (tips :> base) @@ @]

CommonBase(c, m, tips) == CommonBaseCached(c, m, tips).common_base[tips]

-----------------------------------------------------------------------------
(* Work *)

(* find_tip_work_score: the blocks counted for a tip, from the base up.    *)
RECURSIVE Counted(_, _, _, _)
Counted(c, todo, seen, n) ==
    IF todo = {} THEN seen
    ELSE LET known == seen \cup todo
             more  == {t \in UNION {Past(c, b) : b \in todo} : AtOrAbove(c, t, n)}
         IN  Counted(c, more \ known, known, n)

(* The base counts for all the work below it.                              *)
Score(c, b, base) ==
    LET work == Counted(c, {t \in Past(c, b) : AtOrAbove(c, t, c.topo[base])}, {}, c.topo[base])
    IN  Difficulty(c, b)
        + FoldSet(LAMBDA x, acc : Difficulty(c, x) + acc, 0, work \ {base, b})
        + (IF base = b THEN 0 ELSE c.cum[base])

WorkCached(c, m, b, base) ==
    IF <<b, base>> \in DOMAIN m.work THEN m
    ELSE [m EXCEPT !.work = (<<b, base>> :> Score(c, b, base)) @@ @]

(* find_best_tip: the highest score, the highest hash among equals.        *)
BestTipCached(c, m, tips, base) ==
    FoldSet(LAMBDA b, acc : WorkCached(c, acc, b, base), m, tips)

(* Mutant: the lowest hash among equals.                                   *)
BestTipLowestHash(m, tips, base) ==
    CHOOSE b \in tips : \A o \in tips \ {b} :
        \/ m.work[<<b, base>>] > m.work[<<o, base>>]
        \/ m.work[<<b, base>>] = m.work[<<o, base>>] /\ b < o

BestTip(m, tips, base) ==
    CHOOSE b \in tips : \A o \in tips \ {b} :
        \/ m.work[<<b, base>>] > m.work[<<o, base>>]
        \/ m.work[<<b, base>>] = m.work[<<o, base>>] /\ b > o

-----------------------------------------------------------------------------
(* The full order *)

(* Mutant: what is new comes first.                                        *)
ExtendFront(s, t) == SelectSeq(t, LAMBDA x : x \notin ToSet(s)) \o s

(* Extending an IndexSet keeps what is already there in its place.         *)
Extend(s, t) == s \o SelectSeq(t, LAMBDA x : x \notin ToSet(s))

(* sort_ascending_by_cumulative_difficulty *)
Lighter(c, a, b) == c.cum[a] < c.cum[b] \/ (c.cum[a] = c.cum[b] /\ a < b)
Ascending(c, S) ==
    [i \in 1..Cardinality(S) |->
        CHOOSE b \in S : Cardinality({o \in S : Lighter(c, o, b)}) = i - 1]

(* The loop of generate_full_order: a block comes back from the stack a    *)
(* second time once all of its tips were placed.                           *)
RECURSIVE Visit(_, _, _, _, _, _)
Visit(c, m, base, stack, order, processed) ==
    LET b     == Last(stack)
        rest  == Front(stack)
        tips  == {t \in Past(c, b) : AtOrAbove(c, t, c.topo[base])}
        known == <<b, base>> \in DOMAIN m.order
    IN  CASE stack = <<>> -> [order |-> order, caches |-> m]
          [] stack # <<>> /\ b \in processed ->
                Visit(c, m, base, rest, Extend(order, <<b>>), processed)
          [] stack # <<>> /\ b \notin processed /\ known ->
                Visit(c, m, base, rest, Extend(order, m.order[<<b, base>>]), processed)
          [] stack # <<>> /\ b \notin processed /\ ~known /\ (TipsOf(c, b) = <<>> \/ b = base) ->
                Visit(c, [m EXCEPT !.order = (<<b, base>> :> <<b>>) @@ @], base,
                      rest, Extend(order, <<b>>), processed)
          [] OTHER ->
                Visit(c, m, base, stack \o Ascending(c, tips), order, processed \cup {b})

(* generate_full_order: the order, and the caches with it.                 *)
FullOrder(c, m, best, base) ==
    LET v == Visit(c, m, base, <<best>>, <<>>, {})
    IN  [v EXCEPT !.caches.order = (<<best, base>> :> v.order) @@ @]

-----------------------------------------------------------------------------
(* The checks of a new block's tips *)

(* build_reachability: the past of a tip down to a limit of levels, and    *)
(* the blocks whose tips were read from storage.                           *)
RECURSIVE Reach(_, _, _, _)
Reach(c, stack, set, read) ==
    IF stack = <<>> THEN [set |-> set, read |-> read]
    ELSE LET b     == Last(stack)[1]
             level == Last(stack)[2]
             new   == SelectSeq(TipsOf(c, b), LAMBDA t : t \notin set \cup {b})
         IN  IF level >= 2 * STABLE_LIMIT
             THEN Reach(c, Front(stack), set \cup {b}, read)
             ELSE Reach(c, Front(stack) \o [i \in DOMAIN new |-> <<new[i], level + 1>>],
                        set \cup {b}, read \cup {b})

Reachable(c, b) == Reach(c, <<<<b, 0>>>>, {}, {})

(* verify_non_reachability: it fails when a past block is not stored.      *)
NonReachable(c, tips) ==
    /\ \A t \in tips : Reachable(c, t).read \subseteq c.blocks
    /\ \A t, u \in tips : t # u => t \notin Reachable(c, u).set

(* find_lowest_height_from_mainchain: the heights of the ordered blocks    *)
(* met first below an unordered one.                                       *)
RECURSIVE MainHeights(_, _)
MainHeights(c, b) ==
    {HeightOf(c, t) : t \in {x \in Past(c, b) : Ordered(c, x)}}
    \cup UNION {MainHeights(c, t) : t \in {x \in Past(c, b) : ~Ordered(c, x)}}

(* is_near_enough_from_main_chain, calculate_distance_from_mainchain       *)
NearMain(c, b, height) ==
    LET heights == IF Ordered(c, b) THEN {HeightOf(c, b)} ELSE MainHeights(c, b)
    IN  heights # {} /\ height - Min(heights) < STABLE_LIMIT

(* find_best_tip_by_cumulative_difficulty: the first of the heaviest.      *)
Heaviest(c, tips) == {b \in tips : \A o \in tips : c.cum[o] <= c.cum[b]}

(* validate_tips: a tip has more than 91% of the best tip's difficulty.    *)
ValidTip(c, best, b) == (Difficulty(c, best) * 91) \div 100 < Difficulty(c, b)
=============================================================================
