----------------------------- MODULE MCDagReorg -----------------------------
(* A small instance of DagReorg: two blocks hold the transaction t, one    *)
(* holds none.  The blocks that hold it are interchangeable.               *)
EXTENDS DagReorg, TLC

CONSTANTS b1, b2, b3, t, g

InTwoBlocks == (g :> {}) @@ (b1 :> {t}) @@ (b2 :> {t}) @@ (b3 :> {})

Symmetry == Permutations({b1, b2})
=============================================================================
