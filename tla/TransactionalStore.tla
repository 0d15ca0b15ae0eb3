------------------------- MODULE TransactionalStore -------------------------
(***************************************************************************)
(* What a commit point promises to the code that uses the storage: a key   *)
(* reads as the last value written to it, whether or not a commit point is *)
(* open; a commit point that is not applied leaves no trace; one that is   *)
(* applied becomes the stored state key by key, which only a restart in    *)
(* the middle can show.                                                    *)
(***************************************************************************)
CONSTANTS Keys, Values, None

VARIABLES
    seen,        \* what a read of each key returns (None: no such key)
    kept,        \* what a rollback or a restart goes back to
    open,        \* a commit point is set
    committing   \* the writes of a commit point are being applied

vars == <<seen, kept, open, committing>>

Cells == Values \cup {None}

Init ==
    /\ seen \in [Keys -> Cells]
    /\ kept = seen
    /\ open = FALSE
    /\ committing = FALSE

\* A write is seen at once, and is kept at once when no commit point is set.
Write(S, c) ==
    /\ ~committing
    /\ seen' = [k \in Keys |-> IF k \in S THEN c ELSE seen[k]]
    /\ kept' = IF open THEN kept ELSE seen'
    /\ UNCHANGED <<open, committing>>

Start ==
    /\ ~committing
    /\ ~open
    /\ open' = TRUE
    /\ UNCHANGED <<seen, kept, committing>>

Rollback ==
    /\ open
    /\ seen' = kept
    /\ open' = FALSE
    /\ UNCHANGED <<kept, committing>>

Commit ==
    /\ open
    /\ open' = FALSE
    /\ committing' = TRUE
    /\ UNCHANGED <<seen, kept>>

Settle(k) ==
    /\ committing
    /\ kept' = [kept EXCEPT ![k] = seen[k]]
    /\ UNCHANGED <<seen, open, committing>>

Committed ==
    /\ committing
    /\ kept = seen
    /\ committing' = FALSE
    /\ UNCHANGED <<seen, kept, open>>

Restart ==
    /\ seen' = kept
    /\ open' = FALSE
    /\ committing' = FALSE
    /\ UNCHANGED kept

Next ==
    \/ \E S \in SUBSET Keys, c \in Cells : Write(S, c)
    \/ Start \/ Rollback \/ Commit \/ Committed \/ Restart
    \/ \E k \in Keys : Settle(k)

Spec == Init /\ [][Next]_vars
=============================================================================
