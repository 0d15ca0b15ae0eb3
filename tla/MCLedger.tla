------------------------------ MODULE MCLedger ------------------------------
(* Two accounts: A owns coins at genesis, B owns nothing yet.              *)
EXTENDS Ledger, TLC
CONSTANTS A, B
Coins == A :> 1
=============================================================================
