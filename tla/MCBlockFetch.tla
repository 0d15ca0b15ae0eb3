---------------------------- MODULE MCBlockFetch ----------------------------
(* Instances of BlockFetch for TLC.                                         *)
EXTENDS BlockFetch, TLC

CONSTANTS b1, b2, t1, t2

MCTxsOf == b1 :> <<t1>> @@ b2 :> <<t1, t2>>
=============================================================================
