------------------------------ MODULE MCPeers ------------------------------
(* An instance of Peers for TLC.                                            *)
EXTENDS Peers

CONSTANTS First, FirstId

\* The ids are interchangeable, so the first connection announces the first one.
MCAnnounced == [c \in Conns |-> IF c = First THEN {FirstId} ELSE Ids]
=============================================================================
