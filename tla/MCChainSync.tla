---------------------------- MODULE MCChainSync ----------------------------
(* Instances of ChainSync: a fork below the stable height (4 to 7), one    *)
(* above it (8, 9), and a chain that is only ahead (10, 11).               *)
EXTENDS ChainSync

MCParents == <<<<0>>, <<1>>, <<2>>, <<0>>, <<4>>, <<5>>, <<6>>, <<2>>, <<8>>, <<3>>, <<10>>>>
MCHeights == <<1, 2, 3, 1, 2, 3, 4, 3, 4, 4, 5>>
MCHeaders == [b \in 0..11 |-> IF b = 0 THEN [NoHeader EXCEPT !.difficulty = 10]
                              ELSE [tips |-> MCParents[b], height |-> MCHeights[b], difficulty |-> 10]]
MCStarts == {[ours |-> <<0, 1, 2, 3>>, theirs |-> t] :
                t \in {<<0, 4, 5, 6, 7>>, <<0, 1, 2, 8, 9>>, <<0, 1, 2, 3, 10, 11>>}}
=============================================================================
