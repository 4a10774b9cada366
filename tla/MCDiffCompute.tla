--------------------------- MODULE MCDiffCompute ---------------------------
(* Values for TLC: the process trees are a chain, a fork and smaller ones.   *)
EXTENDS DiffCompute

Tree(r, c1, c2, c3) == [root |-> r, children |-> <<c1, c2, c3>>]
MCKeys == 1..3
MCTrees == {Tree(1, <<2>>, <<3>>, <<>>), Tree(1, <<3, 2>>, <<>>, <<>>),
            Tree(1, <<2>>, <<>>, <<>>), Tree(3, <<>>, <<>>, <<>>)}
MCDetails == {"x", "y"}
=============================================================================
