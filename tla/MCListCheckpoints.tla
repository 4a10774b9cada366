-------------------------- MODULE MCListCheckpoints --------------------------
(* Values for TLC: an empty directory and one with archives that are whole,    *)
(* torn, lack a dump, or vanish, and one that a killed command left behind.   *)
EXTENDS ListCheckpoints, TLC

MCFilesIn == ("p" :> {"p1", "p2"}) @@ ("q" :> {}) @@ ("[" :> {})
MCInOrder(S) == SelectSeq(<<"p1", "p2">>, LAMBDA f : f \in S)
Archived(config, spec) == [exists |-> TRUE, whole |-> TRUE, config |-> config, spec |-> spec]
MCContents == {Archived("x", "x"), Archived("none", "x"), Archived("y", "bad"),
               [Archived("x", "y") EXCEPT !.whole = FALSE],
               [exists |-> FALSE, whole |-> FALSE, config |-> "none", spec |-> "none"]}
MCArguments == {<<"q", "p">>, <<"p", "[">>}
MCLeftovers == {[d \in {"t1"} |-> [config |-> "y", spec |-> "y"]]}
=============================================================================
