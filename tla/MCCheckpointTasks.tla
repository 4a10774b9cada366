------------------------- MODULE MCCheckpointTasks -------------------------
(* Values for TLC.                                                          *)
EXTENDS CheckpointTasks, TLC

Entry(n, d) == [name |-> n, data |-> d]
Tar(entries, intact) ==
  [kind |-> "regular", hasDir |-> TRUE, intact |-> intact, entries |-> entries]

MCGone == [kind |-> "missing", hasDir |-> FALSE, intact |-> FALSE, entries |-> <<>>]
(* Without checkpoint/; it lacks images and pages if it replaces another one.  *)
MCNoCheckpoint == [Tar(<<Entry("dumps", "v2")>>, TRUE) EXCEPT !.hasDir = FALSE]
MCWhole ==
  Tar(<<Entry("dumps", "v1"), Entry("images", "v1"), Entry("pages", "v1")>>, TRUE)
(* A name occurs twice; its images and pages do not parse.                     *)
MCTwice ==
  Tar(<<Entry("dumps", "v1"), Entry("dumps", "v2"),
        Entry("images", "broken"), Entry("pages", "broken")>>, TRUE)
MCTorn == Tar(<<Entry("dumps", "v2")>>, FALSE)

MCData == {"v1", "v2", "broken"}
MCTars == {MCNoCheckpoint, MCWhole, MCTwice, MCTorn}
MCTwoTars == {MCGone, MCWhole}
MCAllCommands == AllCommands
MCTwoCommands == {"show", "memparse --pid", "diff"}
MCSymmetry == Permutations(Procs) \union Permutations(Dirs)
=============================================================================
