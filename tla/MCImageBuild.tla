---------------------------- MODULE MCImageBuild ----------------------------
(* Values for TLC.                                                          *)
EXTENDS ImageBuild, TLC

MCSymmetry == Permutations(Builders) \union Permutations(Containers)
              \union Permutations(Keys) \union Permutations(Good)
=============================================================================
