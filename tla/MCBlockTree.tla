---------------------------- MODULE MCBlockTree ----------------------------
(* BlockTree for TLC.  Blocks are interchangeable: nothing orders them.     *)
EXTENDS BlockTree, TLC

Symmetry == Permutations(Block)
=============================================================================
