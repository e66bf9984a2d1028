------------------------------- MODULE MCFsck -------------------------------
(* Fsck for TLC.  The names, and the inodes other than the root, are       *)
(* interchangeable.                                                        *)
EXTENDS Fsck, TLC

Symmetry == Permutations(Name) \cup Permutations(Inode \ {Root})
=============================================================================
