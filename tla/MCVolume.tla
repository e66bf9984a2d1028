------------------------------ MODULE MCVolume ------------------------------
(***************************************************************************)
(* Volume with two processes, so that mounts overlap and one is refused.   *)
(***************************************************************************)
EXTENDS Volume, TLC

\* The invariants of MCVolume.cfg say nothing once mounts have overlapped, and
\* that is never undone, so such behaviours are followed only far enough for a
\* mount to be refused.
Apart == raced => \A p \in Proc : ~Idle(p)

Symm == Permutations(Proc)
=============================================================================
