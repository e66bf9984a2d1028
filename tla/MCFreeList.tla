----------------------------- MODULE MCFreeList -----------------------------
(***************************************************************************)
(* FreeList on an image as mkfs leaves it: no file, and a list built by    *)
(* v7fs_makefree's loop, which frees the blocks one by one, so that with a *)
(* small cache the dump blocks chain.                                      *)
(***************************************************************************)
EXTENDS FreeList

NBlocks == Cardinality(Block)
Orders == {o \in [1..NBlocks -> Block] : \A j, k \in 1..NBlocks : j # k => o[j] # o[k]}

\* The list, and the blocks, after freeing o[1] .. o[k].
Made(o) ==
  LET made[k \in 0..NBlocks] ==
        IF k = 0 THEN [seg |-> NoSeg, disk |-> [b \in Block |-> Data]]
        ELSE LET m == made[k - 1]
                 s == IF m.seg.n = 0 THEN [n |-> 1, a |-> NoSeg.a] ELSE m.seg
             IN IF s.n < NICFREE
                THEN [m EXCEPT !.seg = [n |-> s.n + 1, a |-> [s.a EXCEPT ![s.n] = o[k]]]]
                ELSE [seg  |-> [n |-> 1, a |-> [NoSeg.a EXCEPT ![0] = o[k]]],
                      disk |-> [m.disk EXCEPT ![o[k]] = s]]
  IN made[NBlocks]

MCInit ==
  /\ \E o \in Orders : /\ sb = [seg |-> Made(o).seg, tfree |-> NBlocks]
                       /\ disk = Made(o).disk
  /\ inode = [i \in Inode |-> Blank]
  /\ Init

MCSpec == MCInit /\ [][Next]_vars
MCFairSpec == MCSpec /\ WF_vars(Step)
=============================================================================
