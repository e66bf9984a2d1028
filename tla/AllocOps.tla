------------------------------ MODULE AllocOps ------------------------------
(***************************************************************************)
(* What the block side of an allocator (alloc_ops_t, check.h) and its      *)
(* callers promise together, whichever backend implements it: the four     *)
(* places a block can be, and the only moves between them.  The states are *)
(* those of the ownership table of instrument.c, plus the free list as the *)
(* image on disk shows it.                                                 *)
(***************************************************************************)
CONSTANT Block

VARIABLES mfree,  \* free in core: what balloc hands out
          sfree,  \* free on disk: what a remount would hand out
          used,   \* named by an inode on disk
          held    \* with the running request: allocated, or released, unassigned

vars == <<mfree, sfree, used, held>>

Init ==
  /\ mfree \in SUBSET Block /\ sfree = mfree
  /\ used \in SUBSET (Block \ mfree)
  /\ held = {}

\* filsys_instr_balloc: the block was free, and is nobody's yet.
Balloc(b) ==
  /\ b \in mfree
  /\ mfree' = mfree \ {b} /\ held' = held \cup {b}
  /\ UNCHANGED <<sfree, used>>

\* filsys_instr_bfree: the block was released, and not free already.
Bfree(b) ==
  /\ b \in held
  /\ held' = held \ {b} /\ mfree' = mfree \cup {b}
  /\ UNCHANGED <<sfree, used>>

\* filsys_instr_assign and filsys_instr_release, at the inode write: the inode
\* may name only blocks the image does not list as free.
Publish(add, drop) ==
  /\ add \subseteq held \ sfree /\ drop \subseteq used
  /\ used' = (used \ drop) \cup add
  /\ held' = (held \ add) \cup drop
  /\ UNCHANGED <<mfree, sfree>>

\* The allocator state reaches the disk.
Flush ==
  /\ sfree' = mfree
  /\ UNCHANGED <<mfree, used, held>>

\* A failure may lose blocks: a leak, which a salvage recovers.
Leak(m, h) ==
  /\ mfree' = mfree \ m /\ held' = held \ h
  /\ UNCHANGED <<sfree, used>>

\* The image is mounted again.
Remount ==
  /\ mfree' = sfree /\ held' = {}
  /\ UNCHANGED <<sfree, used>>

Next ==
  \/ \E b \in Block : Balloc(b) \/ Bfree(b)
  \/ \E add, drop \in SUBSET Block : Publish(add, drop)
  \/ Flush
  \/ \E m, h \in SUBSET Block : Leak(m, h)
  \/ Remount

Spec == Init /\ [][Next]_vars

\* What the contract is for: no block is in two places, on disk or in core.
Exclusive ==
  /\ mfree \cap used = {} /\ mfree \cap held = {} /\ held \cap used = {}
  /\ sfree \cap used = {}
=============================================================================
