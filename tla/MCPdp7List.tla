---------------------------- MODULE MCPdp7List ----------------------------
(* Pdp7List for TLC.                                                       *)
EXTENDS Pdp7List

\* Once the list cannot be trusted, only the freeing of blocks and the salvage
\* are followed further: files are written again after it.
Tended == torn => Idle \/ Last(todo).do \in {"bfree", "rebuilt", "reopen"}
===========================================================================
