------------------------------ MODULE MCTools ------------------------------
(***************************************************************************)
(* The formats and sizes TLC builds disks from: every edition, and the     *)
(* options that change what is on the disk.                                *)
(***************************************************************************)
EXTENDS Tools

V8Map == apply_geom(V8, 4096, "bitmap", "le")
V9Map == apply_geom(getformat("v9"), 8192, "bitmap", "be")
V10Map == apply_geom(getformat("v10"), 4096, "bigmap", "le")
Vax == getformat("vax32")
Interleaving == with_interleave(getformat("coherent"), 3, 6)
BigSysV == with_bsize(with_arch(getformat("sysvr2"), "be"), 1024)

\* Every edition, and each option of mkfs that changes the layout.
MCFmts ==
    {getformat(Table[i]) : i \in DOMAIN Table}
    \cup {V8Map, V9Map, apply_geom(getformat("v9"), 8192, "bitmap", "le"), V10Map,
          Interleaving, with_arch(getformat("sysiii"), "me"), BigSysV}

\* Volumes of 60 blocks have no chain block, or one; those of 130 and more
\* have several, and V6 needs them for an i-list of 3 blocks.  At 201 V6's
\* rebuilding skips the last block.  Three operations are what it takes to
\* put a salvaged volume's blocks into two files, on V7; on the others fewer.
MCFirsts ==
    {<<f, 60, 1>> : f \in MCFmts \ {V7, V8Map}}
    \cup {<<f, 130, 0>> : f \in {V7, V8, getformat("v9"), getformat("coherent"), BigSysV,
                                 Interleaving, getformat("sysvr4"), getformat("xenix")}}
    \cup {<<V6, 130, 1>>, <<V6, 201, 1>>, <<V7, 60, 3>>, <<V8Map, 60, 2>>}

\* System V in each byte order and block size.
MCSysV == {<<with_bsize(with_arch(getformat(ed), bo), bs), n, 1>> :
             ed \in {"sysvr2", "sysvr4"}, bo \in {"le", "be"}, bs \in {512, 1024, 2048},
             n \in {60, 130}}

MCSeconds == {<<V7, 16, 0>>, <<V7, 16, 1>>, <<V8Map, 16, 0>>, <<getformat("bsd211"), 60, 1>>}

MCOvers == {<<V7, 60>>, <<Vax, 60>>, <<getformat("bsd29"), 130>>, <<V8Map, 60>>}
=============================================================================
