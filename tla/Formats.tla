------------------------------ MODULE Formats ------------------------------
(***************************************************************************)
(* The on-disk formats at their real layout: byte orders (byteorder.c),    *)
(* the edition descriptors (filsys_format.c), the superblock, inode,       *)
(* free-list and directory encodings (v7fs.c, v7fs.h, alloc_v8bitmap.c,    *)
(* v1fs.c), and the volume mkfs writes (filsys_mkfs.c).                    *)
(*                                                                         *)
(* A volume is a record of what the engine keeps about it; Image gives the *)
(* bytes the engine's encoders put on the disk, so that the probes of      *)
(* module Probe read a volume the way the program does, a field at a time  *)
(* and in whatever byte order and layout they try.  File contents are      *)
(* zeros.                                                                  *)
(***************************************************************************)
EXTENDS Integers, Sequences, FiniteSets, SequencesExt, TLC

CONSTANT Now     \* what time(NULL) returns: the word stored in s_time

----------------------------------------------------------------------------
(* Byte orders.                                                            *)

\* Which byte of the value (0 the lowest) a word of `wid` bytes stores k-th:
\* little-endian, big-endian, and the PDP-11's middle-endian (high word
\* first, each word little-endian; a 3-byte address is hi, lo, mid).
Sig(bo, wid, k) ==
    CASE bo = "le" -> k
      [] bo = "be" -> wid - 1 - k
      [] bo = "me" -> IF wid <= 2 THEN k
                      ELSE IF wid = 3 THEN <<2, 0, 1>>[k + 1]
                      ELSE <<2, 3, 0, 1>>[k + 1]

ByteOf(bo, wid, x, k) == (x \div 256^Sig(bo, wid, k)) % 256

\* A word read back.  Words of 2^30 and above are all one value, larger than
\* any block number or count of the volumes considered here.
Huge == 2^30

Word(bo, bytes) ==
    LET wid == Len(bytes)
    IN  IF \E k \in 1..wid : Sig(bo, wid, k - 1) = 3 /\ bytes[k] > 63 THEN Huge
        ELSE LET At(k) == IF k > wid THEN 0 ELSE bytes[k] * 256^Sig(bo, wid, k - 1)
             IN  At(1) + At(2) + At(3) + At(4)

----------------------------------------------------------------------------
(* Edition descriptors.                                                    *)

\* The V7 row, from which most others are copied.  sb names the superblock
\* codec; list, bitmap and bigmap are the free-space forms.
V7 == [ed |-> "v7", sb |-> "v7", bsize |-> 512, bo |-> "me", nicfree |-> 50,
       pack4 |-> FALSE, dinfo |-> FALSE, magic |-> "none", state |-> FALSE,
       form |-> "list", aw |-> 3, ndaddr |-> 10, isz |-> 64, fmod |-> TRUE,
       fmodback |-> 2, rootino |-> 2, dirent |-> 16, m |-> 1, n |-> 1]

V6 == [V7 EXCEPT !.ed = "v6", !.sb = "v6", !.nicfree = 100, !.aw = 2,
                 !.ndaddr = 8, !.isz = 32, !.rootino = 1]

V1 == [V7 EXCEPT !.ed = "v1", !.sb = "v1", !.nicfree = 0, !.form = "bitmap",
                 !.aw = 2, !.ndaddr = 8, !.isz = 32, !.rootino = 41,
                 !.dirent = 10, !.fmod = FALSE]

V8 == [V7 EXCEPT !.ed = "v8", !.sb = "v8", !.bsize = 1024, !.bo = "le",
                 !.nicfree = 178]

BSD211 == [V7 EXCEPT !.ed = "bsd211", !.bsize = 1024, !.aw = 4, !.ndaddr = 4,
                     !.dirent = 0, !.fmod = FALSE, !.fmodback = 3]

SysV == [V7 EXCEPT !.bo = "le", !.pack4 = TRUE, !.dinfo = TRUE,
                   !.magic = "sysv"]

getformat(ed) ==
    CASE ed = "v1" -> V1
      [] ed = "v6" -> V6
      [] ed = "v7" -> V7
      [] ed = "v8" -> V8
      [] ed = "v9" -> [V8 EXCEPT !.ed = "v9", !.bsize = 8192, !.bo = "be",
                                 !.nicfree = 946]
      [] ed = "v10" -> [V8 EXCEPT !.ed = "v10"]
      [] ed = "vax32" -> [V7 EXCEPT !.ed = ed, !.bo = "le", !.pack4 = TRUE]
      [] ed = "coherent" -> [V7 EXCEPT !.ed = ed, !.nicfree = 64]
      [] ed = "xenix" -> [V7 EXCEPT !.ed = ed, !.bsize = 1024, !.bo = "le",
                                    !.nicfree = 100, !.magic = "xenix"]
      [] ed = "bsd29" -> [V7 EXCEPT !.ed = ed, !.bsize = 1024, !.ndaddr = 4]
      [] ed = "bsd211" -> BSD211
      [] ed = "sysiii" -> [SysV EXCEPT !.ed = ed, !.magic = "none"]
      [] ed = "sysvr2" -> [SysV EXCEPT !.ed = ed]
      [] ed = "sysvr4" -> [SysV EXCEPT !.ed = ed, !.state = TRUE]

\* The order of the edition table, which is the order the probes run in.
Table == <<"v1", "v6", "v7", "v8", "v9", "v10", "vax32", "coherent", "xenix",
           "bsd29", "bsd211", "sysiii", "sysvr2", "sysvr4">>

\* -g: the block size, free-space form and byte order of a V8-family volume.
\* GeomOK is what apply_geom accepts.
GeomOK(ed, bs, form) ==
    /\ form = "bigmap" => ed = "v10"
    /\ IF ed = "v9" THEN bs = 8192
       ELSE bs \in {1024, 4096} /\ (bs = 1024 <=> form = "list")

apply_geom(f, bs, form, bo) ==
    [f EXCEPT !.bsize = bs, !.form = form, !.bo = bo]

\* -a arch and -B size of mkfs: the byte order (a middle-endian one clears
\* the 4-byte alignment) and, for System V only, the logical block size.
with_arch(f, bo) == [f EXCEPT !.bo = bo, !.pack4 = @ /\ bo # "me"]
with_bsize(f, bs) == [f EXCEPT !.bsize = bs]

\* -m and -n: the interleave of a Coherent volume.
with_interleave(f, m, n) == [f EXCEPT !.m = m, !.n = n]

----------------------------------------------------------------------------
(* Volumes.  A volume v has its format f, its first 512-byte sector start, *)
(* s_fsize, s_isize (V1: the first data block) and the last inode maxino;  *)
(* the free list nfree, arr (all nicfree slots, stale ones included) and   *)
(* the chain blocks dumps; the set map of free blocks of the bitmap forms; *)
(* the totals tfree and tinode; the inode cache ninode, iarr; s_fmod; the  *)
(* root directory's block, the block of lost+found (2.11BSD, else 0), and  *)
(* the files, each with its inode number and its blocks in the order they  *)
(* were allocated; lost holds the blocks a crash left in neither a file    *)
(* nor the free space.  old is << >>, or the volume that was there when    *)
(* mkfs ran, of which mkfs kept the first `keep` bytes.                    *)

NICINOD == 100
V8_BITMAP_BITS == 30752

Inopb(f) == f.bsize \div f.isz

\* The first data block, the last inode, and the end of the data band: the
\* out-of-superblock bitmap sits in the last blocks of the volume.
data_first(v) == v.isize + (IF v.f.sb = "v6" THEN 2 ELSE 0)

\* The members of a set of positive numbers up to n, in order.
Ascending(S, n) == SelectSeq([i \in 1..n |-> i], LAMBDA i : i \in S)

CeilDiv(a, b) == (a + b - 1) \div b
v8_nblks(v) == IF v.f.form = "bigmap" THEN CeilDiv(v.fsize, v.f.bsize * 8) ELSE 0
data_end(v) == v.fsize - v8_nblks(v)
Data(v) == data_first(v) .. (data_end(v) - 1)

\* The block bit 0 of the bitmap stands for.
v8_base(v) == IF v.f.form = "bigmap" \/ v.f.sb = "v1" THEN 0 ELSE v.isize

\* The superblock keeps free-block and free-inode totals.
HasTotals(f) == f.sb = "v7" /\ (~f.pack4 \/ f.magic # "none")

----------------------------------------------------------------------------
(* Allocation and release of blocks and inodes on a quiet disk, where      *)
(* every transfer succeeds (module FreeList has them one transfer at a     *)
(* time).                                                                  *)

CanAlloc(v) == IF v.f.form = "list" THEN v.nfree > 0 /\ v.arr[v.nfree] # 0
               ELSE v.map # {}

NextBlock(v) == IF v.f.form = "list" THEN v.arr[v.nfree]
                ELSE CHOOSE b \in v.map : \A c \in v.map : b <= c

\* A chain block that was overwritten reads as a segment of nothing.
Dump(v, b) == IF b \in DOMAIN v.dumps THEN v.dumps[b]
              ELSE [n |-> 0, arr |-> [i \in DOMAIN v.arr |-> 0]]

\* Take a block: popping the last entry of the cache reloads it from the
\* popped block, which is then zeroed like any other.
balloc(v) ==
    LET b == NextBlock(v)
        t == [v EXCEPT !.tfree = IF @ > 0 THEN @ - 1 ELSE 0,
                       !.dumps = IF b \in DOMAIN @ THEN [c \in DOMAIN @ \ {b} |-> @[c]] ELSE @]
    IN  IF v.f.form # "list" THEN [t EXCEPT !.map = @ \ {b}]
        ELSE IF v.nfree > 1 THEN [t EXCEPT !.nfree = @ - 1]
        ELSE [t EXCEPT !.nfree = Dump(v, b).n, !.arr = Dump(v, b).arr]

\* The failing balloc pops the sentinel and leaves an empty cache.
balloc_fails(v) == IF v.f.form = "list" /\ v.nfree > 0
                   THEN [v EXCEPT !.nfree = @ - 1] ELSE v

\* Give a block back: an empty cache starts with the sentinel, and a full one
\* is dumped into the block, which becomes the only entry.
Based(v) == IF v.nfree = 0 THEN [v EXCEPT !.nfree = 1, !.arr[1] = 0] ELSE v
Dumped(v, b) == IF v.nfree < v.f.nicfree THEN v
                ELSE [v EXCEPT !.nfree = 0,
                               !.dumps = (b :> [n |-> v.nfree, arr |-> v.arr]) @@ @]
Pushed(v, b) == [v EXCEPT !.arr[v.nfree + 1] = b, !.nfree = @ + 1]

bfree(v, b) ==
    IF b \notin (IF v.f.form = "list" THEN data_first(v) ELSE v8_base(v)) .. (v.fsize - 1)
    THEN v
    ELSE [(IF v.f.form = "list" THEN Pushed(Dumped(Based(v), b), b)
           ELSE [v EXCEPT !.map = @ \cup {b}]) EXCEPT !.tfree = @ + 1]

\* bfree of each block in turn, and n ballocs or as many as there are blocks:
\* the volume after them and the blocks taken.  Each half is evaluated on
\* the value the other left, which keeps the evaluation shallow.
RECURSIVE bfree_all(_, _)
bfree_all(v, bl) ==
    LET h == Len(bl) \div 2
    IN  IF bl = << >> THEN v
        ELSE IF h = 0 THEN bfree(v, bl[1])
        ELSE CHOOSE w \in {bfree_all(u, SubSeq(bl, h + 1, Len(bl))) :
                             u \in {bfree_all(v, SubSeq(bl, 1, h))}} : TRUE

RECURSIVE Take(_, _)
Take(t, n) ==
    IF n = 0 \/ ~CanAlloc(t.v) THEN t
    ELSE IF n = 1 THEN [v |-> balloc(t.v), bl |-> Append(t.bl, NextBlock(t.v))]
    ELSE CHOOSE w \in {Take(u, n - n \div 2) : u \in {Take(t, n \div 2)}} : TRUE

balloc_n(v, n) == Take([v |-> v, bl |-> << >>], n)

\* The inodes in use; V7 and 2.11BSD also keep inode 1 for bad blocks.
Live(v) == {v.f.rootino} \cup {v.files[i].ino : i \in DOMAIN v.files}
           \cup (IF v.f.sb = "v7" THEN {1} ELSE {})
           \cup (IF v.lf # 0 THEN {3} ELSE {})

\* The refilled inode cache: the free inodes from 2 up, at most NICINOD.
Refill(v) ==
    LET free == Ascending((2..v.maxino) \ Live(v), v.maxino)
    IN  SubSeq(free, 1, IF Len(free) < NICINOD THEN Len(free) ELSE NICINOD)

Cached(v) == IF v.ninode > 0 THEN SubSeq(v.iarr, 1, v.ninode) ELSE Refill(v)

\* V1 takes the first inode whose bit is clear.
NextIno(v) == IF v.f.sb = "v1"
              THEN CHOOSE i \in 41..v.maxino : i \notin Live(v) /\ (\A j \in 41..(i - 1) : j \in Live(v))
              ELSE Last(Cached(v))

ialloc(v) ==
    LET c == Cached(v)
        t == [v EXCEPT !.tinode = IF @ > 0 THEN @ - 1 ELSE 0]
    IN  IF v.f.sb = "v1" THEN t
        ELSE [t EXCEPT !.ninode = Len(c) - 1,
                       !.iarr = [i \in DOMAIN @ |-> IF i <= Len(c) THEN c[i] ELSE @[i]]]

ifree(v, ino) ==
    IF v.f.sb = "v1" THEN [v EXCEPT !.tinode = @ + 1]
    ELSE IF v.ninode >= NICINOD THEN v
    ELSE [v EXCEPT !.ninode = @ + 1, !.iarr[v.ninode + 1] = ino, !.tinode = @ + 1]

----------------------------------------------------------------------------
(* Rebuilding the free space from the set of used blocks.                  *)

\* The block makefree frees k-th: the identity, or Coherent's interleave
\* within the data band aligned to n blocks.
Interleaved(v, bn) ==
    LET f == v.f
        ok == 1 <= f.m /\ f.m <= f.n /\ f.n % f.m = 0
        m == IF ok THEN f.m ELSE 1
        n == IF ok THEN f.n ELSE 1
        ratio == n \div m
        mapbot == CeilDiv(v.isize, n) * n
        maptop == (v.fsize \div n) * n
        k == bn % n
    IN  IF mapbot <= bn /\ bn < maptop
        THEN (bn \div n) * n + (k \div ratio) + (k % ratio) * m
        ELSE bn

V7Order(v) == [i \in 1..(v.fsize - v.isize) |-> Interleaved(v, v.isize + i - 1)]

\* V6 frees each hundred blocks three apart, downwards from the first
\* multiple of 100 at or above fsize - 1.  The loop's test for a place already
\* taken never holds, 3 and 100 having no common factor.
V6Adr(j) == ((3 * j) % 100) + 1

V6Top(v) == CeilDiv(v.fsize - 1, 100) * 100

V6Order(v) ==
    SelectSeq([k \in 1..V6Top(v) |-> V6Top(v) - ((k - 1) \div 100) * 100 - V6Adr((k - 1) % 100)],
              LAMBDA b : data_first(v) <= b /\ b < v.fsize)

\* (mutant) The total is not reset before the list is rebuilt.
Emptied_Counted(v) == [v EXCEPT !.nfree = 0, !.ninode = 0]

Emptied(v) == [v EXCEPT !.nfree = 0, !.ninode = 0, !.tfree = 0]

\* icheck -s and mkfs: an empty list, then bfree of every unused block in the
\* edition's order.  The list editions recount the free inodes; the V8
\* bitmap leaves the total at 0, and V1 and V6 do not touch it.
makefree(v, used) ==
    LET Unused(b) == b \notin used
    IN  CASE v.f.sb = "v1" ->
                 [v EXCEPT !.map = Data(v) \ used, !.tfree = Cardinality(Data(v) \ used)]
          [] v.f.sb = "v6" ->
                 bfree_all([v EXCEPT !.nfree = 0, !.ninode = 0],
                          SelectSeq(V6Order(v), Unused))
          [] v.f.form # "list" ->
                 [Emptied(v) EXCEPT !.map = Data(v) \ used, !.tinode = 0,
                               !.tfree = Cardinality(Data(v) \ used)]
          [] OTHER ->
                 [bfree_all(Emptied(v), SelectSeq(V7Order(v), Unused))
                    EXCEPT !.tinode = v.maxino - Cardinality(Live(v))]

----------------------------------------------------------------------------
(* mkfs.                                                                   *)

Clamp(lo, x, hi) == IF x < lo THEN lo ELSE IF x > hi THEN hi ELSE x

isize_v7(blocks, ipb) == Clamp(1, blocks \div 25, 65500 \div ipb) + 2
isize_v6(blocks) == LET i == blocks \div (43 + blocks \div 1000)
                    IN  IF i = 0 THEN 1 ELSE i
isize_v8(blocks, ipb) == Clamp(3, (blocks - 2) \div (1 + ipb), 65536 \div ipb)

\* V1 rounds the volume to whole map words and keeps at least 48 inodes.
V1Fsize(blocks) == CeilDiv(blocks, 16) * 16
V1Maxino(fsize) == CeilDiv(IF fsize \div 4 < 48 THEN 48 ELSE fsize \div 4, 16) * 16

Blank(f, blocks) ==
    LET fsize  == IF f.sb = "v1" THEN V1Fsize(blocks) ELSE blocks
        ipb    == Inopb(f)
        isize  == CASE f.sb = "v1" -> (V1Maxino(fsize) + 31) \div 16 + 1
                    [] f.sb = "v6" -> isize_v6(blocks)
                    [] f.sb = "v8" -> isize_v8(blocks, ipb)
                    [] OTHER       -> isize_v7(blocks, ipb)
    IN  [f |-> f, start |-> 0, fsize |-> fsize, isize |-> isize,
         maxino |-> CASE f.sb = "v1" -> V1Maxino(fsize)
                      [] f.sb = "v6" -> isize * ipb
                      [] OTHER       -> (isize - 2) * ipb,
         nfree |-> 0, arr |-> [i \in 1..f.nicfree |-> 0], dumps |-> <<>>,
         map |-> {}, tfree |-> 0, tinode |-> 0, ninode |-> 0,
         iarr |-> [i \in 1..NICINOD |-> 0], fmod |-> FALSE,
         root |-> 0, lf |-> 0, files |-> <<>>, lost |-> {}, old |-> <<>>, keep |-> 0]

\* The sizes mkfs accepts: a data block after the i-list, and V1's maps and
\* the V8 family's bitmap within the superblock.
MkfsOK(f, blocks) ==
    LET v == Blank(f, blocks)
    IN  /\ data_first(v) < v.fsize
        /\ f.sb = "v1" => 4 + (v.fsize + v.maxino) \div 8 <= 1024
        /\ f.sb = "v8" /\ f.form = "bitmap" => v.fsize - v.isize <= V8_BITMAP_BITS
        /\ f.sb = "v8" => GeomOK(f.ed, f.bsize, f.form)

\* The free space of an empty volume, then the seed: lost+found (2.11BSD) and
\* the root directory.  tinode is set last, after the inodes are written.
\* mkfs.filsys sizes the image with the edition's own block size, or -B, but
\* not with -g: what lies above is cut off before the volume is written.
MainBsize(f) == IF f.magic = "sysv" THEN f.bsize ELSE getformat(f.ed).bsize

LostFound(v) == IF v.f.dirent = 0 THEN [balloc(v) EXCEPT !.lf = NextBlock(v)] ELSE v
Root(v) == [balloc(v) EXCEPT !.root = NextBlock(v)]
Counted(v) == [v EXCEPT !.tinode = IF v.f.sb = "v1" THEN v.maxino - 40 - 1
                                   ELSE v.maxino - Cardinality(Live(v))]

mkfs(f, blocks, start, old) ==
    Counted(Root(LostFound(
        [makefree(Blank(f, blocks), {}) EXCEPT !.start = start, !.old = old,
                                               !.keep = blocks * MainBsize(f)])))

----------------------------------------------------------------------------
(* Encodings.  A run is a sequence of words of one width from an offset; a *)
(* region is a stretch of the disk with the runs that were written on it   *)
(* and what the bytes between them hold: zeros, or what was there before.  *)

Run(at, wid, vals) == [at |-> at, wid |-> wid, vals |-> vals]
Flag(b) == IF b THEN 1 ELSE 0

Zeros == 0
Untouched == -1
Region(from, len, bo, runs, rest) ==
    [from |-> from, len |-> len, bo |-> bo, runs |-> runs, rest |-> rest]

Covers(r, o) == r.at <= o /\ o < r.at + r.wid * Len(r.vals)
RunByte(bo, r, o) ==
    ByteOf(bo, r.wid, r.vals[((o - r.at) \div r.wid) + 1], (o - r.at) % r.wid)

RegionByte(g, o) ==
    LET on == {i \in DOMAIN g.runs : Covers(g.runs[i], o)}
    IN  IF on = {} THEN g.rest ELSE RunByte(g.bo, g.runs[CHOOSE i \in on : TRUE], o)

\* Bits from..from+7 of a map, bit 0 standing for block (or inode) base.
MapByte(set, base, from) ==
    LET Bit(j) == IF base + from + j \in set THEN 2^j ELSE 0
    IN  Bit(0) + Bit(1) + Bit(2) + Bit(3) + Bit(4) + Bit(5) + Bit(6) + Bit(7)

\* The n bytes of a map, and the same as words of a byte order.
MapBytes(set, base, n) == [k \in 1..n |-> MapByte(set, base, 8 * (k - 1))]
MapWords(bo, set, base, n) ==
    [k \in 1..(4 * n) |-> MapByte(set, base, 32 * ((k - 1) \div 4) + 8 * Sig(bo, 4, (k - 1) % 4))]

\* Superblock field offsets of the V7 layout.
sb_fsize_off(f)  == IF f.pack4 THEN 4 ELSE 2
sb_nfree_off(f)  == IF f.pack4 THEN 8 ELSE 6
sb_free_off(f)   == IF f.pack4 THEN 12 ELSE 8
sb_ninode_off(f) == sb_free_off(f) + 4 * f.nicfree
sb_inode_off(f)  == sb_ninode_off(f) + 2
sb_time_off(f)   == sb_inode_off(f) + 2 * NICINOD + 4 + (IF f.pack4 THEN 2 ELSE 0)
sb_tfree_off(f)  == sb_time_off(f) + 4 + (IF f.dinfo THEN 8 ELSE 0)

\* The magic words and s_state, lowest byte first.
XenixMagic == <<68, 85, 43, 0>>
SysvMagic  == <<32, 126, 24, 253>>
StateClean == <<56, 157, 38, 124>>
StateActive == <<26, 216, 114, 94>>
InOrder(bo, bytes) == [k \in 1..4 |-> bytes[Sig(bo, 4, k - 1) + 1]]

Fs_type(bsize) == CASE bsize = 512 -> 1 [] bsize = 1024 -> 2 [] OTHER -> 3

V7Super(v) ==
    LET f == v.f
        time == sb_time_off(f)
    IN  << Run(0, 2, <<v.isize>>), Run(sb_fsize_off(f), 4, <<v.fsize>>),
           Run(sb_nfree_off(f), 2, <<v.nfree>>), Run(sb_free_off(f), 4, v.arr),
           Run(sb_ninode_off(f), 2, <<v.ninode>>), Run(sb_inode_off(f), 2, v.iarr),
           Run(time, 4, <<Now>>), Run(time - f.fmodback, 1, <<Flag(v.fmod)>>) >>
        \o (IF HasTotals(f)
            THEN << Run(sb_tfree_off(f), 4, <<v.tfree>>),
                    Run(sb_tfree_off(f) + 4, 2, <<v.tinode>>) >>
            ELSE << >>)
        \o (IF f.ed = "coherent"
            THEN << Run(time + 10, 2, <<f.m, f.n>>), Run(time + 26, 4, <<0>>) >>
            ELSE << >>)
        \o (IF f.state
            THEN << Run(500, 1, InOrder(f.bo, IF v.fmod THEN StateActive ELSE StateClean)) >>
            ELSE << >>)
        \o (CASE f.magic = "sysv" -> << Run(504, 1, InOrder(f.bo, SysvMagic)),
                                        Run(508, 4, <<Fs_type(f.bsize)>>) >>
              [] f.magic = "xenix" -> << Run(1016, 1, XenixMagic) >>
              [] OTHER -> << >>)

V6Super(v) ==
    << Run(0, 2, <<v.isize, v.fsize, v.nfree>>), Run(6, 2, v.arr),
       Run(206, 2, <<v.ninode>>), Run(208, 2, v.iarr),
       Run(410, 1, <<Flag(v.fmod)>>), Run(412, 4, <<Now>>) >>

V8_BFREE == 252

v8_sb_encode(v) ==
    << Run(0, 2, <<v.isize>>), Run(4, 4, <<v.fsize>>), Run(8, 2, <<v.ninode>>),
       Run(10, 2, v.iarr), Run(212, 1, <<Flag(v.fmod)>>), Run(216, 4, <<Now>>),
       Run(220, 4, <<v.tfree>>), Run(224, 2, <<v.tinode>>) >>
    \o CASE v.f.form = "list"   -> << Run(248, 2, <<v.nfree>>), Run(V8_BFREE, 4, v.arr) >>
         [] v.f.form = "bitmap" -> << Run(248, 1, <<1>>),
                                      Run(V8_BFREE, 1, MapWords(v.f.bo, v.map, v8_base(v),
                                                                CeilDiv(v.fsize - v.isize, 32))) >>
         [] v.f.form = "bigmap" -> << Run(248, 1, <<1, 1>>),
                                      Run(V8_BFREE, 4, <<v.f.bsize * 8>>) >>

\* V1's superblock: each map after the count of its bytes.
V1Super(v) ==
    LET fm == v.fsize \div 8
        im == v.maxino \div 8
    IN  << Run(0, 2, <<fm>>), Run(2, 1, MapBytes(v.map, 0, fm)),
           Run(2 + fm, 2, <<im>>), Run(4 + fm, 1, MapBytes(Live(v), 41, im)) >>

\* mkfs writes the whole superblock of the formats with a magic word, and V1
\* always does; elsewhere the bytes no field maintains keep what was there.
\* The rest of V8's map is written with it.
Supers(v) ==
    LET f == v.f
    IN  CASE f.sb = "v1" -> << Region(0, 1024, f.bo, V1Super(v), Zeros) >>
          [] f.sb = "v6" -> << Region(512, 512, f.bo, V6Super(v), Untouched) >>
          [] f.sb = "v8" -> << Region(f.bsize, f.bsize, f.bo, v8_sb_encode(v), Untouched) >>
                            \o (IF f.form = "bitmap"
                                THEN << Region(f.bsize + V8_BFREE, V8_BITMAP_BITS \div 8,
                                               f.bo, << >>, Zeros) >>
                                ELSE << >>)
          [] f.magic = "sysv" -> << Region(512, 512, f.bo, V7Super(v), Zeros) >>
          [] OTHER -> << Region(f.bsize, f.bsize, f.bo, V7Super(v),
                                IF f.magic = "none" THEN Untouched ELSE Zeros) >>

----------------------------------------------------------------------------
(* Inodes, directories and free-list blocks.  Owners and times are zero.   *)

Nindir(f) == f.bsize \div (IF f.sb \in {"v1", "v6"} THEN 2 ELSE 4)

\* A file of V1 or V6 whose direct slots do not suffice gives its first slot
\* to an indirect block, allocated after them; the others have a slot for it.
Large(f, blocks) == f.sb \in {"v1", "v6"} /\ Len(blocks) > f.ndaddr

Addrs(f, blocks) ==
    IF Large(f, blocks) THEN <<blocks[f.ndaddr + 1]>>
    ELSE SubSeq(blocks, 1, IF Len(blocks) <= f.ndaddr THEN Len(blocks) ELSE f.ndaddr + 1)

\* The largest file with one indirect block.
MaxFile(f) == Nindir(f) + (IF f.sb \in {"v1", "v6"} THEN 1 ELSE f.ndaddr + 1)

Dinode(v, ino) ==
    LET f == v.f
        file == {i \in DOMAIN v.files : v.files[i].ino = ino}
    IN  IF ino = f.rootino
        THEN [mode |-> CASE f.sb = "v1" -> \o140036 [] f.sb = "v6" -> \o140777
                         [] OTHER -> \o40777,
              nlink |-> IF v.lf # 0 THEN 3 ELSE 2,
              size |-> IF v.lf # 0 THEN 512 ELSE 2 * f.dirent, addr |-> <<v.root>>]
        ELSE IF v.lf # 0 /\ ino = 3
        THEN [mode |-> \o40777, nlink |-> 2, size |-> 1024, addr |-> <<v.lf>>]
        ELSE IF file # {}
        THEN LET b == v.files[CHOOSE i \in file : TRUE].blocks
             IN  [mode |-> IF f.sb = "v1" THEN \o100016 + (IF Large(f, b) THEN \o10000 ELSE 0)
                           ELSE \o100644 + (IF Large(f, b) THEN \o10000 ELSE 0),
                  nlink |-> 1, size |-> Len(b) * f.bsize, addr |-> Addrs(f, b)]
        ELSE IF f.sb = "v7" /\ ino = 1
        THEN [mode |-> \o100000, nlink |-> 0, size |-> 0, addr |-> << >>]
        ELSE [mode |-> 0, nlink |-> 0, size |-> 0, addr |-> << >>]

\* An inode encoded: 64 bytes (V7), or 32 (V6, V1).
DinodeRuns(f, d) ==
    CASE f.sb = "v6" -> << Run(0, 2, <<d.mode>>), Run(2, 1, <<d.nlink>>),
                           Run(5, 1, <<d.size \div 65536>>),
                           Run(6, 2, <<d.size % 65536>>), Run(8, 2, d.addr) >>
      [] f.sb = "v1" -> << Run(0, 2, <<d.mode>>), Run(2, 1, <<d.nlink>>),
                           Run(4, 2, <<d.size % 65536>>), Run(6, 2, d.addr) >>
      [] OTHER -> << Run(0, 2, <<d.mode, d.nlink>>), Run(8, 4, <<d.size>>),
                     Run(12, f.aw, d.addr) >>

\* Inode 1 is the first of block 2; mkfs zeroes the rest of the i-list.
Ilist(v) ==
    LET f == v.f
        live == Ascending(Live(v), v.maxino)
    IN  [i \in 1..Len(live) |-> Region(2 * f.bsize + (live[i] - 1) * f.isz, f.isz, f.bo,
                                       DinodeRuns(f, Dinode(v, live[i])), Zeros)]
        \o << Region(2 * f.bsize, (data_first(v) - 2) * f.bsize, f.bo, << >>, Zeros) >>

\* The first entries of a directory: "." and "..", and in 2.11BSD's root
\* "lost+found"; records of 2.11BSD have a length and a name length.
DirRuns(v, b) ==
    LET f == v.f
        self == IF b = v.lf THEN 3 ELSE f.rootino
    IN  IF f.dirent # 0
        THEN << Run(0, 2, <<self>>), Run(2, 1, <<46>>),
                Run(f.dirent, 2, <<f.rootino>>), Run(f.dirent + 2, 1, <<46, 46>>) >>
        ELSE << Run(0, 2, <<self, 8, 1>>), Run(6, 1, <<46>>),
                Run(8, 2, <<f.rootino, IF b = v.lf THEN 504 ELSE 12, 2>>),
                Run(14, 1, <<46, 46>>) >>
             \o (IF b = v.lf THEN << Run(514, 2, <<512>>) >>
                 ELSE << Run(20, 2, <<3, 492, 10>>),
                         Run(26, 1, <<108, 111, 115, 116, 43, 102, 111, 117, 110, 100>>) >>)

\* A free-list block: the count (2 bytes, or 4 in the V8 family), then the
\* whole cache, at 4 when the format aligns to 4 bytes.
df_nfree_wid(f) == IF f.sb = "v8" THEN 4 ELSE 2
chain_free_off(f) == IF f.sb = "v8" \/ f.pack4 THEN 4 ELSE 2
daddr_wid(f) == IF f.sb \in {"v1", "v6"} THEN 2 ELSE 4

DumpRuns(f, d) == << Run(0, df_nfree_wid(f), <<d.n>>),
                     Run(chain_free_off(f), daddr_wid(f), d.arr) >>

\* The blocks that were allocated and hold neither a directory nor a chain
\* segment: balloc zeroed them, and file data is taken to be zeros.
Zeroed(v) == UNION {Range(v.files[i].blocks) : i \in DOMAIN v.files} \cup v.lost

BlockRegion(f, b, runs) == Region(b * f.bsize, f.bsize, f.bo, runs, Zeros)

\* What a volume's operations left on it, the first region that covers a
\* byte deciding unless it leaves it untouched.
Written(v) ==
    LET f == v.f
        dirs == SelectSeq(<<v.root, v.lf>>, LAMBDA b : b # 0)
        dumps == Ascending(DOMAIN v.dumps, v.fsize)
        zero == Ascending(Zeroed(v), v.fsize)
    IN  Supers(v) \o Ilist(v)
        \o [i \in 1..Len(dirs) |-> BlockRegion(f, dirs[i], DirRuns(v, dirs[i]))]
        \o (IF v8_nblks(v) = 0 THEN << >>
            ELSE << Region(data_end(v) * f.bsize, v8_nblks(v) * f.bsize, f.bo,
                           << Run(0, 1, MapBytes(v.map, 0, CeilDiv(v.fsize, 8))) >>, Zeros) >>)
        \o [i \in 1..Len(dumps) |-> BlockRegion(f, dumps[i], DumpRuns(f, v.dumps[dumps[i]]))]
        \o [i \in 1..Len(zero) |-> BlockRegion(f, zero[i], << >>)]

\* A volume on the disk: what mkfs and the driver wrote, then what was there
\* before mkfs and not cut off.
SECTOR == 512
Placed(v) ==
    LET old == IF v.old = << >> THEN << >> ELSE Written(v.old[1])
        kept == [i \in 1..Len(old) |->
                   [old[i] EXCEPT !.len = Clamp(0, v.keep - old[i].from, @)]]
        all == Written(v) \o kept
    IN  SelectSeq([i \in 1..Len(all) |-> [all[i] EXCEPT !.from = @ + v.start * SECTOR]],
                  LAMBDA g : g.len > 0)

VolEnd(v) == v.start * SECTOR + v.fsize * v.f.bsize

\* A disk is a sequence of volumes, in order and with gaps of zeros; its
\* image is what the probes read.
Image(disk) ==
    [size |-> VolEnd(Last(disk)),
     regions |-> FlattenSeq([i \in 1..Len(disk) |-> Placed(disk[i])])]

ImageByte(img, o) ==
    LET at == {i \in DOMAIN img.regions :
                 LET g == img.regions[i]
                 IN  /\ g.from <= o /\ o < g.from + g.len
                     /\ RegionByte(g, o - g.from) # Untouched}
        g == img.regions[CHOOSE i \in at : \A j \in at : i <= j]
    IN  IF at = {} THEN 0 ELSE RegionByte(g, o - g.from)
=============================================================================
