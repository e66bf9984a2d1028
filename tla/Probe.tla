------------------------------- MODULE Probe -------------------------------
(***************************************************************************)
(* Autodetection: the per-edition superblock probes (v7fs.c, v1fs.c), the  *)
(* detector that fsck and mount run at one offset (filsys_detect.c), and   *)
(* the scan of findfs.filsys over a whole image.  The probes read the disk *)
(* byte by byte, whatever wrote it.                                        *)
(*                                                                         *)
(* An offset plus fsize * bsize is compared by division, which is exact    *)
(* and stays within TLC's integers.                                        *)
(***************************************************************************)
EXTENDS Formats

\* io->read of n bytes succeeds.
CanRead(img, off, n) == off + n <= img.size

Get(img, bo, wid, off) == Word(bo, [k \in 1..wid |-> ImageByte(img, off + k - 1)])

\* What a probe reports: 1 validated, 2 a near miss, 0 not this format.
No == [r |-> 0, class |-> "", bsize |-> 0, form |-> "", bo |-> "", fsize |-> 0]
Hit(class, bsize, form, bo, fsize) ==
    [r |-> 1, class |-> class, bsize |-> bsize, form |-> form, bo |-> bo, fsize |-> fsize]
NearMiss(class) == [No EXCEPT !.r = 2, !.class = class]

\* base + fsz * bsize <= nbytes
Fits(img, base, bsize, fsz) == base <= img.size /\ fsz <= (img.size - base) \div bsize

----------------------------------------------------------------------------
(* What the probes of the list editions share.  c is a layout (base,       *)
(* bsize, bo, the superblock's offset sb and those of its fields, the      *)
(* cache's depth nicfree, entry width wid, and fb, the offset of the       *)
(* entries in a chain block, at 4 with a count of 4 bytes), to which       *)
(* ReadSuper adds the fields read.                                         *)

ReadSuper(img, c) ==
    [isize |-> Get(img, c.bo, 2, c.sb), fsize |-> Get(img, c.bo, c.fsizew, c.sb + c.fsizeoff),
     nfree |-> Get(img, c.bo, 2, c.sb + c.nfreeoff),
     ninode |-> Get(img, c.bo, 2, c.sb + c.ninodeoff),
     head |-> Get(img, c.bo, c.wid, c.sb + c.freeoff)] @@ c

InRange(c, b) == b = 0 \/ (c.isize <= b /\ b < c.fsize)

\* The n entries at `at` are in range.
EntriesOK(img, at, n, c) ==
    \A i \in 0..(n - 1) : InRange(c, Get(img, c.bo, c.wid, at + c.wid * i))

\* Follow the chain of free-list blocks: every segment has 1..nicfree
\* entries, in range, and entry 0 names the next one.
RECURSIVE probe_walk_chain(_, _, _, _)
RECURSIVE walk_segment(_, _, _, _, _)
probe_walk_chain(img, c, head, seen) ==
    LET at == c.base + head * c.bsize
    IN  \/ head = 0
        \/ /\ InRange(c, head) /\ head \notin seen
           /\ Cardinality(seen) <= c.fsize \div c.nicfree
           /\ CanRead(img, at, c.bsize)
           /\ walk_segment(img, c, at, Get(img, c.bo, IF c.fb = 4 THEN 4 ELSE 2, at),
                           seen \cup {head})
walk_segment(img, c, at, nfree, seen) ==
    /\ 1 <= nfree /\ nfree <= c.nicfree
    /\ EntriesOK(img, at + c.fb + c.wid, nfree - 1, c)
    /\ probe_walk_chain(img, c, Get(img, c.bo, c.wid, at + c.fb), seen)

IsDir(mode) == mode \div 4096 = 4      \* (mode & 0170000) == 0040000

\* Inode 2 is a directory with a size of whole entries.
probe_root_ok(img, c) ==
    LET d == c.base + 2 * c.bsize + 64
        size == Get(img, c.bo, 4, d + 8)
    IN  /\ CanRead(img, c.base + 2 * c.bsize, 128)
        /\ IsDir(Get(img, c.bo, 2, d))
        /\ size # 0 /\ size % 16 = 0

\* The superblock's fields are plausible.
FieldsOK(img, c) ==
    /\ c.isize >= c.minisize /\ c.fsize > c.isize
    /\ c.nfree <= c.nicfree /\ c.ninode <= NICINOD
    /\ Fits(img, c.base, c.bsize, c.fsize)
    /\ EntriesOK(img, c.sb + c.freeoff, c.nfree, c)

\* The outcome: a near miss if only the walks fail.
Judge(img, c, class, bo, rooted) ==
    IF ~FieldsOK(img, c) THEN No
    ELSE IF probe_walk_chain(img, c, c.head, {}) /\ (rooted => probe_root_ok(img, c))
    THEN Hit(class, c.bsize, "", bo, c.fsize) ELSE NearMiss(class)

----------------------------------------------------------------------------
(* V7, 32V, Coherent, System III.                                          *)

FamilyClass(f) == IF f.nicfree = 64 THEN "Coherent"
                  ELSE IF f.pack4 THEN "32V or sysiii" ELSE "v7, sysiii or sysvr1"

\* The fields of the V7 layout with f's alignment and cache.
FamilyLayout(f, base, bsize) ==
    [base |-> base, bsize |-> bsize, sb |-> base + bsize, bo |-> f.bo, minisize |-> 3,
     fsizew |-> 4, fsizeoff |-> sb_fsize_off(f), nfreeoff |-> sb_nfree_off(f),
     freeoff |-> sb_free_off(f), ninodeoff |-> sb_ninode_off(f),
     nicfree |-> f.nicfree, wid |-> 4, fb |-> chain_free_off(f)]

probe_v7_family(img, f, base, bsize) ==
    IF ~CanRead(img, base + bsize, bsize) THEN No
    ELSE Judge(img, ReadSuper(img, FamilyLayout(f, base, bsize)), FamilyClass(f), "", TRUE)

----------------------------------------------------------------------------
(* System V: the magic gives the byte order, s_type the block size.        *)

Bytes4(img, off) == [k \in 1..4 |-> ImageByte(img, off + k - 1)]

probe_sysv_class(img, bo, sb) ==
    IF Bytes4(img, sb + 500) \in {InOrder(bo, StateClean), InOrder(bo, StateActive)}
    THEN "sysvr4" ELSE "sysvr2 or sysvr3"

SysvOrder(bytes) ==
    CASE bytes = InOrder("le", SysvMagic) -> "le"
      [] bytes = InOrder("be", SysvMagic) -> "be"
      [] OTHER -> "none"

\* The superblock is at byte 512 whatever the block size.
SysvLayout(base, bo, type) ==
    [FamilyLayout(SysV, base, 512) EXCEPT !.bo = bo, !.minisize = 0,
         !.bsize = CASE type = 1 -> 512 [] type = 2 -> 1024 [] type = 3 -> 2048 [] OTHER -> 0]

SysvJudge(img, c, class) ==
    IF c.nfree = 65535 THEN Hit("AFS", 0, "", "", 0)
    ELSE IF c.bsize = 0 THEN No ELSE Judge(img, c, class, c.bo, TRUE)

SysvIn(img, base, bo) ==
    IF bo = "none" THEN No
    ELSE SysvJudge(img, ReadSuper(img, SysvLayout(base, bo, Get(img, bo, 4, base + 512 + 508))),
                   probe_sysv_class(img, bo, base + 512))

probe_sysv(img, base) ==
    IF ~CanRead(img, base + 512, 512) THEN No
    ELSE SysvIn(img, base, SysvOrder(Bytes4(img, base + 512 + 504)))

----------------------------------------------------------------------------
(* Xenix, 2.9BSD and 2.11BSD, V6: fixed layouts.                           *)

probe_xenix(img, base) ==
    IF ~CanRead(img, base + 1024, 1024) \/ Bytes4(img, base + 1024 + 1016) # XenixMagic THEN No
    ELSE Judge(img, ReadSuper(img, FamilyLayout(getformat("xenix"), base, 1024)),
               "Xenix", "le", TRUE)

\* The first records of the root directory are well-formed and name . and ..
RECURSIVE bsd211_records(_, _, _, _)
RECURSIVE bsd211_record(_, _, _, _, _)
bsd211_records(img, rb, off, seen) ==
    /\ off + 6 <= 1024
    /\ bsd211_record(img, rb, off, seen,
                     [reclen |-> Get(img, "me", 2, rb + off + 2),
                      namlen |-> Get(img, "me", 2, rb + off + 4),
                      dot |-> [k \in 1..2 |-> ImageByte(img, rb + off + 5 + k) = 46]])
bsd211_record(img, rb, off, seen, r) ==
    LET now == seen \cup {n \in {1, 2} : r.namlen = n /\ \A k \in 1..n : r.dot[k]}
    IN  /\ r.reclen >= 6 /\ r.reclen % 4 = 0 /\ off + r.reclen <= 1024
        /\ 1 <= r.namlen /\ r.namlen <= 63
        /\ now = {1, 2} \/ bsd211_records(img, rb, off + r.reclen, now)

probe_bsd211_root_dir(img, base) ==
    LET rootblk == Get(img, "me", 4, base + 2 * 1024 + 64 + 12)
    IN  /\ CanRead(img, base + 2 * 1024, 128)
        /\ Fits(img, base, 1024, rootblk + 1)
        /\ bsd211_records(img, base + rootblk * 1024, 0, {})

\* 2.11BSD is a 2.9BSD volume with its own directories.
Refined(img, base, res) ==
    IF res.r = 1 /\ probe_bsd211_root_dir(img, base)
    THEN [res EXCEPT !.class = "2.11BSD"] ELSE res

probe_bsd29(img, base) ==
    IF ~CanRead(img, base + 1024, 1024) THEN No
    ELSE Refined(img, base, Judge(img, ReadSuper(img, FamilyLayout(getformat("bsd29"), base, 1024)),
                                  "2.9BSD", "", TRUE))

\* V6's root inode is elsewhere: the chain walk is the only structural test.
V6Layout(base) ==
    [base |-> base, bsize |-> 512, sb |-> base + 512, bo |-> "le", minisize |-> 3,
     fsizew |-> 2, fsizeoff |-> 2, nfreeoff |-> 4, freeoff |-> 6, ninodeoff |-> 206,
     nicfree |-> 100, wid |-> 2, fb |-> 2]

probe_v6(img, base) ==
    IF ~CanRead(img, base + 512, 512) THEN No
    ELSE Judge(img, ReadSuper(img, V6Layout(base)), "v4, v5, v6 or usgpg3", "", FALSE)

\* V1: no boot block; the two maps are counted, and the root is inode 41.
V1MapsOK(img, base, fm, im, mode, a0) ==
    LET dstart == (im * 8 + 31) \div 16 + 1
    IN  /\ fm # 0 /\ 4 + fm <= 1024
        /\ im # 0 /\ 4 + fm + im <= 1024
        /\ fm * 8 > dstart /\ Fits(img, base, 512, fm * 8)
        /\ CanRead(img, base + 4 * 512, 512)
        /\ mode \div 32768 = 1 /\ (mode \div 16384) % 2 = 1
        /\ dstart <= a0 /\ a0 < fm * 8

V1Sized(img, base, fm) ==
    LET G(off) == Get(img, "me", 2, base + off)
        root == 4 * 512 + 8 * 32
    IN  IF V1MapsOK(img, base, fm, G(2 + fm), G(root), G(root + 6))
        THEN Hit("v1, v2 or v3", 512, "", "", fm * 8) ELSE No

v1_probe(img, base) ==
    IF ~CanRead(img, base, 1024) THEN No
    ELSE V1Sized(img, base, Get(img, "me", 2, base))

----------------------------------------------------------------------------
(* The V8 family: one rearranged superblock, tried in both byte orders;    *)
(* the free space is a list if it traverses as one, else a bitmap whose    *)
(* bits must number s_tfree.                                               *)

V8Layout(base, bsize, bo) ==
    [base |-> base, bsize |-> bsize, sb |-> base + bsize, bo |-> bo, fsizew |-> 4,
     fsizeoff |-> 4, nfreeoff |-> 248, freeoff |-> V8_BFREE, ninodeoff |-> 8,
     nicfree |-> IF bsize = 8192 THEN 946 ELSE 178, wid |-> 4, fb |-> 4]

V8Maxino(c) == (c.isize - 2) * (c.bsize \div 64)

probe_v8_ilist_ok(img, c) ==
    /\ CanRead(img, c.base + 2 * c.bsize, CeilDiv(V8Maxino(c), c.bsize \div 64) * c.bsize)
    /\ \A ino \in 1..V8Maxino(c) :
         LET d == c.base + 2 * c.bsize + (ino - 1) * 64
         IN  \/ Get(img, c.bo, 2, d) = 0
             \/ \A i \in 0..12 : InRange(c, Get(img, c.bo, 3, d + 12 + 3 * i))

\* The bits set in the bitmap, n of them: in the superblock's words, or in
\* the last blocks of the volume.
V8Bits(img, c, form, n) ==
    LET map == c.base + (c.fsize - CeilDiv(c.fsize, c.bsize * 8)) * c.bsize
        At(i) == IF form = "bigmap" THEN map + i \div 8
                 ELSE c.sb + V8_BFREE + 4 * (i \div 32) + Sig(c.bo, 4, (i % 32) \div 8)
    IN  {i \in 0..(n - 1) : (ImageByte(img, At(i)) \div 2^(i % 8)) % 2 = 1}

\* The out-of-superblock map is counted in whole bytes.
probe_v8_bitmap_count(img, c, form) ==
    IF form = "bigmap" /\ ~Fits(img, c.base, c.bsize, c.fsize) THEN -1
    ELSE Cardinality(V8Bits(img, c, form, IF form = "bigmap" THEN 8 * CeilDiv(c.fsize, 8)
                                          ELSE c.fsize - c.isize))

V8FieldsOK(img, c, tfree) ==
    /\ c.isize >= 3 /\ c.ninode <= NICINOD /\ V8Maxino(c) <= 65536
    /\ \A i \in 0..(c.ninode - 1) : Get(img, c.bo, 2, c.sb + 10 + 2 * i) <= V8Maxino(c)
    /\ ImageByte(img, c.sb + 212) <= 1
    /\ c.fsize > c.isize /\ c.fsize <= 2^24
    /\ tfree <= c.fsize - c.isize /\ Get(img, c.bo, 2, c.sb + 224) <= V8Maxino(c)
    /\ \A i \in 0..13 : ImageByte(img, c.sb + 230 + i) \in {0} \cup 32..126
    /\ c.fsize <= (img.size + c.bsize) \div c.bsize

V8RootOK(img, c, size, rootblk) ==
    LET d == c.base + 2 * c.bsize + 64
        rd == c.base + rootblk * c.bsize
    IN  /\ CanRead(img, c.base + 2 * c.bsize, 128)
        /\ IsDir(Get(img, c.bo, 2, d)) /\ Get(img, c.bo, 2, d + 2) >= 2
        /\ size >= 32 /\ size % 16 = 0
        /\ c.isize <= rootblk /\ rootblk < c.fsize
        /\ CanRead(img, rd, 64)
        /\ \A e \in {0, 16} : Get(img, c.bo, 2, rd + e) = 2 /\ ImageByte(img, rd + e + 2) = 46
        /\ ImageByte(img, rd + 19) = 46

V8List(img, c) == /\ c.nfree <= c.nicfree
                  /\ EntriesOK(img, c.sb + V8_BFREE, c.nfree, c)
                  /\ probe_walk_chain(img, c, c.head, {})

V8Form(img, c) == IF V8List(img, c) THEN "list"
                  ELSE IF ImageByte(img, c.sb + 249) = 1 /\ c.bsize = 4096 THEN "bigmap"
                  ELSE "bitmap"

\* One byte order: [r, form, fsize], r as for the probes.
V8Judge(img, c, form, tfree) ==
    LET d == c.base + 2 * c.bsize + 64
        Res(r) == [r |-> r, form |-> IF r = 1 THEN form ELSE "", fsize |-> c.fsize]
    IN  IF ~V8FieldsOK(img, c, tfree) THEN Res(0)
        ELSE IF /\ V8RootOK(img, c, Get(img, c.bo, 4, d + 8), Get(img, c.bo, 3, d + 12))
                /\ probe_v8_ilist_ok(img, c)
                /\ form = "list" \/ probe_v8_bitmap_count(img, c, form) = tfree
        THEN Res(1) ELSE Res(2)

V8Try(img, c) == V8Judge(img, c, V8Form(img, c), Get(img, c.bo, 4, c.sb + 220))
probe_v8_try(img, base, bsize, bo) == V8Try(img, ReadSuper(img, V8Layout(base, bsize, bo)))

V8Class(bsize, form) ==
    IF form = "bigmap" THEN "v10, bs=4096, bigmap"
    ELSE IF bsize = 8192 THEN "v9"
    ELSE IF bsize = 4096 THEN "v8 or v10, bs=4096, bitmap" ELSE "v8 or v10, bs=1024"

\* The outcome of the two orders, the little-endian one first.
EitherOrder(bsize, le, be) ==
    LET Is(t, bo) == Hit(V8Class(bsize, t.form), bsize, t.form, bo, t.fsize)
    IN  IF le.r = 1 THEN Is(le, "le")
        ELSE IF be.r = 1 THEN Is(be, "be")
        ELSE IF 2 \in {le.r, be.r} THEN NearMiss("v8") ELSE No

probe_v8(img, base, bsize) ==
    IF ~CanRead(img, base + bsize, bsize) THEN No
    ELSE EitherOrder(bsize, probe_v8_try(img, base, bsize, "le"),
                            probe_v8_try(img, base, bsize, "be"))

----------------------------------------------------------------------------
(* The detector.                                                           *)

\* ops->probe of an edition at a block size.
v7_probe(img, f, base, bsize) ==
    CASE f.sb = "v1" -> v1_probe(img, base)
      [] f.sb = "v6" -> probe_v6(img, base)
      [] f.sb = "v8" -> probe_v8(img, base, bsize)
      [] f.magic = "xenix" -> probe_xenix(img, base)
      [] f.magic = "sysv" -> probe_sysv(img, base)
      [] f.bsize = 1024 /\ f.sb = "v7" -> probe_bsd29(img, base)
      [] OTHER -> probe_v7_family(img, f, base, bsize)

edition_is_strong(ed) == getformat(ed).sb = "v8" \/ getformat(ed).magic # "none"

edition_bsizes(ed) ==
    IF getformat(ed).sb # "v8" \/ ed = "v9" THEN <<getformat(ed).bsize>> ELSE <<1024, 4096>>

\* The probes of one pass, in the order they run, as <<edition, bsize>>.
Pass(strong) ==
    FlattenSeq([i \in 1..Len(Table) |->
        IF edition_is_strong(Table[i]) # strong THEN << >>
        ELSE [b \in 1..Len(edition_bsizes(Table[i])) |->
                <<Table[i], edition_bsizes(Table[i])[b]>>]])

\* (mutant) The probes without a magic word run first.
Order_Weak == Pass(FALSE) \o Pass(TRUE)
Order == Pass(TRUE) \o Pass(FALSE)

\* A block size is tried where the offset is aligned to it.
Aligned(img, base, bsize) == base % bsize = 0 /\ base + bsize <= img.size

ProbeAt(img, base, p) ==
    IF Aligned(img, base, p[2]) THEN v7_probe(img, getformat(p[1]), base, p[2]) ELSE No

\* What the probes answer at a byte, in their order.
Probed(img, base) ==
    SelectSeq([i \in 1..Len(Order) |-> [strong |-> edition_is_strong(Order[i][1]),
                                        res |-> ProbeAt(img, base, Order[i])]],
              LAMBDA a : a.res.r # 0)

\* The first probe that validates.
Winner(img, base) ==
    LET valid == SelectSeq(Probed(img, base), LAMBDA a : a.res.r = 1)
    IN  IF valid = << >> THEN No ELSE valid[1].res

\* The editions of a class, the canonical one first.
Candidates(class) ==
    CASE class = "v1, v2 or v3" -> <<"v1">>
      [] class = "v4, v5, v6 or usgpg3" -> <<"v6">>
      [] class = "v7, sysiii or sysvr1" -> <<"v7", "sysiii">>
      [] class = "32V or sysiii" -> <<"vax32", "sysiii">>
      [] class = "Coherent" -> <<"coherent">>
      [] class = "Xenix" -> <<"xenix">>
      [] class = "2.9BSD" -> <<"bsd29">>
      [] class = "2.11BSD" -> <<"bsd211">>
      [] class = "sysvr2 or sysvr3" -> <<"sysvr2">>
      [] class = "sysvr4" -> <<"sysvr4">>
      [] class = "v9" -> <<"v9">>
      [] class \in {"v8 or v10, bs=1024", "v8 or v10, bs=4096, bitmap"} -> <<"v8", "v10">>
      [] class = "v10, bs=4096, bigmap" -> <<"v10">>
      [] OTHER -> << >>

\* The edition and the -g geometry handed to the opener; filter is -v.
Undetected == [ed |-> "none", bsize |-> 0, form |-> "", bo |-> ""]

resolve_class(res, filter) ==
    LET c == Candidates(res.class)
        sysv == res.class \in {"sysvr2 or sysvr3", "sysvr4"}
    IN  IF res.r = 0 \/ c = << >> \/ (filter # "unix" /\ filter \notin Range(c)) THEN Undetected
        ELSE [ed |-> IF filter = "unix" THEN c[1] ELSE filter,
              bsize |-> IF sysv THEN 0 ELSE res.bsize,
              form |-> CASE res.class = "v8 or v10, bs=1024" -> "list"
                         [] res.class = "v8 or v10, bs=4096, bitmap" -> "bitmap"
                         [] OTHER -> res.form,
              bo |-> IF sysv THEN "" ELSE res.bo]

filsys_detect(img, base, filter) == resolve_class(Winner(img, base), filter)

----------------------------------------------------------------------------
(* Opening what was detected, as mount.filsys does with -v unix or v10.    *)

\* The magic word, read in each order, gives the byte order of the editions
\* that have one; the open is refused when it reads in none.
magic_byte_offset(f) == IF f.magic = "sysv" THEN 512 + 504 ELSE 1024 + 1016

filsys_resolve_byteorder(f, bytes) ==
    LET magic == IF f.magic = "sysv" THEN SysvMagic ELSE XenixMagic
        reads == SelectSeq(<<"le", "be", "me">>, LAMBDA bo : bytes = InOrder(bo, magic))
    IN  IF f.magic = "none" THEN f
        ELSE [f EXCEPT !.bo = IF reads = << >> THEN "none" ELSE reads[1]]

\* The fields are where the probes look for them.
OpenLayout(img, f, base) ==
    CASE f.sb = "v6" -> V6Layout(base)
      [] f.sb = "v8" -> V8Layout(base, f.bsize, f.bo)
      [] f.magic = "sysv" -> SysvLayout(base, f.bo, Get(img, f.bo, 4, base + 512 + 508))
      [] OTHER -> FamilyLayout(f, base, f.bsize)

Words(img, bo, wid, at, n) == [i \in 1..n |-> Get(img, bo, wid, at + wid * (i - 1))]

\* Counting the list where the superblock keeps no total: a segment's entries,
\* the last first, up to the sentinel, then the block the first one names; got
\* were counted before, and the walk gives up past fsize + nicfree.
Sentinel(cur) == Max({0} \cup {i \in DOMAIN cur : cur[i] = 0})

RECURSIVE count_list(_, _, _, _, _), count_next(_, _, _, _, _)
count_list(img, f, c, cur, got) ==
    IF cur = << >> \/ Len(cur) > c.nicfree THEN got
    ELSE IF got + Len(cur) - Sentinel(cur) > c.fsize + c.nicfree THEN c.fsize + c.nicfree + 1
    ELSE IF Sentinel(cur) > 0 \/ ~CanRead(img, c.base + cur[1] * c.bsize, c.bsize)
    THEN got + Len(cur) - Sentinel(cur)
    ELSE count_next(img, f, c, c.base + cur[1] * c.bsize, got + Len(cur))

count_next(img, f, c, at, got) ==
    count_list(img, f, c, Words(img, c.bo, c.wid, at + c.fb,
                                Get(img, c.bo, df_nfree_wid(f), at)), got)

\* An inode is live if its mode is not 0, in V6 if its top bit is set.
LiveInodes(img, f, base, maxino) ==
    {ino \in 1..maxino :
       Get(img, f.bo, 2, base + 2 * f.bsize + (ino - 1) * f.isz)
         >= (IF f.sb = "v6" THEN 32768 ELSE 1)}

\* What an open keeps of the superblock; Closed when it refuses.
Closed == [isize |-> 0]

Loaded(img, f, c) ==
    LET v6 == f.sb = "v6"
        nfree == IF f.form = "list" THEN c.nfree ELSE 0
        maxino == (c.isize - (IF v6 THEN 0 ELSE 2)) * Inopb(f)
        tfree == c.sb + (IF f.sb = "v8" THEN 220 ELSE sb_tfree_off(f))
        stored == f.sb = "v8" \/ HasTotals(f)
        first == IF f.form = "bigmap" THEN 0 ELSE c.isize
    IN  IF \/ nfree > c.nicfree \/ c.ninode > NICINOD \/ c.isize < (IF v6 THEN 1 ELSE 2)
           \/ ~Fits(img, c.base, c.bsize, c.fsize) \/ c.fsize <= c.isize + (IF v6 THEN 2 ELSE 0)
           \/ f.form = "bitmap" /\ c.fsize - c.isize > V8_BITMAP_BITS
        THEN Closed
        ELSE [isize |-> c.isize, fsize |-> c.fsize,
              free |-> Words(img, c.bo, c.wid, c.sb + c.freeoff, nfree),
              inode |-> Words(img, c.bo, 2, c.sb + c.ninodeoff + 2, c.ninode),
              map |-> IF f.form = "list" THEN {}
                      ELSE {first + i : i \in V8Bits(img, c, f.form, c.fsize - first)},
              tfree |-> IF stored THEN Get(img, c.bo, 4, tfree)
                        ELSE count_list(img, f, c, Words(img, c.bo, c.wid, c.sb + c.freeoff, nfree), 0),
              tinode |-> IF stored THEN Get(img, c.bo, 2, tfree + 4)
                         ELSE maxino - Cardinality(LiveInodes(img, f, c.base, maxino))]

v7fs_open(img, f, base) == Loaded(img, f, ReadSuper(img, OpenLayout(img, f, base)))

\* V1: the maps, whose totals are counted.
V1Loaded(img, base, fm, im) ==
    LET first == (im * 8 + 31) \div 16 + 1
        Set(at, i) == (ImageByte(img, base + at + i \div 8) \div 2^(i % 8)) % 2 = 1
        map == {b \in 0..(8 * fm - 1) : Set(2, b)}
    IN  IF fm = 0 \/ 4 + fm + im > 1024 \/ ~Fits(img, base, 512, 8 * fm) \/ 8 * fm <= first
        THEN Closed
        ELSE [isize |-> first, fsize |-> 8 * fm, free |-> << >>, inode |-> << >>, map |-> map,
              tfree |-> Cardinality({b \in map : b >= first}),
              tinode |-> Cardinality({i \in 41..(8 * im) : ~Set(4 + fm, i - 41)})]

v1fs_open(img, base, fm) == V1Loaded(img, base, fm, Get(img, "le", 2, base + 2 + fm))

\* The descriptor's open, under the detected edition and geometry.
OpenAs(img, f, base) ==
    CASE f.bo = "none" -> Closed
      [] f.sb = "v1" -> v1fs_open(img, base, Get(img, "le", 2, base))
      [] OTHER -> v7fs_open(img, f, base)

filsys_open_arch(img, det, base) ==
    LET f == getformat(det.ed)
    IN  IF det.ed = "none" THEN Closed
        ELSE OpenAs(img, filsys_resolve_byteorder(
                             IF f.sb = "v8" THEN apply_geom(f, det.bsize, det.form, det.bo) ELSE f,
                             Bytes4(img, base + magic_byte_offset(f))), base)

----------------------------------------------------------------------------
(* findfs.filsys: every probe at every sector, skipping what was found.    *)

MAXCAND == 256

\* A candidate: its first byte, its end (0 for a near miss) and its class.
Cand(base, res) ==
    [byte |-> base, class |-> res.class, valid |-> res.r = 1,
     end |-> IF res.r = 1 THEN base + res.fsize * res.bsize ELSE 0]

\* The candidates at a byte: those of the weak probes only if no strong one
\* validated.
Accepted(base, answers) ==
    LET hit == \E i \in DOMAIN answers : answers[i].strong /\ answers[i].res.r = 1
        kept == SelectSeq(answers, LAMBDA a : hit => a.strong)
    IN  [i \in 1..Len(kept) |-> Cand(base, kept[i].res)]

\* The table holds MAXCAND candidates; what comes later is dropped.
add_cand(cands, new) ==
    SubSeq(cands \o new, 1, IF Len(cands \o new) < MAXCAND THEN Len(cands \o new) ELSE MAXCAND)

\* (mutant) A volume found is skipped past by one sector more.
Resume_Far(skip) == (skip \div SECTOR) + 2

\* The loop's increment follows the assignment that skips a found volume.
Resume(skip) == (skip \div SECTOR) + 1

SkipEnd(skip, new) == Max({skip} \cup {new[i].end : i \in DOMAIN new})

NextSector(s, skip) == IF (s + 1) * SECTOR < skip THEN Resume(skip) ELSE s + 1

\* emit: a validated candidate drops the others that start within it, those
\* at the same byte included; the validated ones that remain are printed.
emit(cands) ==
    LET valid == SelectSeq(cands, LAMBDA c : c.valid)
        Within(c, d) == c.byte <= d.byte /\ d.byte < c.end
        Drops(drop, i) == IF i \in drop THEN drop
                          ELSE drop \cup {j \in DOMAIN valid \ {i} : Within(valid[i], valid[j])}
        drop == FoldLeft(Drops, {}, [i \in 1..Len(valid) |-> i])
    IN  {valid[i] : i \in DOMAIN valid \ drop}

\* The -v token findfs prints for a class: its canonical edition.
canonical_token(class) == IF Candidates(class) = << >> THEN class ELSE Candidates(class)[1]
=============================================================================
