------------------------------- MODULE Tools -------------------------------
(***************************************************************************)
(* A disk image under the command-line tools and whole mounts: mkfs.filsys *)
(* puts volumes on it, a mount writes and removes files and unmounts, or   *)
(* is killed, and fsck.filsys clears inodes and salvages.  The disk is at  *)
(* its real layout (module Formats), so that autodetection, findfs.filsys  *)
(* and the block check of fsck can be asked about it in every state        *)
(* (module Probe, and icheck below).                                       *)
(*                                                                         *)
(* A volume killed while mounted is not mounted again; fsck runs with the  *)
(* volume's own -v and -g.                                                 *)
(***************************************************************************)
EXTENDS Probe

CONSTANTS
    Firsts,    \* the first volumes: format, size in blocks, and the bound on
               \* the mounts and repairs it sees, as <<f, n, k>>
    Seconds,   \* the volumes put after a first: <<f, n, gap>>, gap the blocks
               \* left between the two
    Overs,     \* the volumes put over a first: <<f, n>>
    Lens,      \* the number of blocks of a file
    MaxFiles   \* bound: the files of a volume

VARIABLES
    disk,      \* the volumes on the image
    left,      \* the mounts and repairs still to come at most
    out        \* what the last command of fsck or findfs found, until the next
tvars == <<disk, left, out>>

Quiet == [cmd |-> "none"]

----------------------------------------------------------------------------
(* Files.                                                                  *)

\* A file of n blocks can be: it is not just its indirect block.
Feasible(f, n) == 0 <= n /\ n <= MaxFile(f) /\ n # f.ndaddr + 1

\* The file's direct blocks, its indirect block and the blocks under it.
Direct(f, bl) == IF Large(f, bl) THEN << >>
                 ELSE SubSeq(bl, 1, IF Len(bl) < f.ndaddr THEN Len(bl) ELSE f.ndaddr)
Indirect(f, bl) == IF Len(bl) > f.ndaddr THEN <<bl[f.ndaddr + 1]>> ELSE << >>
Under(f, bl) == (IF Large(f, bl) THEN SubSeq(bl, 1, f.ndaddr) ELSE << >>)
                \o SubSeq(bl, f.ndaddr + 2, Len(bl))

\* The order itrunc_from and itrunc collect a whole file's blocks in: slots
\* up or down, a subtree's leaves before its indirect block.
itrunc_from(f, bl) == Direct(f, bl) \o Under(f, bl) \o Indirect(f, bl)
itrunc(f, bl) == Under(f, bl) \o Indirect(f, bl) \o Reverse(Direct(f, bl))

\* What repeated balloc calls would hand out.
Handed(v) == IF v.f.form # "list" THEN Ascending(v.map, v.fsize) ELSE balloc_n(v, v.fsize).bl

Add(v, ino, bl) == [v EXCEPT !.files = Append(@, [ino |-> ino, blocks |-> bl])]

----------------------------------------------------------------------------
(* fsck.filsys: the block check, and the rebuilding of the free space.     *)

\* filsys_mark_block: a block claimed before is a duplicate.
Mark(cx, b) == IF b \in cx.map THEN [cx EXCEPT !.dup = @ + 1]
               ELSE [cx EXCEPT !.map = @ \cup {b}]

\* The blocks of one inode; a duplicate indirect block is not followed.
mark_blocks(f, cx, bl) ==
    LET d == FoldLeft(Mark, cx, Direct(f, bl))
        i == FoldLeft(Mark, d, Indirect(f, bl))
    IN  IF i.dup > d.dup THEN i ELSE FoldLeft(Mark, i, Under(f, bl))

\* The i-list block an inode is in.
Itod(v, ino) == 2 + (ino - 1) \div Inopb(v.f)

\* The blocks of every inode not in an unreadable block, in inode order.
Marked(v, bad) ==
    LET f == v.f
        Blocks(ino) == IF ino = f.rootino THEN <<v.root>>
                       ELSE IF v.lf # 0 /\ ino = 3 THEN <<v.lf>>
                       ELSE IF f.sb = "v7" /\ ino = 1 THEN << >>
                       ELSE v.files[CHOOSE i \in DOMAIN v.files : v.files[i].ino = ino].blocks
    IN  FoldLeft(LAMBDA cx, ino : mark_blocks(f, cx, Blocks(ino)), [map |-> {}, dup |-> 0],
                 Ascending({ino \in Live(v) : Itod(v, ino) \notin bad}, v.maxino))

\* Walking one segment of the free list from its end: it stops at the
\* sentinel, at a block out of range or at one seen before (an error).
Segment(v, n, arr, seen) ==
    LET stops == {i \in 1..n : \/ arr[i] \notin data_first(v)..(v.fsize - 1)
                               \/ arr[i] \in seen
                               \/ \E j \in (i + 1)..n : arr[j] = arr[i]}
        s == IF stops = {} THEN 0 ELSE CHOOSE i \in stops : \A j \in stops : j <= i
    IN  [took |-> {arr[i] : i \in (s + 1)..n}, more |-> n > 0 /\ s = 0,
         err |-> Flag(s # 0 /\ arr[IF s = 0 THEN 1 ELSE s] # 0)]

\* The walk: the blocks of the list and the errors met on it.
RECURSIVE walk_list(_, _, _, _)
walk_list(v, n, arr, seen) ==
    LET g == Segment(v, n, arr, seen)
        d == Dump(v, arr[1])
    IN  IF ~g.more THEN [free |-> seen \cup g.took, err |-> g.err]
        ELSE walk_list(v, d.n, d.arr, seen \cup g.took)

walk_free(v) ==
    IF v.f.form = "list" THEN walk_list(v, v.nfree, v.arr, {})
    ELSE [free |-> v.map \cap data_first(v)..(v.fsize - 1), err |-> 0]

\* The errors of the block check: duplicates among the inodes and with the
\* free space, a broken list, blocks in neither, and the stored totals.
icheck(v) ==
    LET cx == Marked(v, {})
        w == walk_free(v)
    IN  cx.dup + w.err + Cardinality(w.free \cap cx.map)
        + Cardinality(Data(v) \ (cx.map \cup w.free))
        + Flag(HasTotals(v.f) /\ Cardinality(w.free \ cx.map) # v.tfree)
        + Flag(HasTotals(v.f) /\ v.maxino - Cardinality(Live(v)) # v.tinode)

\* -s: the free space is rebuilt around the blocks of the readable inodes,
\* and where the editions recount the free inodes an unreadable one is free.
salvage(v, bad) ==
    LET m == makefree(v, Marked(v, bad).map)
    IN  IF v.f.form = "list" /\ v.f.sb # "v6"
        THEN [m EXCEPT !.tinode = @ + Cardinality({i \in Live(v) : Itod(v, i) \in bad})]
        ELSE m

----------------------------------------------------------------------------
(* Actions.                                                                *)

\* A command that only reads is the last one asked of the disk: what follows
\* it would be the same without it.
Idle == disk # << >> /\ out.cmd \in {"none", "salvage"}

Init == disk = << >> /\ left = 0 /\ out = Quiet

\* mkfs.filsys on a new image.
Mkfs(f, n, k) ==
    /\ disk = << >> /\ MkfsOK(f, n)
    /\ \E v \in {mkfs(f, n, 0, << >>)} : disk' = <<v>>
    /\ left' = k
    /\ UNCHANGED out

\* mkfs.filsys -o: a second volume, at a whole number of its own blocks from
\* the start of the image; the image grows to the volume's end.
MkfsAfter(f, n, gap) ==
    LET bs == MainBsize(f)
        off == CeilDiv(VolEnd(disk[1]), bs) + gap
    IN  /\ Idle /\ Len(disk) = 1 /\ disk[1].old = << >> /\ disk[1].files = << >> /\ MkfsOK(f, n)
        /\ \E v \in {mkfs(f, n, (off * bs) \div SECTOR, << >>)} : disk' = Append(disk, v)
        /\ left' = 0
        /\ UNCHANGED out

\* mkfs.filsys over a volume: nothing is cleared first.
MkfsOver(f, n) ==
    /\ Idle /\ Len(disk) = 1 /\ disk[1].old = << >> /\ disk[1].files = << >> /\ MkfsOK(f, n)
    /\ \E v \in {mkfs(f, n, 0, disk)} : disk' = <<v>>
    /\ left' = 0
    /\ UNCHANGED out

\* The operations below act on the only volume of the disk.
Volume1 == Idle /\ Len(disk) = 1 /\ disk[1].old = << >> /\ left > 0
Mountable == Volume1 /\ ~disk[1].fmod
Becomes(v) == \E w \in {v} : disk' = <<w>> /\ left' = left - 1

\* A mount creates a file, writes n blocks and unmounts.
WriteFile(n) ==
    /\ Mountable /\ Len(disk[1].files) < MaxFiles /\ Feasible(disk[1].f, n)
    /\ \E t \in {balloc_n(ialloc(disk[1]), n)} :
         /\ Len(t.bl) = n
         /\ Becomes(Add(t.v, NextIno(disk[1]), t.bl))
    /\ out' = Quiet

\* A mount creates a file and a write takes every block before it runs out:
\* the write is rolled back and the file is left empty.
FillUp ==
    /\ Mountable
    /\ \E t \in {balloc_n(ialloc(disk[1]), disk[1].fsize)} :
         /\ Len(t.bl) <= MaxFile(disk[1].f)
         /\ Becomes(Add(bfree_all(balloc_fails(t.v), itrunc_from(disk[1].f, t.bl)),
                        NextIno(disk[1]), << >>))
    /\ out' = Quiet

\* A mount removes a file.
Remove1 ==
    LET v == disk[1]
    IN  /\ Mountable /\ v.files # << >>
        /\ LET file == Last(v.files)
           IN  Becomes(ifree(bfree_all([v EXCEPT !.files = Front(@)],
                                       itrunc(v.f, file.blocks)), file.ino))
        /\ out' = Quiet

\* The process is killed in a write, after the superblock is flushed and
\* before the inode is written.
Killed(n) ==
    /\ Mountable /\ 0 < n /\ Feasible(disk[1].f, n)
    /\ \E t \in {balloc_n(ialloc(disk[1]), n)} :
         /\ Len(t.bl) = n
         /\ Becomes([Add(t.v, NextIno(disk[1]), << >>)
                       EXCEPT !.lost = @ \cup Range(t.bl), !.fmod = TRUE])
    /\ out' = Quiet

\* The process is killed while a large file grows, when its indirect block is
\* written and the superblock is not: the blocks are claimed and still free.
\* The list is short of a reload, which would flush it.
KilledGrowing(n) ==
    LET v == disk[1]
        last == Len(v.files)
    IN  /\ Mountable /\ v.files # << >>
        /\ Len(v.files[last].blocks) > v.f.ndaddr + 1
        /\ Feasible(v.f, Len(v.files[last].blocks) + n)
        /\ 0 < n /\ (v.f.form = "list" => n < v.nfree)
        /\ \E t \in {balloc_n(v, n)} :
             /\ Len(t.bl) = n
             /\ Becomes([v EXCEPT !.files[last].blocks = @ \o t.bl, !.fmod = TRUE])
        /\ out' = Quiet

\* fsck.filsys -C: the inode is zeroed; its blocks are then in nothing.
\* 2.11BSD has no -C; V1's inode map keeps the bit and is left out.
Clri ==
    LET v == disk[1]
    IN  /\ Volume1 /\ v.files # << >> /\ v.f.sb # "v1" /\ v.f.dirent # 0
        /\ Becomes([v EXCEPT !.files = Front(@), !.lost = @ \cup Range(Last(v.files).blocks)])
        /\ out' = Quiet

\* fsck.filsys -s, with at most one block of the i-list unreadable, and not
\* the one of the root; no file behind it has an indirect block.
Salvage(bad) ==
    LET v == disk[1]
    IN  /\ Volume1
        /\ \A b \in bad : b \in 2..(data_first(v) - 1) /\ b # Itod(v, v.f.rootino)
        /\ \A i \in DOMAIN v.files : Itod(v, v.files[i].ino) \in bad =>
              Len(v.files[i].blocks) \in 1..v.f.ndaddr
        /\ Becomes(salvage(v, bad))
        /\ out' = [cmd |-> "salvage", bad |-> bad, before |-> v]

\* The i-list blocks worth failing: the ones that hold a file's inode.
BadBlocks == {{}} \cup {{Itod(disk[1], disk[1].files[i].ino)} : i \in DOMAIN disk[1].files}

\* mount.filsys -v, up to the open: the detector, and for -v unix and -v v10 the
\* superblock read under what it found.  Another -v only asks it whether the
\* edition fits, and opens with the geometry of the command line (left out).
Autodetect == {"unix", "v10"}

Detect(i, filter) ==
    LET base == disk[i].start * SECTOR
    IN  /\ Idle
        /\ \E img \in {Image(disk)} : \E det \in {filsys_detect(img, base, filter)} :
             out' = [cmd |-> "detect", vol |-> i, filter |-> filter, det |-> det,
                     open |-> IF filter \in Autodetect THEN filsys_open_arch(img, det, base)
                              ELSE Closed]
        /\ UNCHANGED <<disk, left>>

\* fsck.filsys -n: the block check.
Check(i) ==
    /\ Idle
    /\ out' = [cmd |-> "check", vol |-> i, errors |-> icheck(disk[i])]
    /\ UNCHANGED <<disk, left>>

\* findfs.filsys: one step collects what is at a sector, or moves on to the
\* next sector where a probe answers.
FindfsStart ==
    /\ Idle
    /\ out' = [cmd |-> "findfs", sec |-> 0, skip |-> 0, cands |-> << >>]
    /\ UNCHANGED <<disk, left>>

FindfsStep ==
    LET last == (VolEnd(Last(disk)) \div SECTOR) - 1
    IN  /\ out.cmd = "findfs" /\ out.sec <= last
        /\ \E img \in {Image(disk)} :
             \E answers \in {Probed(img, out.sec * SECTOR)} :
               \/ /\ answers # << >>
                  /\ \E new \in {Accepted(out.sec * SECTOR, answers)} :
                       out' = [out EXCEPT !.sec = NextSector(@, SkipEnd(out.skip, new)),
                                          !.skip = SkipEnd(@, new), !.cands = add_cand(@, new)]
               \/ /\ answers = << >>
                  /\ \E more \in {{s \in (out.sec + 1)..last : Probed(img, s * SECTOR) # << >>}} :
                       out' = [out EXCEPT !.sec = IF more = {} THEN last + 1 ELSE Min(more)]
        /\ UNCHANGED <<disk, left>>

FindfsEmit ==
    /\ out.cmd = "findfs" /\ out.sec > (VolEnd(Last(disk)) \div SECTOR) - 1
    /\ out' = [cmd |-> "found", vols |-> emit(out.cands)]
    /\ UNCHANGED <<disk, left>>

Next ==
    \/ \E p \in Firsts : Mkfs(p[1], p[2], p[3])
    \/ \E p \in Seconds : MkfsAfter(p[1], p[2], p[3])
    \/ \E p \in Overs : MkfsOver(p[1], p[2])
    \/ \E n \in Lens : WriteFile(n) \/ Killed(n) \/ KilledGrowing(n)
    \/ FillUp
    \/ Remove1
    \/ Clri
    \/ disk # << >> /\ \E bad \in BadBlocks : Salvage(bad)
    \/ \E i \in DOMAIN disk : Check(i) \/ \E filter \in {"unix", disk[i].f.ed} : Detect(i, filter)
    \/ FindfsStart
    \/ FindfsStep
    \/ FindfsEmit

Spec == Init /\ [][Next]_tvars

----------------------------------------------------------------------------
(* Properties.                                                             *)

\* What autodetection should answer: the canonical edition of the class the
\* format belongs to, with the volume's block size, and for the V8 family
\* also its free-space form and byte order.
Canonical(f) ==
    CASE f.ed = "v10" /\ f.form # "bigmap" -> "v8"
      [] f.ed = "sysiii" -> IF f.pack4 THEN "vax32" ELSE "v7"
      [] OTHER -> f.ed

Answers(v, det) ==
    /\ det.ed = Canonical(v.f)
    /\ v.f.magic = "sysv" \/ det.bsize = v.f.bsize
    /\ v.f.sb = "v8" => det.form = v.f.form /\ det.bo = v.f.bo

\* The volumes autodetection gets wrong, each for a reason in the probes:
\* V6's test of an i-list of 3 blocks; V7's probe, tried before Coherent's,
\* when no chain block shows the depth of Coherent's cache; the 4-byte count
\* read from System V's chain blocks, where bfree stored 2 bytes; a V9 bitmap
\* whose first word, the list's head, is 0; a start not aligned to the block
\* size of -g.
Chained(v) == v.arr[1] # 0

FirstBits(v, n) == {b \in v.map : b - v8_base(v) < n}

Misread(v) ==
    \/ v.f.sb = "v6" /\ v.isize < 3
    \/ v.f.ed = "coherent" /\ ~Chained(v) /\ v.nfree <= 50
    \/ v.f.magic = "sysv" /\ v.f.bo = "be" /\ Chained(v)
    \/ v.f.ed = "v9" /\ v.f.form = "bitmap" /\ FirstBits(v, 32) = {}
    \/ (v.start * SECTOR) % v.f.bsize # 0

\* What mkfs leaves of the volume that was there before can be taken for it:
\* the System V magic beyond the fields of the 32V layout; V6's superblock,
\* under an edition whose own is elsewhere or has a gap where V6 keeps
\* s_fsize; the superblock of smaller V8-family blocks; and the byte that
\* says the V8-family bitmap is out of the superblock.
Leftover(v) ==
    v.old # << >> /\
      LET o == v.old[1].f
          f == v.f
      IN  \/ o.magic = "sysv" /\ o.bo = f.bo /\ f.pack4 /\ f.magic = "none"
          \/ o.sb = "v6" /\ f.sb = "v7" /\ f.magic = "none" /\ (f.pack4 \/ f.bsize = 1024)
          \/ o.sb = "v8" /\ f.sb = "v8" /\ (o.bsize < f.bsize \/ (o.form = "bigmap" /\ f.form = "bitmap"))

\* The edition a volume is taken for, "none" if no probe accepts it.
Taken(v) ==
    CASE v.f.ed = "coherent" /\ Misread(v) -> "v7"
      [] Misread(v) /\ v.f.ed # "v9" -> "none"
      [] OTHER -> Canonical(v.f)

\* What the engine kept in core when the volume was last written; V1 counts
\* its totals, and so do the editions whose superblock has none.
Kept(v) ==
    LET f == v.f
        counted == f.sb \in {"v1", "v6"} \/ (f.sb = "v7" /\ ~HasTotals(f))
    IN  [isize |-> v.isize, fsize |-> v.fsize, free |-> SubSeq(v.arr, 1, v.nfree),
         inode |-> SubSeq(v.iarr, 1, v.ninode), map |-> v.map,
         tfree |-> IF counted THEN Len(Handed(v)) ELSE v.tfree,
         tinode |-> IF counted THEN Cardinality((v.f.rootino..v.maxino) \ Live(v)) ELSE v.tinode]

\* System III on a PDP-11 is detected as V7, whose totals are elsewhere.
OtherTotals(f) == f.ed = "sysiii" /\ ~f.pack4

\* Autodetection (filsys_detect, as mount and fsck call it) names a volume's
\* class and geometry, whatever mounts, crashes and repairs did to it,
\* whatever lies before it and whatever mkfs wrote it over, exactly when it is
\* not one of the misread ones, remains of the volume under it aside; the
\* guard of an explicit -v then accepts the volume's own edition; and opening
\* the volume under what was detected reads back what was kept in core, in
\* every byte order and layout.
Recognised ==
    out.cmd = "detect" /\ ~Leftover(disk[out.vol]) =>
      LET v == disk[out.vol]
      IN  /\ out.filter = "unix" => /\ Answers(v, out.det) <=> ~Misread(v)
                                    /\ out.det.ed = Taken(v)
          /\ ~Misread(v) /\ out.filter = v.f.ed => out.det.ed = v.f.ed
          /\ ~Misread(v) /\ out.filter \in Autodetect /\ ~OtherTotals(v.f) => out.open = Kept(v)

\* The volume is consistent: the blocks of its inodes and those the allocator
\* would hand out are all different and together the data blocks, and the
\* stored totals are theirs.
Claims(v) == <<v.root>> \o (IF v.lf # 0 THEN <<v.lf>> ELSE << >>)
             \o FlattenSeq([i \in 1..Len(v.files) |-> v.files[i].blocks])

Disjoint(v) == IsInjective(Claims(v))

Sound(v) ==
    LET free == Handed(v)
    IN  /\ IsInjective(Claims(v) \o free)
        /\ Range(Claims(v) \o free) = Data(v)
        /\ HasTotals(v.f) => v.tfree = Len(free) /\ v.tinode = v.maxino - Cardinality(Live(v))

\* V6's rebuilding starts at the first multiple of 100 at or above fsize - 1,
\* and so leaves out the last block when fsize - 1 is one.
Skipped(v) == IF v.f.sb = "v6" /\ (v.fsize - 1) % 100 = 0 THEN {v.fsize - 1} ELSE {}

\* The block check of fsck finds errors exactly when the volume is not
\* consistent, although it walks the free list its own way; and salvaging,
\* with every inode readable and no block in two files, leaves it consistent
\* but for the block V6's rebuilding never frees.
FsckExact ==
    /\ out.cmd = "check" => (out.errors = 0 <=> Sound(disk[out.vol]))
    /\ out.cmd = "salvage" /\ out.bad = {} /\ Disjoint(out.before) =>
         LET v == disk[1]
         IN  \/ Sound(v)
             \/ icheck(v) = 1 /\ {} # Skipped(v) /\ Skipped(v) \subseteq Data(v) \ Range(Claims(v))

\* findfs.filsys prints each volume some probe validates, under the token of
\* its class, and nothing else; it misses a volume that starts in the sector
\* where the one before it ends.
ScanFinds ==
    out.cmd = "found" /\ ~Leftover(disk[1]) =>
      LET Hidden(i) == i > 1 /\ VolEnd(disk[i - 1]) = disk[i].start * SECTOR
                             /\ Taken(disk[i - 1]) # "none"
      IN  {<<c.byte, canonical_token(c.class)>> : c \in out.vols}
          = {<<disk[i].start * SECTOR, Taken(disk[i])>> :
                i \in {j \in DOMAIN disk : Taken(disk[j]) # "none" /\ ~Hidden(j)}}

\* A System V volume is detected as one, in either byte order: the probe and
\* the code that writes the volume agree on every field.  Broken: the count of
\* a chain block is written in 2 bytes (bfree) and read in 4 (the probe), which
\* big-endian order tells apart.
SysVDetected ==
    out.cmd = "detect" /\ out.filter = "unix" /\ disk[out.vol].f.magic = "sysv" =>
      out.det.ed = disk[out.vol].f.ed
=============================================================================
