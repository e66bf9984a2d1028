------------------------------ MODULE Pdp7List ------------------------------
(***************************************************************************)
(* The free list of the PDP-7 edition: a chain of nodes kept in the free   *)
(* blocks themselves, updated in place; only its head is held in core and  *)
(* written late, to block 0.  A request is the list `todo' of transfers it *)
(* still has to make, each with the list `fail' its failure leads to, and  *)
(* every state is a crash prefix.                                          *)
(***************************************************************************)
EXTENDS Integers, Sequences, FiniteSets, SequencesExt

CONSTANTS Block,     \* the data blocks, from P7_DATASTART to P7_KDATA
          File,      \* the inodes
          Width,     \* entries in a node: 9 in the source
          Data,      \* a block that holds file data
          MaxAddr,   \* bound: blocks of a file
          MaxFaults  \* bound: transfers that fail

ASSUME Pdp7Assumption ==
  /\ Block \subseteq Nat \ {0} /\ Width \in Nat \ {0}
  /\ MaxAddr \in Nat /\ MaxFaults \in Nat

VARIABLES
  node,      \* what each block holds: a node or file data
  sb,        \* the head of the list, on disk in block 0
  inode,     \* the inodes on disk: used, and their blocks in order
  freelist,  \* the head in core
  fl_dirty,  \* block 0 is to be written before the next inode
  todo,      \* what the running request still has to do
  calm,      \* (history) no crash and no lost block since the list was exact
  torn,      \* (history) the list may lead to what is no node, or be half rebuilt
  faults     \* how many transfers have failed

disk == <<node, sb, inode>>
core == <<freelist, fl_dirty>>
hist == <<calm, torn>>
vars == <<node, sb, inode, freelist, fl_dirty, todo, calm, torn, faults>>

Link == Block \cup {0}
Node == [next : Link, e : [1..Width -> Link]]
Empty == [next |-> 0, e |-> [i \in 1..Width |-> 0]]
Free == [used |-> FALSE, addr |-> <<>>]

Refs == UNION {ToSet(inode[f].addr) : f \in File}
Entries(n) == {n.e[i] : i \in 1..Width} \ {0}

\* The nodes of the list from h, as p7_chk_walk_free follows it.
Chain(h) ==
  LET walk[k \in 0..Cardinality(Block), x \in Link] ==
        IF x = 0 \/ k = 0 THEN {}
        ELSE {x} \cup IF node[x] = Data THEN {} ELSE walk[k - 1, node[x].next]
  IN walk[Cardinality(Block), h]
Spoilt(h) == \E x \in Chain(h) : node[x] = Data
Listed(h) == UNION {{x} \cup IF node[x] = Data THEN {} ELSE Entries(node[x]) : x \in Chain(h)}

\* No block is in two places of the files.
OneOwner ==
  /\ \A f, g \in File : f # g => ToSet(inode[f].addr) \cap ToSet(inode[g].addr) = {}
  /\ \A f \in File : IsInjective(inode[f].addr)

\* The blocks no inode names, from the last to the first.
Unused == SetToSortSeq(Block \ Refs, LAMBDA x, y : x > y)

\* read_words: file data taken for a node may say anything.
Read(b) == IF node[b] = Data THEN Node ELSE {node[b]}
-----------------------------------------------------------------------------
(* Transfers.                                                              *)

Words(b, to, f) == [do |-> "words", b |-> b, to |-> to, fail |-> f]
Zero(b, f) == [do |-> "zero", b |-> b, fail |-> f]
Inode(f, to, e) == [do |-> "inode", f |-> f, to |-> to, fail |-> e]
Super(f) == [do |-> "super", fail |-> f]
Bfree(b) == [do |-> "bfree", b |-> b, fail |-> <<>>]
\* The blocks of a drained list, in its order.
Drain(s) == [i \in 1..Len(s) |-> Bfree(s[i])]
\* A block that is in no list and no inode any more.
Lost == [do |-> "lost", fail |-> <<>>]
Reopen == [do |-> "reopen", fail |-> <<>>]
Rebuilt == [do |-> "rebuilt", fail |-> <<>>]

Idle == todo = <<>>
Start(t) == todo' = t /\ UNCHANGED <<disk, fl_dirty, hist, faults>>

\* mkfs: p7_build_freelist draws the nodes and their entries from the blocks in
\* descending order; each new node points to the one before.
Made ==
  LET s == SetToSortSeq(Block, LAMBDA x, y : x > y)
      per == Width + 1
      count == (Len(s) + Width) \div per
      At(i) == IF i <= Len(s) THEN s[i] ELSE 0
      Nth(k) == [b |-> At((k - 1) * per + 1),
                 n |-> [next |-> IF k = 1 THEN 0 ELSE At((k - 2) * per + 1),
                        e |-> [i \in 1..Width |-> At((k - 1) * per + 1 + i)]]]
      nodes == [k \in 1..count |-> Nth(k)]
  IN [head |-> nodes[count].b,
      node |-> [b \in Block |-> IF \E k \in 1..count : nodes[k].b = b
                                THEN nodes[CHOOSE k \in 1..count : nodes[k].b = b].n ELSE Empty]]

Init ==
  /\ node = Made.node /\ sb = Made.head
  /\ inode = [f \in File |-> Free]
  /\ freelist = sb /\ fl_dirty = FALSE
  /\ todo = <<>> /\ calm = TRUE /\ torn = FALSE /\ faults = 0
-----------------------------------------------------------------------------
(* Requests.                                                               *)

LastEntry(n) == IF Entries(n) = {} THEN 0
                ELSE CHOOSE i \in 1..Width : n.e[i] # 0 /\ \A j \in i+1..Width : n.e[j] = 0

\* What follows balloc in a write: the data, then the inode.  A failure is
\* rolled back by writing the old inode and freeing the block.
Attach(f, b) ==
  LET old == inode[f]
      undo == <<Inode(f, old, <<Lost>>), Bfree(b)>>
  IN <<Zero(b, <<Lost, Inode(f, old, <<>>)>>), Words(b, Data, undo),
       Inode(f, [old EXCEPT !.addr = Append(@, b)], undo)>>

\* balloc: the last entry of the head node, or the node itself when it has none;
\* nothing when the list is empty or its head cannot be read.
WriteFile(f) ==
  LET old == <<Inode(f, inode[f], <<>>)>> IN
  /\ Idle /\ inode[f].used /\ Len(inode[f].addr) < MaxAddr
  /\ \/ /\ freelist = 0 \/ faults < MaxFaults
        /\ Start(old) /\ UNCHANGED freelist
     \/ /\ freelist # 0
        /\ \E n \in Read(freelist) :
             LET last == LastEntry(n) IN
             IF last = 0 THEN freelist' = n.next /\ Start(Attach(f, freelist))
             ELSE /\ Start(<<Words(freelist, [n EXCEPT !.e[last] = 0], old)>>
                           \o Attach(f, n.e[last]))
                  /\ UNCHANGED freelist

Truncate(f) ==
  /\ Idle /\ inode[f].used
  /\ Start(<<Inode(f, [used |-> TRUE, addr |-> <<>>], <<>>)>> \o Drain(inode[f].addr))
  /\ UNCHANGED freelist

\* (mutant) one block of the list is not drained
Destroy_Short(f) ==
  /\ Idle /\ inode[f].used
  /\ Start(<<Inode(f, Free, <<>>)>> \o Drain(SubSeq(inode[f].addr, 2, Len(inode[f].addr))))
  /\ UNCHANGED freelist

\* inode_destroy; the ifree that ends it clears an inode that is already clear.
Destroy(f) ==
  /\ Idle /\ inode[f].used
  /\ Start(<<Inode(f, Free, <<>>)>> \o Drain(inode[f].addr))
  /\ UNCHANGED freelist

\* ialloc writes the inode itself, without a flush before, and inode_create
\* writes it again: that failing, ifree clears it.
Create(f) ==
  LET new == [used |-> TRUE, addr |-> <<>>]
      ifree == [do |-> "ifree", f |-> f, to |-> Free, fail |-> <<>>]
  IN /\ Idle /\ ~inode[f].used
     /\ Start(<<[do |-> "ialloc", f |-> f, to |-> new, fail |-> <<>>], Inode(f, new, <<ifree>>)>>)
     /\ UNCHANGED freelist

\* Also an unmount and the next mount, which reads back the head just written.
Sync == Idle /\ Start(<<Super(<<>>)>>) /\ UNCHANGED freelist

\* Block 0 is read by the next open.
Reload == freelist' = sb /\ fl_dirty' = FALSE /\ torn' = (torn \/ Spoilt(sb))

\* The process is killed, and the volume mounted again.
Crash == todo' = <<>> /\ calm' = FALSE /\ Reload /\ UNCHANGED <<disk, faults>>

\* fsck -s on a volume that is not mounted: p7fs_makefree frees every unused
\* block into an empty list and writes the head; the close writes it again.
Salvage ==
  /\ Idle /\ freelist = sb /\ ~fl_dirty
  /\ freelist' = 0
  /\ calm' = TRUE /\ torn' = TRUE
  /\ LET close == <<Super(<<Reopen>>), Rebuilt>>
     IN todo' = Drain(Unused) \o <<Super(close)>> \o close
  /\ UNCHANGED <<disk, fl_dirty, faults>>
-----------------------------------------------------------------------------
(* One transfer of the running request.                                    *)

\* The first empty place takes the block.
Push(n, b) == [n EXCEPT !.e[CHOOSE i \in 1..Width : n.e[i] = 0 /\ \A j \in 1..i-1 : n.e[j] # 0] = b]

\* What bfree writes, where, and the head in core after it, given the head node.
\* The head is moved whether or not the write goes through.
BfreeAs(b, n) ==
  IF freelist = 0 THEN [at |-> b, to |-> Empty, head |-> b]
  ELSE IF \E i \in 1..Width : n.e[i] = 0 THEN [at |-> freelist, to |-> Push(n, b), head |-> freelist]
  ELSE [at |-> b, to |-> [Empty EXCEPT !.next = freelist], head |-> b]

HeadNode == IF freelist = 0 THEN {Empty} ELSE Read(freelist)

DoBfree(s) ==
  /\ \E n \in HeadNode : LET w == BfreeAs(s.b, n) IN
       node' = [node EXCEPT ![w.at] = w.to] /\ freelist' = w.head
  /\ UNCHANGED <<sb, inode, fl_dirty, hist>>

\* (mutant) block 0 is not written before the inode
FlushFirst_Skip == FALSE

\* `if (fs->fl_dirty)' in p7fs_write_inode.
FlushFirst == fl_dirty

\* write_words; balloc zeroes a block before it marks the list changed.
DoWords(s) ==
  /\ node' = [node EXCEPT ![s.b] = IF s.do = "zero" THEN Empty ELSE s.to]
  /\ fl_dirty' = (fl_dirty \/ s.do = "zero")
  /\ UNCHANGED <<sb, inode, freelist, hist>>

DoInode(s) ==
  /\ inode' = [inode EXCEPT ![s.f] = s.to]
  /\ fl_dirty' = (fl_dirty \/ s.do = "ialloc")
  /\ UNCHANGED <<node, sb, freelist, hist>>

DoSuper == sb' = freelist /\ fl_dirty' = FALSE /\ UNCHANGED <<node, inode, freelist, hist>>

Step ==
  /\ todo # <<>>
  /\ LET s == Head(todo) IN
     IF s.do = "inode" /\ FlushFirst
     THEN todo' = <<Super(s.fail)>> \o todo /\ UNCHANGED <<disk, core, hist>>
     ELSE /\ todo' = Tail(todo)
          /\ \/ s.do \in {"words", "zero"} /\ DoWords(s)
             \/ s.do \in {"inode", "ialloc", "ifree"} /\ DoInode(s)
             \/ s.do = "super" /\ DoSuper
             \/ s.do = "bfree" /\ DoBfree(s)
             \/ s.do = "lost" /\ calm' = FALSE /\ UNCHANGED <<disk, core, torn>>
             \/ s.do = "rebuilt" /\ torn' = (~calm \/ ~OneOwner) /\ UNCHANGED <<disk, core, calm>>
             \/ s.do = "reopen" /\ calm' = FALSE /\ Reload /\ UNCHANGED disk
  /\ UNCHANGED faults

\* A transfer fails.  Nothing is told of it in bfree, where the head is not
\* read, or not written and the head in core moves on.
Faulty ==
  /\ todo # <<>> /\ faults < MaxFaults
  /\ faults' = faults + 1
  /\ LET s == Head(todo) IN
     \/ /\ s.do \in {"words", "zero", "inode", "super", "ialloc", "ifree"}
        /\ todo' = s.fail
        /\ UNCHANGED <<disk, core, hist>>
     \/ /\ s.do = "bfree"
        /\ \/ freelist # 0 /\ UNCHANGED freelist
           \/ \E n \in HeadNode : freelist' = BfreeAs(s.b, n).head
        /\ todo' = Tail(todo) /\ calm' = FALSE /\ torn' = (torn \/ freelist' # freelist)
        /\ UNCHANGED <<disk, fl_dirty>>

Next ==
  \/ Step \/ Faulty \/ Crash \/ Salvage \/ Sync
  \/ \E f \in File : WriteFile(f) \/ Truncate(f) \/ Destroy(f) \/ Create(f)

Spec == Init /\ [][Next]_vars
-----------------------------------------------------------------------------
\* pdp7fs.c:319: block 0 is written before an inode that names a new block, "so
\* a crash can't leave it both free and referenced": neither the list on disk
\* nor the one in core holds a block in use, at any crash prefix, as long as
\* no open found file data in the list, no failed bfree moved the head to
\* a block it had not written, and no salvage was cut short.
P7NoAlias ==
  ~torn => /\ OneOwner
           /\ Listed(sb) \cap Refs = {} /\ Listed(freelist) \cap Refs = {}
           /\ ~Spoilt(freelist)

\* Between requests, without a crash or a lost block since the list was built,
\* every block is in a file or on the list: what balloc takes from a node, and
\* what bfree adds to one, is always just one block.
P7NothingLost == Idle /\ calm /\ ~torn => Listed(freelist) = Block \ Refs

=============================================================================
