----------------------------- MODULE Namespace -----------------------------
(***************************************************************************)
(* The operations of filsys.c on names: create, symlink, mkdir, link,      *)
(* unlink, rmdir and rename, with their rollbacks.  A request is the list  *)
(* `todo' of transfers it still has to make; each transfer carries, as     *)
(* `fail', the list that its failure leads to.  The FUSE loop is single-   *)
(* threaded, so requests do not overlap, and every state is a crash        *)
(* prefix.  A transfer that fails leaves the disk as it was.               *)
(***************************************************************************)
EXTENDS Integers, Sequences, FiniteSets, SequencesExt

CONSTANTS Inode,      \* the inode numbers
          Root,       \* desc.rootino
          Name,       \* file names other than "." and ".."
          Ops,        \* the requests this instance makes
          Linkable,   \* the directories that link is asked to link
          MaxSlots,   \* bound: entries in a directory
          MaxFaults,  \* bound: transfers that fail
          MaxMisses   \* bound: lookups that fail where the code goes on

ASSUME NamespaceAssumption ==
  Root \in Inode /\ 0 \notin Inode /\ Linkable \subseteq Inode
  /\ MaxFaults \in Nat /\ MaxMisses \in Nat

VARIABLES
  inode,   \* the inodes on disk: kind ("free" when mode = 0) and nlink
  ent,     \* the directories on disk: their entries but "." and "..", by slot
  up,      \* their ".." entries: 0 if there is none, -1 if no "." either
  tail,    \* an entry written past the directory's size on disk, if any
  todo,    \* what the running request still has to do
  keep,    \* (history) the inodes the running request is not to unname
  faults,  \* how many transfers have failed
  misses   \* how many such lookups have failed

disk == <<inode, ent, up>>
vars == <<inode, ent, up, tail, todo, keep, faults, misses>>

Free == [kind |-> "free", nlink |-> 0]
Hole == [n |-> 0, i |-> 0]
Entry == [n : Name, i : Inode] \cup {Hole}

Live(i) == inode[i].kind # "free"
IsDir(i) == inode[i].kind = "dir"
Dirs == {d \in Inode : IsDir(d)}
Named(d) == {ent[d][k].i : k \in 1..Len(ent[d])} \ {0}

\* v7fs_dir_lookup: the first slot with the name.
Slot(d, n) == SelectInSeq(ent[d], LAMBDA e : e.n = n)
Lookup(d, n) == IF Slot(d, n) = 0 THEN 0 ELSE ent[d][Slot(d, n)].i

\* The entries that name i, "." and ".." among them.
Entries(i) ==
  LET slots == UNION {{d} \X DOMAIN ent[d] : d \in Dirs}
  IN Cardinality({x \in slots : ent[x[1]][x[2]].i = i})
     + Cardinality({d \in Dirs : up[d] = i}) + IF IsDir(i) /\ up[i] # -1 THEN 1 ELSE 0

\* What a path that starts in S can lead to.
From(S) ==
  LET reach[k \in 0..Cardinality(Inode)] ==
        IF k = 0 THEN S
        ELSE LET nearer == reach[k - 1]
             IN nearer \cup UNION {Named(d) : d \in nearer \cap Dirs}
  IN reach[Cardinality(Inode)]
Reachable == From({Root})
Paths == Reachable \cap Dirs

\* (mutant) only the directory and its parent are compared
Ancestor_Parent(a, d) == IF a \in {d, up[d]} THEN "yes" ELSE "no"

\* dir_ancestor: is a above d?  The root ends the walk before it is compared.
\* A ".." that is missing, or a chain that does not end, leaves it unknown.
Ancestor(a, d) ==
  LET walk[k \in 0..Cardinality(Inode), x \in Inode] ==
        IF x = Root THEN "no" ELSE IF x = a THEN "yes"
        ELSE IF k = 0 \/ up[x] \notin Inode THEN "unknown" ELSE walk[k - 1, up[x]]
  IN walk[Cardinality(Inode), d]
-----------------------------------------------------------------------------
(* Transfers, and the lists of them that the helpers of filsys.c make.     *)

Put(i, kind, nlink, f) == [do |-> "put", i |-> i, to |-> [kind |-> kind, nlink |-> nlink], fail |-> f]
By(i, by, f) == [do |-> "by", i |-> i, by |-> by, fail |-> f]
Destroy(i) == [do |-> "put", i |-> i, to |-> Free, fail |-> <<>>]
Body(f) == [do |-> "body", fail |-> f]
Up(d, p, f) == [do |-> "up", d |-> d, p |-> p, fail |-> f]
Size(d, by, f) == [do |-> "size", d |-> d, by |-> by, fail |-> f]
\* A whole inode is written from a copy: its nlink, and the size it had.
Save(d, nlink, size) == [do |-> "save", d |-> d, nlink |-> nlink, size |-> size, fail |-> <<>>]

\* dir_add and dir_remove write the entry, then the directory's inode.
DirAdd(d, n, i, f) ==
  <<[do |-> "slot", d |-> d, e |-> [n |-> n, i |-> i], fail |-> f], Size(d, 0, f)>>
DirRemove(d, n, by, f) ==
  <<[do |-> "clear", d |-> d, n |-> n, fail |-> f], Size(d, by, f)>>
Dotdot(d, p, f) == <<Up(d, p, f), Size(d, 0, f)>>

\* Steps that read first, and go on as they find the disk.
WithdrawName(d, n, i, then) ==
  <<[do |-> "withdraw", d |-> d, n |-> n, i |-> i, then |-> then, fail |-> <<>>]>>
UnlinkIn(d, n, defer, f) ==
  <<[do |-> "unlink", d |-> d, n |-> n, defer |-> defer, fail |-> f]>>
\* `if (read_inode(...) == 0) { ... }': nothing is done when it cannot be read.
IfRead(steps) == <<[do |-> "ifread", steps |-> steps, fail |-> <<>>]>>
Refresh(d, by) == <<[do |-> "refresh", d |-> d, by |-> by, fail |-> <<>>]>>

\* (mutant) the copy read before the new entry was added is written back
Raise_Stale(d) == <<Save(d, inode[d].nlink + 1, Len(ent[d]))>>

\* `tdirip was read before filsys_link_in [...]  Re-read it fresh'.
Raise(d) == Refresh(d, 1)
Lower(d) == Refresh(d, -1)

LinkIn(s, d, n, f) == DirAdd(d, n, s, f) \o <<By(s, 1, DirRemove(d, n, 0, f) \o f)>>

CreateIn(d, n, i, kind, body) ==
  <<Put(i, kind, 1, <<>>)>> \o body
  \o DirAdd(d, n, i, WithdrawName(d, n, i, <<Destroy(i)>>))

\* (mutant) the parent's count is not raised
MkdirIn_NoBump(d, n, i) ==
  LET undo == <<Destroy(i)>>
  IN <<Put(i, "dir", 2, <<>>), Up(i, 0, undo), Up(i, d, undo)>>
     \o DirAdd(d, n, i, WithdrawName(d, n, i, undo))

MkdirIn(d, n, i) ==
  LET undo == <<Destroy(i)>>
  IN <<Put(i, "dir", 2, <<>>), Up(i, 0, undo), Up(i, d, undo)>>
     \o DirAdd(d, n, i, WithdrawName(d, n, i, undo))
     \o <<Size(d, 1, DirRemove(d, n, 0, <<>>) \o undo)>>

RmdirIn(d, n, i) ==
  IF inode[i].nlink - 1 > 1
  THEN DirRemove(d, n, 0, <<>>) \o <<By(i, -1, <<>>)>>
  ELSE DirRemove(d, n, -1, <<>>) \o <<Destroy(i)>>

\* The new name is added before the old one goes.
MoveName(sd, sn, td, tn, s, restore) ==
  LinkIn(s, td, tn, restore)
  \o UnlinkIn(sd, sn, FALSE, UnlinkIn(td, tn, FALSE, restore) \o restore)

\* t is the target to replace, or 0.
RenameIn(sd, sn, td, tn, s, t, defer) ==
  LET tisdir == t # 0 /\ IsDir(t)
      restore == IF t = 0 THEN <<>>
                 ELSE LET saved == <<Put(t, inode[t].kind, inode[t].nlink, <<>>)>>
                      IN DirAdd(td, tn, t, saved) \o saved
      drop == IF t = 0 THEN <<>>
              ELSE DirRemove(td, tn, 0, <<>>)
                   \o IF tisdir THEN <<>> ELSE <<By(t, -1, DirAdd(td, tn, t, <<>>))>>
      parents == (IF sd = td THEN <<>> ELSE Lower(sd) \o Raise(td))
                 \o (IF tisdir THEN Lower(td) ELSE <<>>)
                 \o IfRead(Dotdot(s, 0, <<>>) \o Dotdot(s, td, <<>>))
      commit == IF t # 0 /\ ~defer /\ (tisdir \/ inode[t].nlink = 1) THEN <<Destroy(t)>> ELSE <<>>
  IN drop \o MoveName(sd, sn, td, tn, s, restore)
     \o (IF IsDir(s) THEN parents ELSE <<>>) \o commit
-----------------------------------------------------------------------------
Init ==
  /\ inode = [i \in Inode |-> IF i = Root THEN [kind |-> "dir", nlink |-> 2] ELSE Free]
  /\ ent = [i \in Inode |-> <<>>]
  /\ up = [i \in Inode |-> IF i = Root THEN Root ELSE -1]
  /\ tail = Hole /\ todo = <<>> /\ keep = {} /\ faults = 0 /\ misses = 0

Names == UNION {Named(d) : d \in Paths}

Idle(op) == todo = <<>> /\ op \in Ops

\* A request that was found valid: victim is the inode it may unname.
Start(steps, victim) ==
  /\ todo' = steps
  /\ keep' = Names \ {victim}
  /\ UNCHANGED <<disk, tail, faults>>
Begin(steps, victim) == Start(steps, victim) /\ UNCHANGED misses
\* One that goes on without having read what it looked for.
BeginBlind(steps, victim) ==
  misses < MaxMisses /\ misses' = misses + 1 /\ Start(steps, victim)

Room(d) == Len(ent[d]) < MaxSlots \/ \E k \in 1..Len(ent[d]) : ent[d][k] = Hole

\* (mutant) a name that is taken is added again
Fresh_Unchecked(d, n, i) == Room(d) /\ ~Live(i)

\* preflight_create; ialloc returns an inode whose mode on disk is 0.
Fresh(d, n, i) == Lookup(d, n) = 0 /\ Room(d) /\ ~Live(i)

Create(d, n, i) == Idle("create") /\ Fresh(d, n, i) /\ Begin(CreateIn(d, n, i, "file", <<>>), 0)
Symlink(d, n, i) ==
  Idle("symlink") /\ Fresh(d, n, i) /\ Begin(CreateIn(d, n, i, "file", <<Body(<<Destroy(i)>>)>>), 0)
\* A device, whose number is in the inode.
Mknod(d, n, i) == Idle("mknod") /\ Fresh(d, n, i) /\ Begin(CreateIn(d, n, i, "dev", <<>>), 0)
Mkdir(d, n, i) == Idle("mkdir") /\ Fresh(d, n, i) /\ Begin(MkdirIn(d, n, i), 0)

\* The kernel asks to link only under a name it found free.
Link(s, d, n) ==
  /\ Idle("link")
  /\ s \in Reachable /\ Lookup(d, n) = 0 /\ Room(d)
  /\ IsDir(s) => s \in Linkable /\ Ancestor(s, d) = "no"
  /\ Begin(LinkIn(s, d, n, <<>>), 0)

Unlink(d, n, defer) ==
  /\ Idle("unlink")
  /\ Lookup(d, n) # 0 /\ ~IsDir(Lookup(d, n))
  /\ Begin(UnlinkIn(d, n, defer, <<>>), Lookup(d, n))

Rmdir(d, n) ==
  /\ Idle("rmdir")
  /\ Lookup(d, n) # 0
  /\ LET i == Lookup(d, n) IN IsDir(i) /\ Named(i) = {} /\ Begin(RmdirIn(d, n, i), i)

\* The free of an open target is deferred; directories are never open.
Rename(sd, sn, td, tn, defer) ==
  /\ Idle("rename")
  /\ Lookup(sd, sn) # 0
  /\ LET s == Lookup(sd, sn)
         t == Lookup(td, tn)
     IN /\ IsDir(s) => Ancestor(s, td) = "no"
        /\ IF t = 0 THEN Room(td)
           ELSE t # s /\ IsDir(s) = IsDir(t) /\ (IsDir(t) => Named(t) = {})
        /\ defer => t # 0 /\ ~IsDir(t)
        /\ Begin(RenameIn(sd, sn, td, tn, s, t, defer), t)

\* A target whose lookup fails for another reason than -ENOENT is taken to be
\* absent.
RenameUnread(sd, sn, td, tn) ==
  /\ Idle("rename")
  /\ Lookup(sd, sn) # 0 /\ Lookup(td, tn) # 0 /\ Room(td)
  /\ LET s == Lookup(sd, sn)
     IN /\ <<sd, sn>> # <<td, tn>>
        /\ IsDir(s) => Ancestor(s, td) = "no"
        /\ BeginBlind(RenameIn(sd, sn, td, tn, s, 0, FALSE), 0)

\* filsys_free_ino, for an orphan whose free was deferred.
FreeIno(i) ==
  /\ Idle("free")
  /\ Live(i) /\ ~IsDir(i) /\ inode[i].nlink <= 0
  /\ Begin(<<Destroy(i)>>, 0)
-----------------------------------------------------------------------------
Step == Head(todo)
Doing(do) == todo # <<>> /\ Step.do = do
Goto(steps) == todo' = steps /\ UNCHANGED <<keep, faults, misses>>
Onward == Goto(Tail(todo))

\* Write an inode.  A cleared directory's entries go with its blocks.
PutInode ==
  /\ Doing("put")
  /\ inode' = [inode EXCEPT ![Step.i] = Step.to]
  /\ IF Step.to = Free
     THEN ent' = [ent EXCEPT ![Step.i] = <<>>] /\ up' = [up EXCEPT ![Step.i] = -1]
     ELSE UNCHANGED <<ent, up>>
  /\ Onward /\ UNCHANGED tail

Relink ==
  /\ Doing("by")
  /\ inode' = [inode EXCEPT ![Step.i].nlink = @ + Step.by]
  /\ Onward /\ UNCHANGED <<ent, up, tail>>

\* The first hole is reused, and then the name is on disk at once; else the
\* entry goes past the end, where only the inode write uncovers it.
WriteSlot ==
  /\ Doing("slot")
  /\ LET k == SelectInSeq(ent[Step.d], LAMBDA e : e = Hole)
     IN IF k # 0 THEN ent' = [ent EXCEPT ![Step.d][k] = Step.e] /\ UNCHANGED tail
        ELSE tail' = Step.e /\ UNCHANGED ent
  /\ Onward /\ UNCHANGED <<inode, up>>

ClearSlot ==
  /\ Doing("clear")
  /\ LET k == Slot(Step.d, Step.n)
     IN IF k # 0 THEN ent' = [ent EXCEPT ![Step.d][k] = Hole] /\ Onward
        ELSE Goto(Step.fail) /\ UNCHANGED ent
  /\ UNCHANGED <<inode, up, tail>>

WriteSize ==
  /\ Doing("size")
  /\ inode' = [inode EXCEPT ![Step.d].nlink = @ + Step.by]
  /\ ent' = IF tail = Hole THEN ent ELSE [ent EXCEPT ![Step.d] = Append(@, tail)]
  /\ tail' = Hole
  /\ Onward /\ UNCHANGED up

\* Entries beyond the size are lost.
SaveInode ==
  /\ Doing("save")
  /\ inode' = [inode EXCEPT ![Step.d].nlink = Step.nlink]
  /\ ent' = [ent EXCEPT ![Step.d] = SubSeq(@, 1, Step.size)]
  /\ Onward /\ UNCHANGED <<up, tail>>

WriteUp ==
  /\ Doing("up")
  /\ IF Step.p = 0 /\ up[Step.d] = 0 THEN Goto(Step.fail) /\ UNCHANGED up
     ELSE up' = [up EXCEPT ![Step.d] = Step.p] /\ Onward
  /\ UNCHANGED <<inode, ent, tail>>

WriteBody == Doing("body") /\ Onward /\ UNCHANGED <<disk, tail>>

\* (mutant) a name that landed is not withdrawn
Withdraw_Nothing ==
  Doing("withdraw") /\ Goto(Step.then) /\ UNCHANGED <<disk, tail>>

Withdraw ==
  /\ Doing("withdraw")
  /\ Goto(IF Lookup(Step.d, Step.n) = Step.i
          THEN DirRemove(Step.d, Step.n, 0, <<>>) \o Step.then ELSE Step.then)
  /\ UNCHANGED <<disk, tail>>

\* (mutant) the inode is written before its name is cleared
UnlinkName_InodeFirst ==
  /\ Doing("unlink")
  /\ LET i == Lookup(Step.d, Step.n)
         last == IF inode[i].nlink - 1 <= 0 /\ ~Step.defer
                 THEN Put(i, "free", 0, Step.fail) ELSE By(i, -1, Step.fail)
     IN Goto(IF i = 0 THEN Step.fail
             ELSE <<last>> \o DirRemove(Step.d, Step.n, 0, Step.fail) \o Tail(todo))
  /\ UNCHANGED <<disk, tail>>

\* filsys_unlink_in, remove_name.
UnlinkName ==
  /\ Doing("unlink")
  /\ LET i == Lookup(Step.d, Step.n)
         last == IF inode[i].nlink - 1 <= 0 /\ ~Step.defer
                 THEN Put(i, "free", 0, Step.fail) ELSE By(i, -1, Step.fail)
     IN Goto(IF i = 0 THEN Step.fail
             ELSE DirRemove(Step.d, Step.n, 0, Step.fail) \o <<last>> \o Tail(todo))
  /\ UNCHANGED <<disk, tail>>

ReadThen ==
  /\ Doing("ifread")
  /\ Goto(Step.steps \o Tail(todo))
  /\ UNCHANGED <<disk, tail>>

\* A count of 1 or less is not lowered.
Reread ==
  /\ Doing("refresh")
  /\ LET n == inode[Step.d].nlink
     IN Goto(<<Save(Step.d, IF Step.by < 0 /\ n <= 1 THEN n ELSE n + Step.by, Len(ent[Step.d]))>>
             \o Tail(todo))
  /\ UNCHANGED <<disk, tail>>

\* A transfer fails.
Fails ==
  /\ todo # <<>> /\ faults < MaxFaults
  /\ faults' = faults + 1
  /\ todo' = IF Step.do \in {"ifread", "refresh"} THEN Tail(todo) ELSE Step.fail
  /\ tail' = Hole
  /\ UNCHANGED <<disk, keep, misses>>

Transfer ==
  \/ PutInode \/ Relink \/ WriteSlot \/ ClearSlot \/ WriteSize \/ SaveInode \/ WriteUp
  \/ WriteBody \/ Withdraw \/ UnlinkName \/ ReadThen \/ Reread \/ Fails

\* The directories are ones that a path leads to.
Request ==
  /\ todo = <<>>
  /\ \/ \E d \in Paths, i \in Inode, n \in Name :
          Create(d, n, i) \/ Mknod(d, n, i) \/ Symlink(d, n, i) \/ Mkdir(d, n, i) \/ Link(i, d, n)
     \/ \E d \in Paths, n \in Name, defer \in BOOLEAN : Unlink(d, n, defer)
     \/ \E d \in Paths, n \in Name : Rmdir(d, n)
     \/ \E sd, td \in Paths, sn, tn \in Name, defer \in BOOLEAN : Rename(sd, sn, td, tn, defer)
     \/ \E sd, td \in Paths, sn, tn \in Name : RenameUnread(sd, sn, td, tn)
     \/ \E i \in Inode : FreeIno(i)

Next == Request \/ Transfer
Spec == Init /\ [][Next]_vars
-----------------------------------------------------------------------------
\* No entry of a directory names a free inode, which ialloc could hand to
\* another file: class D of the rollback policy (filsys.c:687).  It holds at
\* every crash prefix: inodes are written before their names, and freed after.
NoDangling == \A d \in Dirs : \A i \in Named(d) : Live(i)

\* The names of a directory are distinct (preflight_create, and the order in
\* which rename drops its target and adds the new name); a lookup that failed,
\* which rename takes for an absence, repeats a name once and does not spread.
OneName ==
  \A d \in Dirs, n \in Name :
    Cardinality({k \in 1..Len(ent[d]) : ent[d][k].n = n}) <= 1 + misses

\* Between requests, if nothing failed, nlink is the number of entries that
\* name the inode, "." and ".." included, also after directories were moved
\* and replaced: the parents' fixups in rename_in, mkdir_in and rmdir_in.
LinkCounts ==
  faults = 0 /\ todo = <<>> => \A i \in Inode : Live(i) => inode[i].nlink = Entries(i)

\* No directory is below itself: the checks with dir_ancestor.
Acyclic == \A d \in Dirs : d \notin From(Named(d))

\* At every crash prefix of a request in which nothing failed, each file that
\* it was not asked to remove still has a name; a rename adds before it removes.
NamesKept == faults = 0 => \A i \in keep : \E d \in Dirs : i \in Named(d)
=============================================================================
