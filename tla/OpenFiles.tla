----------------------------- MODULE OpenFiles -----------------------------
(***************************************************************************)
(* The open-handle table of fuse_core.c over the namespace operations: a   *)
(* file that is unlinked or replaced while it is open loses its name at    *)
(* once, and its inode is freed at the last release, or at the unmount.    *)
(***************************************************************************)
EXTENDS Namespace, TLC

CONSTANT MaxHandles   \* bound: handles the kernel holds on one file

VARIABLES
  held,     \* (external) the handles the kernel holds, by inode
  open,     \* m->open: refs, by the inodes that have an entry
  mounted

ovars == <<vars, held, open, mounted>>
table == <<held, open, mounted>>

Orphan(i) == inode[i].kind = "file" /\ inode[i].nlink <= 0

OInit == Init /\ held = [i \in Inode |-> 0] /\ open = <<>> /\ mounted = TRUE

\* fuse_open_refs
Refs(i) == IF i \in DOMAIN open THEN open[i] ELSE 0
\* fuse_open_track, for a handle that the kernel is given.
Track(i) ==
  /\ open' = (i :> Refs(i) + 1) @@ open
  /\ held' = [held EXCEPT ![i] = @ + 1]

\* fuse_op_open: a directory is refused.
Open(i) ==
  /\ Idle("open") /\ mounted
  /\ i \in Names /\ ~IsDir(i) /\ held[i] < MaxHandles
  /\ Track(i)
  /\ UNCHANGED <<vars, mounted>>

\* fuse_op_create opens what it creates.
CreateOpen(d, n, i) ==
  /\ Idle("create") /\ mounted
  /\ Fresh(d, n, i) /\ held[i] < MaxHandles
  /\ Begin(Append(CreateIn(d, n, i, "file", <<>>), [do |-> "track", i |-> i, fail |-> <<>>]), 0)
  /\ UNCHANGED table

TrackCreated ==
  /\ Doing("track")
  /\ Track(Step.i)
  /\ Onward /\ UNCHANGED <<disk, tail, mounted>>

\* (mutant) the free is not deferred
UnlinkOpen_Now(d, n) == mounted /\ Unlink(d, n, FALSE) /\ UNCHANGED table

UnlinkOpen(d, n) ==
  mounted /\ Unlink(d, n, Refs(Lookup(d, n)) > 0) /\ UNCHANGED table

\* fuse_op_unlink takes a file that it cannot look up for one that is not open.
UnlinkUnread(d, n) ==
  /\ mounted /\ Idle("unlink")
  /\ Lookup(d, n) # 0 /\ ~IsDir(Lookup(d, n))
  /\ BeginBlind(UnlinkIn(d, n, FALSE, <<>>), Lookup(d, n))
  /\ UNCHANGED table

RenameOpen(sd, sn, td, tn) ==
  /\ mounted
  /\ Rename(sd, sn, td, tn, Lookup(td, tn) # 0 /\ Refs(Lookup(td, tn)) > 0)
  /\ UNCHANGED table

\* So does fuse_op_rename, with the target it replaces.
RenameOpenUnread(sd, sn, td, tn) ==
  /\ mounted /\ Idle("rename")
  /\ Lookup(sd, sn) # 0 /\ Lookup(td, tn) # 0
  /\ LET s == Lookup(sd, sn)
         t == Lookup(td, tn)
     IN /\ s # t /\ ~IsDir(s) /\ ~IsDir(t)
        /\ BeginBlind(RenameIn(sd, sn, td, tn, s, t, FALSE), t)
  /\ UNCHANGED table

\* filsys_rename_in does not replace a target that it cannot look up.
RenameMissed(sd, sn, td, tn) == mounted /\ RenameUnread(sd, sn, td, tn) /\ UNCHANGED table

Others(d, n, i) ==
  /\ mounted
  /\ Link(i, d, n) \/ Symlink(d, n, i) \/ Mkdir(d, n, i) \/ Rmdir(d, n)
  /\ UNCHANGED table

Forget(i) == [do |-> "forget", i |-> i, fail |-> <<>>]
\* Free i if it is an orphan and go on with next, or with lost if the free
\* fails.  An inode that cannot be read is passed over.
Reap(i, next, lost) ==
  <<[do |-> "reap", i |-> i, next |-> next, lost |-> lost, fail |-> next]>>

\* fuse_open_release: the entry is kept until the free has succeeded.
Release(i) ==
  /\ Idle("release") /\ mounted /\ held[i] > 0
  /\ held' = [held EXCEPT ![i] = @ - 1]
  /\ open' = [open EXCEPT ![i] = @ - 1]
  /\ Begin(IF open[i] > 1 THEN <<>> ELSE Reap(i, <<Forget(i)>>, <<>>), 0)
  /\ UNCHANGED mounted

\* (mutant) an orphan is forgotten but not freed
ReadReaped_Forgets ==
  /\ Doing("reap") /\ Goto(Step.next)
  /\ UNCHANGED <<disk, tail, table>>

ReadReaped ==
  /\ Doing("reap")
  /\ Goto((IF Orphan(Step.i) THEN <<Put(Step.i, "free", 0, Step.lost)>> ELSE <<>>) \o Step.next)
  /\ UNCHANGED <<disk, tail, table>>

Forgotten ==
  /\ Doing("forget")
  /\ open' = [i \in DOMAIN open \ {Step.i} |-> open[i]]
  /\ Onward /\ UNCHANGED <<disk, tail, held, mounted>>

\* (mutant) the table is dropped without a look at its files
Unmount_NoDrain ==
  /\ Idle("unmount") /\ mounted
  /\ Begin(<<[do |-> "end", fail |-> <<>>]>>, 0)
  /\ held' = [i \in Inode |-> 0] /\ UNCHANGED <<open, mounted>>

\* fuse_op_destroy, fuse_open_drain: every entry in turn, whatever fails.  The
\* kernel drops the handles it still has without releasing them.
Unmount ==
  /\ Idle("unmount") /\ mounted
  /\ Begin(FoldRight(LAMBDA i, rest : Reap(i, rest, rest), SetToSeq(DOMAIN open),
                     <<[do |-> "end", fail |-> <<>>]>>), 0)
  /\ held' = [i \in Inode |-> 0] /\ UNCHANGED <<open, mounted>>

Unmounted ==
  /\ Doing("end")
  /\ mounted' = FALSE /\ open' = <<>>
  /\ Onward /\ UNCHANGED <<disk, tail, held>>

Mount == Idle("mount") /\ ~mounted /\ mounted' = TRUE /\ UNCHANGED <<vars, held, open>>

\* The steps on the table alone cannot fail.
InCore == Doing("track") \/ Doing("forget") \/ Doing("end")

OTransfer ==
  (Transfer /\ ~InCore /\ UNCHANGED table) \/ TrackCreated \/ ReadReaped \/ Forgotten \/ Unmounted

ORequest ==
  /\ todo = <<>>
  /\ \/ \E i \in Inode : Open(i) \/ Release(i)
     \/ \E d \in Paths, i \in Inode, n \in Name : CreateOpen(d, n, i) \/ Others(d, n, i)
     \/ \E d \in Paths, n \in Name : UnlinkOpen(d, n) \/ UnlinkUnread(d, n)
     \/ \E sd, td \in Paths, sn, tn \in Name :
          RenameOpen(sd, sn, td, tn) \/ RenameOpenUnread(sd, sn, td, tn) \/ RenameMissed(sd, sn, td, tn)
     \/ Unmount \/ Mount

ONext == ORequest \/ OTransfer
OSpec == OInit /\ [][ONext]_ovars
\* A request that was begun is carried on: the loop never yields inside one.
FairSpec == OSpec /\ WF_ovars(OTransfer)
-----------------------------------------------------------------------------
\* A handle outlives the name: the inode behind every handle the kernel holds
\* is still allocated, so no create can be given its number.  A lookup that
\* failed, where it decides whether to defer the free, costs one file, no more.
HandlesLive == Cardinality({i \in Inode : held[i] > 0 /\ inode[i].kind # "file"}) <= misses

\* Between requests every file without a name has an entry in the table, which
\* the last release or the unmount will find: "Keep the entry until the free
\* commits" (fuse_core.c:58).  Once unmounted, the table is empty and no such
\* file is left.  A transfer that fails may leave one.
OrphansTracked == faults = 0 /\ todo = <<>> => \A i \in Inode : Orphan(i) => i \in DOMAIN open

\* A file without a name or a handle is freed, unless a transfer fails.
OrphansFreed == \A i \in Inode : Orphan(i) /\ held[i] = 0 ~> ~Orphan(i) \/ faults > 0
=============================================================================
