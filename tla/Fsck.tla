-------------------------------- MODULE Fsck --------------------------------
(***************************************************************************)
(* fsck -p (check.c) on the image that a crash of the driver left.  The    *)
(* driver is Namespace, cut off at any step; the check reads the whole     *)
(* image into state[] and ecount[], and filsys_preen then repairs it from  *)
(* what was read, one transfer per step, so that it too may be cut off and *)
(* run again.  Blocks are left out: the repairs concern inodes and names.  *)
(***************************************************************************)
EXTENDS Namespace

CONSTANTS LostFound,  \* the name "lost+found"
          ECap        \* 0377, where the entry counts saturate

ASSUME FsckAssumption == LostFound \notin Name /\ ECap \in Nat \ {0}

VARIABLES
  phase,   \* "driver", "down", "preen", "recount" or "done"
  state,   \* state[]: what each inode was when the check read it
  ecount,  \* ecount[]: how many entries named it
  lf,      \* lf_ino, 0 if there is none
  left     \* the inodes that the loop of filsys_preen has not come to

fvars == <<vars, phase, state, ecount, lf, left>>
checked == <<state, ecount, lf, left>>

FInit ==
  /\ Init
  /\ phase = "driver"
  /\ state = [i \in Inode |-> "free"] /\ ecount = [i \in Inode |-> 0] /\ lf = 0 /\ left = {}

Driver == phase = "driver" /\ Next /\ UNCHANGED <<phase, checked>>

\* The driver, or fsck, is killed between two transfers.
Crash ==
  /\ phase # "down"
  /\ phase' = "down" /\ todo' = <<>> /\ tail' = Hole /\ keep' = {}
  /\ state' = [i \in Inode |-> "free"] /\ ecount' = [i \in Inode |-> 0] /\ lf' = 0 /\ left' = {}
  /\ UNCHANGED <<disk, faults, misses>>
-----------------------------------------------------------------------------
(* filsys_check_common: pass 5, the entry counts against the link counts.  *)

Counted(i) == IF Entries(i) > ECap THEN ECap ELSE Entries(i)

\* (mutant) only the counts are compared
Wrong_CountsOnly(i) ==
  \/ ~Live(i) /\ Counted(i) # 0
  \/ Live(i) /\ Counted(i) # inode[i].nlink

\* What is reported of inode i: an entry that names a free inode, a file that
\* no entry names, whatever its nlink, or an nlink that is not the count.
Wrong(i) ==
  \/ ~Live(i) /\ Counted(i) # 0
  \/ Live(i) /\ ~IsDir(i) /\ Counted(i) = 0
  \/ Live(i) /\ Counted(i) # inode[i].nlink

Reports == {i \in Inode : Wrong(i)}
-----------------------------------------------------------------------------
(* filsys_preen.                                                           *)

\* The results of these calls are not looked at: rest follows in any case.
MakeLostFound(i) ==
  LET bump == <<Size(Root, 1, <<>>)>>
      name == DirAdd(Root, LostFound, i, bump) \o bump
      dots == <<Up(i, 0, name), Up(i, Root, name)>> \o name
  IN <<Put(i, "free", 0, <<>>), Put(i, "dir", 2, dots)>> \o dots

\* The check, and the start of the repairs.  ialloc takes any inode whose mode
\* is 0; without one there is no lost+found.
BeginPreen(i) ==
  /\ phase = "down" /\ phase' = "preen"
  /\ state' = [j \in Inode |-> inode[j].kind]
  /\ ecount' = [j \in Inode |-> Counted(j)]
  /\ left' = Inode /\ keep' = Names
  /\ IF Lookup(Root, LostFound) # 0 THEN i = Root /\ lf' = Lookup(Root, LostFound) /\ todo' = <<>>
     ELSE IF \A j \in Inode : Live(j) THEN i = Root /\ lf' = 0 /\ todo' = <<>>
     ELSE ~Live(i) /\ lf' = i /\ todo' = MakeLostFound(i)
  /\ UNCHANGED <<disk, tail, faults, misses>>

Clear(i) == <<Put(i, "free", 0, <<>>)>>

Reconnect(i) ==
  LET last == <<Size(lf, 0, <<>>)>>
  IN DirAdd(lf, i, i, <<>>) \o <<Put(i, inode[i].kind, 1, last)>> \o last

\* ".." is replaced first; without one the directory is left as it is.
ReconnectDir(i) ==
  LET last == <<Size(lf, 1, <<>>)>>
  IN IF up[i] \notin Inode THEN <<>>
     ELSE Dotdot(i, 0, <<>>) \o Dotdot(i, lf, <<>>) \o DirAdd(lf, i, i, <<>>)
          \o <<Put(i, "dir", 2, last)>> \o last

\* (mutant) a count that is right is taken for enough
Repair_Shortcut(i) ==
  LET cnt == ecount[i]
  IN IF state[i] = "free" THEN IF cnt # 0 THEN Clear(i) ELSE <<>>
     ELSE IF cnt = inode[i].nlink THEN <<>>
     ELSE IF i \in {Root, lf} THEN <<>>
     ELSE IF cnt = 0 THEN IF lf = 0 THEN <<>>
                          ELSE IF state[i] = "file" THEN Reconnect(i) ELSE Clear(i)
     ELSE IF cnt = 1 /\ state[i] = "dir" /\ lf # 0 THEN ReconnectDir(i)
     ELSE <<Put(i, inode[i].kind, cnt, <<>>)>>

\* What the loop does when it comes to inode i.
Repair(i) ==
  LET cnt == ecount[i]
  IN IF state[i] = "free" THEN IF cnt # 0 THEN Clear(i) ELSE <<>>
     ELSE IF cnt = inode[i].nlink /\ cnt # 0 THEN <<>>
     ELSE IF i \in {Root, lf} THEN <<>>
     ELSE IF cnt = 0 THEN IF lf = 0 THEN <<>>
                          ELSE IF state[i] = "file" THEN Reconnect(i) ELSE Clear(i)
     ELSE IF cnt = 1 /\ state[i] = "dir" /\ lf # 0 THEN ReconnectDir(i)
     ELSE <<Put(i, inode[i].kind, cnt, <<>>)>>

\* In any order: no repair changes what another one depends on.
PreenInode(i) ==
  /\ phase = "preen" /\ todo = <<>>
  /\ i \in left /\ Repair(i) # <<>>
  /\ left' = left \ {i} /\ todo' = Repair(i)
  /\ UNCHANGED <<disk, tail, keep, faults, misses, phase, state, ecount, lf>>

\* The root's and lost+found's counts are taken from the final structure.
Recount ==
  /\ phase = "preen" /\ todo = <<>> /\ \A i \in left : Repair(i) = <<>>
  /\ phase' = "recount"
  /\ LET fix == IF lf = 0 THEN <<>> ELSE <<By(lf, Entries(lf) - inode[lf].nlink, <<>>)>>
     IN todo' = <<By(Root, Entries(Root) - inode[Root].nlink, fix)>> \o fix
  /\ UNCHANGED <<disk, tail, keep, faults, misses, checked>>

PreenEnds ==
  /\ phase = "recount" /\ todo = <<>> /\ phase' = "done"
  /\ UNCHANGED <<vars, checked>>

PreenWrites ==
  /\ phase \in {"preen", "recount"} /\ Transfer /\ UNCHANGED <<phase, checked>>

FNext ==
  \/ Driver \/ Crash \/ PreenWrites \/ Recount \/ PreenEnds
  \/ \E i \in Inode : BeginPreen(i) \/ PreenInode(i)

FSpec == FInit /\ [][FNext]_fvars
-----------------------------------------------------------------------------
Sound(i) == Live(i) /\ (IsDir(i) => up[i] \in Inode)

\* Until it is killed, the driver leaves nlink equal to the number of entries
\* between requests: the parents' fixups of rename_in, mkdir_in and rmdir_in.
DriverCounts == phase = "driver" => LinkCounts

\* README.md:808: "fsck.filsys repairs every one" of the states a crash leaves.
\* Once preen is done, however often it was cut off before, each inode in use
\* can be reached and its count is not too low; it is exact if no directory had
\* to be reconnected.  A count that ecount[] cannot hold is cut off at ECap
\* unless it is the root's or lost+found's.  A directory whose mkdir, or whose
\* reconnection, was cut off has no ".." and is not repaired: if it cannot be
\* reached, it is empty and no name leads to it.
PreenRepairs ==
  faults = 0 /\ phase = "done" /\ lf # 0 =>
    LET moved == \E d \in Inode : state[d] = "dir" /\ ecount[d] = 1
    IN \A i \in Inode : Live(i) =>
         IF Sound(i)
         THEN /\ i \in Reachable
              /\ \/ Entries(i) >= ECap
                 \/ IF moved THEN inode[i].nlink >= Entries(i) ELSE inode[i].nlink = Entries(i)
         ELSE i \in Reachable \/ (Named(i) = {} /\ \A d \in Dirs : i \notin Named(d))

\* A check that reports nothing is right: no entry names a free inode, and
\* every inode in use can be reached.  check.c:231: "Directories are excluded
\* [...] their orphan state is the preen reconnect path", which needs a
\* lost+found, or an inode to make one.
CheckSound ==
  /\ faults = 0 /\ phase \in {"down", "done"} /\ Reports = {}
  /\ Lookup(Root, LostFound) # 0 \/ \E i \in Inode : ~Live(i)
  => NoDangling /\ \A i \in Inode : Live(i) => i \in Reachable
=============================================================================
