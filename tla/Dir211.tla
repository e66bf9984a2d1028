------------------------------- MODULE Dir211 -------------------------------
(***************************************************************************)
(* A 2.11BSD directory (dir_bsd211.c): records of varying length, none     *)
(* across a chunk boundary, searched by one validating walk, reused whole  *)
(* when free, and appended after padding the last one to the chunk's end.  *)
(* Lengths are in units of four bytes, to which the format aligns them; the *)
(* least record, a header and a one-letter name, has two.                  *)
(***************************************************************************)
EXTENDS Integers, Sequences, FiniteSets, FiniteSetsExt, TLC

CONSTANTS
  Chunk,      \* BSD211_DIRBLKSIZ
  Need,       \* bsd211_dirsiz of every name
  Inode,      \* the numbers the names may have
  MaxChunks,  \* bound: the chunks a directory may grow to
  MaxFaults   \* bound: transfers that fail in a behaviour

Name == DOMAIN Need
Offset == 0..(MaxChunks * Chunk)
DIRMINSZ == 2

ASSUME ChunkAssumption ==
  Chunk \in Nat \ {0} /\ \A n \in Name : Need[n] \in DIRMINSZ..Chunk

VARIABLES
  rec,    \* the records in the directory's blocks, by offset; None elsewhere
  size,   \* the size its inode has on disk
  todo,   \* the transfers the request has yet to make
  req,    \* the request: what it does to which name
  names,  \* the names added and not removed, with their inodes
  faults,
  torn    \* a request ended between padding a record and the new size

vars == <<rec, size, todo, req, names, faults, torn>>

None == [len |-> 0, ino |-> 0, name |-> "none"]
NoReq == [op |-> "none", name |-> "none", ino |-> 0]
-----------------------------------------------------------------------------
(* Readers                                                                  *)

\* bsd211_iter_next: what is at o is a record that ends inside the directory
\* and inside its chunk.
Valid(o) ==
  /\ o + DIRMINSZ <= size /\ rec[o].len >= DIRMINSZ
  /\ o + rec[o].len <= size /\ (o % Chunk) + rec[o].len <= Chunk

\* The walk ends at the first record that is not valid.
Offsets ==
  LET walk[o \in Offset] == IF Valid(o) THEN {o} \cup walk[o + rec[o].len] ELSE {}
  IN walk[0]
End == IF Offsets = {} THEN 0 ELSE LET o == Max(Offsets) IN o + rec[o].len

\* bsd211_dir_lookup
Found(n) == {o \in Offsets : rec[o].ino # 0 /\ rec[o].name = n}
Lookup(n) == IF Found(n) = {} THEN 0 ELSE rec[Min(Found(n))].ino
Visible == {rec[o].name : o \in {p \in Offsets : rec[p].ino # 0}}

\* bsd211_dir_iter reads a chunk at a time, and goes on with the next one when
\* what is left of a chunk is too short for a header.
Listed ==
  LET walk[o \in Offset] ==
        LET c == (o \div Chunk) * Chunk
            got == Min({Chunk, size - c})
            here == o - c
        IN IF o >= size THEN {}
           ELSE IF here + DIRMINSZ > got
                THEN IF c + Chunk \in Offset THEN walk[c + Chunk] ELSE {}
           ELSE IF rec[o].len < DIRMINSZ \/ here + rec[o].len > got THEN {}
           ELSE (IF rec[o].ino = 0 THEN {} ELSE {<<rec[o].name, rec[o].ino>>})
                \cup walk[o + rec[o].len]
  IN walk[0]
-----------------------------------------------------------------------------
(* Writers.  filsys_file_write writes the data, then the inode.             *)

Data(o, r) == [do |-> "data", at |-> o, rec |-> r, clear |-> r.len]
Pad(o, len) == [do |-> "data", at |-> o, rec |-> [rec[o] EXCEPT !.len = len], clear |-> 1]
Freed(o) == [do |-> "data", at |-> o, rec |-> [None EXCEPT !.len = rec[o].len], clear |-> 1]
Size(s) == [do |-> "inode", size |-> s]

\* The free records that are large enough.
Reusable(n) == {o \in Offsets : rec[o].ino = 0 /\ rec[o].len >= Need[n]}

\* (mutant) the new record may run over the end of the chunk
Slot_Unframed(n) == End

\* (mutant) the new record goes behind the damage
Slot_AtSize(n) ==
  IF size % Chunk # 0 /\ (size % Chunk) + Need[n] > Chunk
  THEN ((size \div Chunk) + 1) * Chunk ELSE size

\* Where a new record starts: not where it would run over the chunk's end.
Slot(n) ==
  IF End % Chunk # 0 /\ (End % Chunk) + Need[n] > Chunk
  THEN ((End \div Chunk) + 1) * Chunk ELSE End

\* bsd211_dir_add.  A record is reused with all its length; otherwise the new
\* one goes behind the last valid one, which is first padded up to it.
DirAdd(n, i) ==
  IF Reusable(n) # {}
  THEN LET o == Min(Reusable(n))
       IN <<Data(o, [len |-> rec[o].len, ino |-> i, name |-> n]), Size(size)>>
  ELSE LET s == Slot(n)
           last == Max({0} \cup Offsets)
       IN (IF s = End THEN <<>> ELSE <<Pad(last, s - last), Size(size)>>)
          \o <<Data(s, [len |-> Need[n], ino |-> i, name |-> n]), Size(Max({size, s + Need[n]}))>>

\* bsd211_dir_remove.  The name stays in the record, where nobody looks for it.
DirRemove(n) ==
  LET o == Min(Found(n))
  IN <<Freed(o), Size(size)>>
-----------------------------------------------------------------------------
Record(o, l, i, n) == o :> [len |-> l, ino |-> i, name |-> n]
Empty == [o \in Offset |-> None]

\* A directory of mkdir, or the root of mkfs, whose last record is padded.
Init ==
  /\ \/ /\ rec = Record(0, Need["."], 1, ".") @@ Record(Need["."], Need[".."], 1, "..") @@ Empty
        /\ size = Need["."] + Need[".."]
     \/ /\ rec = Record(0, Need["."], 1, ".")
                 @@ Record(Need["."], Chunk - Need["."], 1, "..") @@ Empty
        /\ size = Chunk
  /\ names = ("." :> 1) @@ (".." :> 1)
  /\ todo = <<>> /\ req = NoReq /\ faults = 0 /\ torn = FALSE

\* The callers add only a name that they do not find (preflight_create).
Add(n, i) ==
  /\ todo = <<>> /\ Lookup(n) = 0
  /\ Reusable(n) # {} \/ Slot(n) + Need[n] <= MaxChunks * Chunk
  /\ todo' = DirAdd(n, i) /\ req' = [op |-> "add", name |-> n, ino |-> i]
  /\ UNCHANGED <<rec, size, names, faults, torn>>

Remove(n) ==
  /\ todo = <<>> /\ Lookup(n) # 0 /\ n \notin {".", ".."}
  /\ todo' = DirRemove(n) /\ req' = [op |-> "remove", name |-> n, ino |-> 0]
  /\ UNCHANGED <<rec, size, names, faults, torn>>

Without(n) == [m \in DOMAIN names \ {n} |-> names[m]]
\* A request that fails, or that a crash cuts off, leaves of its own name what
\* the disk then shows; it is in the padding window if its new size is to come.
Settle(n) ==
  names' = IF Lookup(n) = 0 THEN Without(n) ELSE (n :> Lookup(n)) @@ names
Padded == req.op = "add" /\ End < size

DoData ==
  /\ todo # <<>> /\ Head(todo).do = "data"
  /\ LET s == Head(todo)
     IN rec' = [o \in Offset |-> IF o = s.at THEN s.rec
                                 ELSE IF o > s.at /\ o < s.at + s.clear THEN None ELSE rec[o]]
  /\ todo' = Tail(todo)
  /\ UNCHANGED <<size, req, names, faults, torn>>

\* The last inode write of a request makes it complete.
DoInode ==
  /\ todo # <<>> /\ Head(todo).do = "inode"
  /\ size' = Head(todo).size /\ todo' = Tail(todo)
  /\ IF Len(todo) > 1 THEN UNCHANGED <<req, names>>
     ELSE req' = NoReq /\ names' = IF req.op = "add" THEN (req.name :> req.ino) @@ names
                                   ELSE Without(req.name)
  /\ UNCHANGED <<rec, faults, torn>>

\* A failed add is withdrawn if its name has landed (withdraw_name).
Fails ==
  /\ todo # <<>> /\ faults < MaxFaults /\ faults' = faults + 1
  /\ IF req.op = "add" /\ Lookup(req.name) # 0
     THEN todo' = DirRemove(req.name) /\ req' = [req EXCEPT !.op = "remove"] /\ UNCHANGED names
     ELSE todo' = <<>> /\ req' = NoReq /\ Settle(req.name)
  /\ torn' = (torn \/ Padded)
  /\ UNCHANGED <<rec, size>>

Crash ==
  /\ todo # <<>>
  /\ todo' = <<>> /\ req' = NoReq /\ Settle(req.name)
  /\ torn' = (torn \/ Padded)
  /\ UNCHANGED <<rec, size, faults>>

Next ==
  \/ \E n \in Name : Remove(n) \/ \E i \in Inode : Add(n, i)
  \/ DoData \/ DoInode \/ Fails \/ Crash

Spec == Init /\ [][Next]_vars
-----------------------------------------------------------------------------
\* Between requests the walk of the lookups and the walk of readdir both find
\* exactly the names that were added and not removed, each with its inode, and
\* the records fill the directory to its size, through reuse, padding, crashes
\* and failures, unless one struck in the padding window.
DirExact ==
  todo = <<>> /\ ~torn =>
    /\ Visible = DOMAIN names /\ \A n \in Visible : Lookup(n) = names[n]
    /\ Listed = {<<n, names[n]>> : n \in DOMAIN names}
    /\ End = size

\* Whatever was cut off, no walk ever finds a name that was not added, or was
\* removed, or a name twice: no record that fell out of sight comes back when
\* the directory grows over it.
NoGhost ==
  /\ Visible \subseteq DOMAIN names \cup {req.name}
  /\ Cardinality({o \in Offsets : rec[o].ino # 0}) = Cardinality(Visible)

\* "The padding bytes are skipped by every reader (they sit inside the padded
\* record's reclen)" (dir_bsd211.c:208): padding a record hides none.
NamesStay == \A n \in DOMAIN names : n = req.name \/ Lookup(n) # 0
=============================================================================
