SPECIFICATION FSpec
CONSTANTS
  Inode = {r, i1, i2, i3}
  Root = r
  Name = {a, b}
  Ops = {"create", "mknod", "mkdir", "link", "unlink", "rmdir", "rename", "free"}
  Linkable = {}
  MaxSlots = 2
  MaxFaults = 0
  MaxMisses = 0
  LostFound = LostFound
  ECap = 3
INVARIANT PreenRepairs
INVARIANT CheckSound
INVARIANT NoDangling
INVARIANT NamesKept
INVARIANT OneName
INVARIANT DriverCounts
INVARIANT Acyclic
SYMMETRY Symmetry
