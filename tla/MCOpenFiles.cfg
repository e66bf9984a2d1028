SPECIFICATION FairSpec
CONSTANTS
  Inode = {r, i1, i2}
  Root = r
  Name = {a, b}
  Ops = {"mkdir", "rmdir", "create", "symlink", "open", "release", "link", "unlink", "rename", "unmount", "mount"}
  Linkable = {}
  MaxSlots = 2
  MaxFaults = 1
  MaxMisses = 1
  MaxHandles = 2
INVARIANT HandlesLive
INVARIANT OrphansTracked
INVARIANT NoDangling
INVARIANT OneName
PROPERTY OrphansFreed
CHECK_DEADLOCK FALSE
ACTION_CONSTRAINT FailsElsewhere
CONSTRAINT OneFailure
