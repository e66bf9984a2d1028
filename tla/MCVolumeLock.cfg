\* Two mounts of a V8 volume.
SPECIFICATION Spec
CONSTANTS
  Block = {1, 2, 3}
  Second = {3}
  File = {11, 12}
  Proc = {p1, p2}
  Editions = {"bitmap"}
  NoProc = NoProc
  MaxFaults = 0
INVARIANTS
  NoSharedBlock
