\* Two processes; the editions one after the other.
SPECIFICATION Spec
CONSTANTS
  Block = {1, 2}
  Second = {2}
  File = {11, 12}
  Proc = {p1, p2}
  Editions = {"bitmap", "bigmap", "v1"}
  NoProc = NoProc
  MaxFaults = 1
SYMMETRY Symm
CONSTRAINT Apart
INVARIANTS
  MapSafe
  CleanSound
  CloseReports
  SalvageRepairs
