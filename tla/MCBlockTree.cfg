SPECIFICATION Spec
CONSTANTS
  Block = {b1, b2, b3, b4, b5}
  Editions = {"plain", "small"}
  NIADDR = 3
  NDADDR = 1
  NSMALL = 2
  LargeSingle = 1
  NINDIR = 2
  MaxCount = 1
  MaxFaults = 1
  Data = Data
INVARIANT NoDoubleUse
INVARIANT TreeSound
INVARIANT Remaps
INVARIANT NothingLost
INVARIANT FlushedNoAlias
INVARIANT SlotsNoAlias
SYMMETRY Symmetry
