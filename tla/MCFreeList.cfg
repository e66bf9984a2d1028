\* One file, three blocks in every order mkfs's interleave can free them, and a
\* cache of two: dump blocks are written, reloaded, and handed out as blocks.
SPECIFICATION MCFairSpec
CONSTANTS
  Block = {1, 2, 3}
  Inode = {1}
  NICFREE = 2
  NADDR = 2
  Data = Data
INVARIANTS
  NoDoubleUse
  Inv
  NoAlias
  NothingLost
  TfreeCovers
PROPERTIES
  ChainIntact
  RequestsEnd
  MeetsContract
