SPECIFICATION FairSpec
CONSTANTS
  MaxIno = 4
  NICINOD = 2
  MaxFaults = 2
INVARIANT TinodeCovers
INVARIANT IallocSound
PROPERTY RequestEnds
