SPECIFICATION Spec
CONSTANTS
  Chunk = 7
  Need <- MCNeed
  Inode = {2}
  MaxChunks = 3
  MaxFaults = 1
INVARIANT NamesStay
