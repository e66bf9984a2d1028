\* Three blocks in nodes of one entry: a chain of two nodes, a node taken as a
\* block, crashes and a failed transfer at every point, salvage.
SPECIFICATION Spec
CONSTANTS
  Block = {1, 2, 3}
  File = {1, 2}
  Width = 1
  Data = Data
  MaxAddr = 2
  MaxFaults = 1
CONSTRAINT Tended
INVARIANTS
  P7NoAlias
  P7NothingLost
