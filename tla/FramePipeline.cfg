SPECIFICATION Spec
CONSTANTS
  EncBlocks = 3
  RfBlocks = 4
  Heads = 4
  MaxFrames = 3
INVARIANTS TypeOK ReadsIntact ReadsThisFrame StreamOnly
