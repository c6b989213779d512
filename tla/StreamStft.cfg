SPECIFICATION Spec
CONSTANTS
  N = 16
  H = 5
  MaxFrames = 14
INVARIANTS TypeOK Aligned Reconstructs
