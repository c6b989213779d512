SPECIFICATION FairSpec
CONSTANTS
  Ladder <- ArmLadder
  Hosts <- ArmHosts
  OtherTiers <- X86Tiers
  Blobs = {b1, b2, bmagic, bsize}
  NoBlob = NoBlob
  BadMagic = {bmagic}
  BadSize = {bsize}
  Frames = {x, y}
  Silence = silence
  WarmFrames = 2
  MaxStream = 2
INVARIANTS TypeOK WholeOrAbsent NothingOverwritten WeightsFitKernels OneStream
PROPERTIES KernelsFrozen KeepsContract InitReturns
