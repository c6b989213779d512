SPECIFICATION FairSpec
CONSTANTS
  Ladder <- X86Ladder
  Hosts <- X86Hosts
  OtherTiers <- ArmTiers
  Blobs = {b1, b2, bmagic, bsize}
  NoBlob = NoBlob
  BadMagic = {bmagic}
  BadSize = {bsize}
  Frames = {x, y}
  Silence = silence
  WarmFrames = 2
  MaxStream = 2
INVARIANTS KernelsAsForced ZmmFitsKernels
