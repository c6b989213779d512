SPECIFICATION FairSpec
CONSTANTS
  Objs = {o1, o2, o3}
  Blobs = {o1, o2, o3}
  NoBlob = NoBlob
  NoObj = NoObj
  Libs = {l1, l2}
  DefaultLib = l1
  NoLib = NoLib
  Frames = {x, y}
  MaxStream = 1
  Interrupts = TRUE
INVARIANT BlobOutlivesEngine
CHECK_DEADLOCK FALSE
