SPECIFICATION Spec
CONSTANTS
  FRAME = 5
  CHUNK = 24
  Unit = 100
  Attenuated = 1
  Smoothing = 80
  MaxCalls = 30
  MayRaise = FALSE
INVARIANT FiveSilentCalls
