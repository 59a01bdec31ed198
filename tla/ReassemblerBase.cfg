SPECIFICATION Spec
CONSTANTS
  Window = 4
  MaxBuffer = 100
  MaxCount = 2
  MaxParity = 1
  FrameIds <- Ids5
  Packets <- Stream5
  Parity <- NoParity
INVARIANT
  DeltaOnItsBase
