SPECIFICATION Spec
CONSTANTS
  Window = 1
  MaxBuffer = 3
  MaxCount = 3
  MaxParity = 2
  FrameIds <- MixedIds
  Packets <- MixedPackets
  Parity <- MixedParity
INVARIANTS
  TypeOK
  BudgetExact
  WindowHeld
  EmittedInOrder
  
  GapNeedsKeyPacket
