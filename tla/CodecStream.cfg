CONSTANTS
  Codecs = {evrtck, h264}
  Room = 2
  Units = 2
  MaxFrames = 3
  MaxServices = 2
  MaxNet = 3
SYMMETRY CodecSymmetry
SPECIFICATION Spec
INVARIANTS
  TypeOK
  FramesAnnounced
  KeyFollowsName
  DecoderInStep
CHECK_DEADLOCK FALSE
