CONSTANTS
  Codecs = {evrtck, h264}
  Room = 2
  Units = 1
  MaxFrames = 3
  MaxServices = 2
  MaxNet = 3
SYMMETRY CodecSymmetry
SPECIFICATION Spec
INVARIANT KeyFrameIsNew
CHECK_DEADLOCK FALSE
