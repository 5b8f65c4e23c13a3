SPECIFICATION Spec
CONSTANTS
  Byte = 8
  MaxPayload = 9
  MaxCodec = 3
  Magic = 30
  SessionSeqs = {8, 63, 64}
  FrameIDs = {0, 17}
  Codecs = {0, 3}
  FlagSets = {5}
  Lengths = {0, 1, 9, 10, 14, 15, 63, 64}
  Payloads = {0, 2, 9, 10}
  OwnSeq = 8
INVARIANT ChunksRebuildFrame
INVARIANT DecodersAgree
INVARIANT DecodedIsCanonical
INVARIANT ResizedIsRejected
CHECK_DEADLOCK FALSE
