\* The store of a session of each codec, with and without ffmpeg, and of a
\* session whose frames come in two codecs.
SPECIFICATION Spec
CONSTANTS
  FrameIDs = {1, 2, 3}
  ReadLoops = {r1, r2}
  Setups <- MCSetups
  Pictures <- MCPictures
  Corrupt = Corrupt
  Width = 5
  Height = 5
  MaxShift = 1
  Quantum = 4
  MaxFaults = 1
SYMMETRY ReadLoopSymmetry
\* Every frame was handed over and the composite tried: nothing is left to do.
CHECK_DEADLOCK FALSE
INVARIANT TypeOK
INVARIANT AnnouncedIsWhole
PROPERTY StillSubjectKept
PROPERTY OutliersRejected
PROPERTY EveryPixelFromAFrame
PROPERTY CountsWhatItFused
