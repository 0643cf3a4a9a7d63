CONSTANTS
  Platforms = {"sync", "async"}
  Sizes = {2, 3, 5}
  default_buffer_size = 2
  MaxFrames = 6
  FrameInWindow = FALSE
SPECIFICATION FairSpec
CHECK_DEADLOCK FALSE
INVARIANTS TypeOK NeverDeaf ReadMatchesFraming BufferIsStable FramesAccounted
PROPERTIES FramesAnswered
