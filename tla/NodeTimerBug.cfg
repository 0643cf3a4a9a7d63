CONSTANTS
  Platforms = {"async"}
  Sizes = {2, 3, 5}
  default_buffer_size = 2
  MaxFrames = 6
  FrameInWindow = FALSE
SPECIFICATION Spec
CHECK_DEADLOCK FALSE
INVARIANTS StartedMeansRunning
