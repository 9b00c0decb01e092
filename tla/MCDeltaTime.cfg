SPECIFICATION Spec
CONSTANTS
  DeltaBytes = {0, 1, 127, 128, 130, 255}
INVARIANTS
  DecodesDeltaTimes
CHECK_DEADLOCK FALSE
