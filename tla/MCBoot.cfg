SPECIFICATION FairSpec
CONSTANTS
  QueueLength = 2
  Faults = {"queues", "task", "slow", "psram"}
  MaxRestarts = 2
INVARIANTS
  OneAnswer
  CopiesHaveABuffer
PROPERTY
  BootEnds
CHECK_DEADLOCK FALSE
