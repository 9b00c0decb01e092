SPECIFICATION Spec
CONSTANTS
  Tracks <- Running
  BufferSize <- Size
  QueueLength = 1
  Commands = {1}
  DataLengths <- MCLengths
  MaxTotal = 1
INVARIANT
  EveryDeltaIsWaitedFor
