SPECIFICATION FairSpec
CONSTANTS
  Tracks <- MCTracks
  BufferSize <- Size
  QueueLength = 2
  Commands = {1, 2, 3}
  DataLengths <- MCLengths
  MaxTotal = 2
INVARIANTS
  IInv
  OnEventBoundary
  NoLostWakeup
  SameRunningStatus
PROPERTIES
  PlaysTheTrack
  TrackEnds
