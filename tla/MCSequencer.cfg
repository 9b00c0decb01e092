SPECIFICATION SystemFairSpec
CONSTANTS
  Tracks <- MCTracks
  BufferSize <- Size
  PayloadSize = 6
  QueueLength = 2
  Commands = {3}
  JunkLengths <- MCJunk
  DataLengths <- NoLengths
  MaxTotal = 12
INVARIANTS
  HearsTheStream
  NoWaitCutShort
  StreamInPlace
  TotalAccountsForCopies
PROPERTIES
  PlaybackComesToAnEnd
  StartIsHeard
