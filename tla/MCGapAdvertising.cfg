SPECIFICATION FairSpec
CONSTANTS
  Statuses <- HostStatuses
  OtherEvents <- ConnectionEvents
  MayRefuse = TRUE
  MaxEvents = 5
INVARIANTS
  KeepsAdvertising
  ResumesWhenSilent
PROPERTY
  StaysReachable
