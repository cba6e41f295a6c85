SPECIFICATION FairSpec
CONSTANTS
  Fds = {f1, f2}
  Watched = {f1}
  MaxClients = 1
  QueueMax = 1
  MaxLate = 1
  None = none
INVARIANTS
  FeedTypeOK
  TableIsSound
  OpenPagesAreFed
PROPERTIES
  TimerRests
  PageCatchesUp
