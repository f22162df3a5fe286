SPECIFICATION FairSpec
CONSTANTS
  r1 = r1  r2 = r2  s1 = s1  s2 = s2  e1 = e1
  None = None
  Receivers <- MCReceiver
  Routes = 2
  Setups <- TwoRoutes
  Secrets <- MCSecrets
  Secret = s1
  Entropy <- MCEntropy
  AvailableDeadline = 1
  ResumeDuration = 1
  MaxTime = 2
  EventCapacity = 1
  MaxNotices = 0
CHECK_DEADLOCK FALSE
PROPERTIES
  SenderExits
  ReceiversEnd
