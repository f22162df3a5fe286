SPECIFICATION FairSpec
CONSTANTS
  n1 = n1  n2 = n2  n3 = n3  r1 = r1
  Nodes <- MCNodes
  Relays <- MCRelays
  Options <- MCOptions
  MaxFederated = 2
  EventCapacity = 1
  Ttl = 10
  WaitTicks = 2
  MaxDelay = 1
  MaxNotices = 2
  MaxFaults = 1
\* The command ends.
CHECK_DEADLOCK FALSE
INVARIANTS
  RecordsRespectPrivacy
  
PROPERTIES
  ReadyIsListed
  RenewedInTime
  
