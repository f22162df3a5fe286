SPECIFICATION FairSpec
CONSTANTS
  p1 = p1  p2 = p2  n1 = n1  n2 = n2  s1 = s1  s2 = s2  e1 = e1  e2 = e2
  None = None
  Peers <- MCPeers
  Nonces <- MCNonces
  Secrets <- MCSecrets
  Secret = s1
  Entropy <- MCEntropy
  Versions <- MCVersions
  PROTOCOL_VERSION = 1
  AvailableDeadline = 2
  ResumeDuration = 2
  MaxTime = 4
INVARIANTS
  SingleDisclosure
  CompletedIsClaimant
PROPERTIES
  ResumeWithinWindow
  ImplementsOneTimeShare
  EventuallyTerminal
