SPECIFICATION PartsSpec
CONSTANTS
  Connections <- MCConnections
  Outbound = {6}
  Ips <- MCIps
  max_connections_per_ip = 2
  attempts_per_minute = 1
  max_rate_ips = 1
  RATE_WINDOW = 2
  MaxTime = 4
  NoIp = NoIp
  p1 = p1  p2 = p2  p3 = p3  n1 = n1  n2 = n2  ip1 = ip1  ip2 = ip2
  slow = slow  checker = checker
\* A stream is closed after its request, and connections are used up.
CHECK_DEADLOCK FALSE
INVARIANTS
  SeenIsLiveHistory
  WithinLimits
  TablesMatchSwarm
  AtMostTwoBuckets
  HealthcheckIsTruthful
  LengthsAreExact
PROPERTY
  PagesAdvance
