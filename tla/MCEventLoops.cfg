SPECIFICATION LoopsSpec
CONSTANTS
  q1 = q1  q2 = q2  c1 = c1  c2 = c2  c3 = c3
  r1 = r1  r2 = r2  p1 = p1
  Requests <- MCRequests
  Calls <- MCCalls
  Replies <- MCReplies
  Unavailable = Unavailable
  EventCapacity = 1
  MaxNotices = 1
\* The client stops its driver, and the command of a node exits.
CHECK_DEADLOCK FALSE
INVARIANTS
  
  OkIsDelivered
  RepliesAreTheirOwn
  GaugesMatchSwarm
PROPERTIES
  RespondReturns
  CallsReturn
  ShutdownCompletes
