SPECIFICATION Spec
CONSTANTS
  p1 = p1  p2 = p2  r1 = r1  r2 = r2  n1 = n1  n2 = n2  e1 = e1  e2 = e2
  v1 = v1  v2 = v2  A = A  B = B  x = x  y = y
  origin = origin  other = other  me = me
  Direct = Direct  None = None
\* A command ends, a stream is closed, a merge is done.
CHECK_DEADLOCK FALSE
INVARIANTS
  
  SidesMeet
  DoctorIsTruthful
  DoctorBlamesFairly
  
  
  ChildIsAccountedFor
  
  NotFoundLookedEverywhere
PROPERTY
  EditsAreKept
