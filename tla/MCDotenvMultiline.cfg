SPECIFICATION Spec
CONSTANTS
  Keys = {A, B}
  Texts = {x, y}
  None = None
  Existing <- MultiLine
  Received <- Payloads
  MaxLines = 4
INVARIANT
  MergeIsEffective
\* One merge, then nothing more to do.
CHECK_DEADLOCK FALSE
