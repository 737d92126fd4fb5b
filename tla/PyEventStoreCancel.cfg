SPECIFICATION Spec
CONSTANTS
  Callers = {c1, c2}
  Batch = 1
  MaxVersion = 1
INVARIANT AppendsSerialized
CHECK_DEADLOCK FALSE
