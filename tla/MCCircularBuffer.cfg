SPECIFICATION Spec
CONSTANTS
  Bytes = {a, b}
  MaxSize = 3
  Lengths = {1, 2, 3, 4}
INVARIANTS RingOK
PROPERTIES QueueSpec
