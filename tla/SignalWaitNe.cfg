SPECIFICATION Spec
CONSTANTS
  Tests = {"ne"}
  NUM_THREADS = 4
  IntBits = 4
  ValueBits = 8
  IntHalf = 8
  ValueHalf = 128
  SubtractStart = 4
PROPERTY Returns
CHECK_DEADLOCK FALSE
