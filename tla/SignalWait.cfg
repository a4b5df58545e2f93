SPECIFICATION Spec
CONSTANTS
  Tests = {"add", "and", "or", "subtract", "xor", "cas", "exchange", "store", "eq", "lt", "gte_equal", "gte_greater", "expectancy", "sat_eq", "sat_ne", "sat_lt", "sat_gte_equal", "sat_gte_greater"}
  NUM_THREADS = 4
  IntBits = 4
  ValueBits = 8
  IntHalf = 8
  ValueHalf = 128
  SubtractStart = 4
INVARIANTS
  OracleSound
  AnswersInOrder
PROPERTY Returns
CHECK_DEADLOCK FALSE
