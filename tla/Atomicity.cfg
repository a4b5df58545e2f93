SPECIFICATION Spec
CONSTANTS
  Operations = {"add", "subtract", "cas", "and", "or", "xor", "exchange", "write_index_add", "write_index_cas"}
  Orders = {"release", "relaxed", "all"}
  OpCount = 2
  Rounds = 2
  Groups = 2
  TerminationValue = 6
  Torn = {0, 3}
  QueuesMax = {0, 3, 4}
  QueueSizes = {2, 4, 8}
INVARIANTS
  OracleSound
  SensitiveTestsDetect
PROPERTY Terminates
