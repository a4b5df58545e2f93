SPECIFICATION Spec
CONSTANTS
  Tests = {"aql_private_memory", "aql_group_memory", "code_recursive_kernel_function"}
  Machines <- MCMachines
INVARIANTS
  KernelsHaveTheirMemory
  ErrorsSurface
  NothingLeaks
CHECK_DEADLOCK FALSE
