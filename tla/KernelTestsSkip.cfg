SPECIFICATION Spec
CONSTANTS
  Tests = {"aql_group_memory"}
  Machines <- MCMachines
INVARIANT CapableAgentsTested
CHECK_DEADLOCK FALSE
