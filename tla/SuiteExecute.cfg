SPECIFICATION Spec
CONSTANTS
  Targets <- MCTargets
  Behaviours = {"pass", "fail", "crash", "hang"}
  MaxConfigures = 1
INVARIANT ExecuteTellsFailures
