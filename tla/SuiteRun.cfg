SPECIFICATION Spec
CONSTANTS
  Targets <- MCTargets
  Behaviours = {"pass", "fail", "crash", "hang"}
  MaxConfigures = 2
INVARIANTS
  CountsEveryLine
  ReportsFollowTheList
  CTestTellsFailures
PROPERTY Ends
