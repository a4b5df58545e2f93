SPECIFICATION FairSpec
CONSTANTS
  Producers = {"p1", "p2", "p3"}
  Scenarios <- AllScenarios
INVARIANTS
  FullOnlyWhenOverloaded
  LaunchesWhatWasReserved
  ReusesAfterCompletion
PROPERTIES
  OverwritesOnlyWhenFull
  AllDispatched
