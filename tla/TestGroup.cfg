SPECIFICATION FairSpec
CONSTANTS
  MaxTests = 3
  MaxRounds = 2
  CreateMayFail = TRUE
INVARIANTS
  OncePerRound
  NoLostWakeup
  NoUseAfterFree
  ExitedAllFinished
PROPERTIES
  WaitIsBarrier
  WaitReturns
  ExitReturns
  ImplementsForkJoin
