SPECIFICATION Spec
CONSTANTS
  Variants = {"cas_acq_rel", "cas_acquire_release", "add_acq_rel", "add_acquire_release"}
  QueueMax = 4
  TerminationValue = 6
INVARIANTS
  CasOracleSound
  TurnsExclusive
  FinalValues
PROPERTY Terminates
