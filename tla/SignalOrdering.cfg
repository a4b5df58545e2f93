SPECIFICATION Spec
CONSTANTS
  Names = {"signal_store_release_load_acquire_ordering",
           "signal_add_acq_rel_ordering",
           "signal_add_acquire_release_ordering",
           "signal_and_acquire_release_ordering",
           "signal_cas_acq_rel_ordering",
           "signal_cas_acquire_release_ordering",
           "signal_exchange_acq_rel_ordering",
           "signal_exchange_acquire_release_ordering",
           "signal_or_acq_rel_ordering",
           "signal_or_acquire_release_ordering",
           "signal_subtract_acq_rel_ordering",
           "signal_xor_acq_rel_ordering",
           "signal_xor_acquire_release_ordering",
           "signal_store_release_load_acquire_ordering_transitive",
           "signal_add_acq_rel_ordering_transitive",
           "signal_add_acquire_release_ordering_transitive",
           "signal_and_acq_rel_ordering_transitive",
           "signal_and_acquire_release_ordering_transitive",
           "signal_cas_acq_rel_ordering_transitive",
           "signal_cas_acquire_release_ordering_transitive",
           "signal_exchange_acq_rel_ordering_transitive",
           "signal_exchange_acquire_release_ordering_transitive",
           "signal_subtract_acq_rel_ordering_transitive",
           "signal_subtract_acquire_release_ordering_transitive",
           "signal_xor_acq_rel_ordering_transitive",
           "signal_xor_acquire_release_ordering_transitive"}
  NumX = 2
  NumIter = 3
  EarlyWakes = FALSE
INVARIANT OracleSound
INVARIANT TokenExclusive
INVARIANT HolderSynchronised
INVARIANT FollowsIdealRun
PROPERTY Terminates
