SPECIFICATION Spec
INVARIANT ConfiguresEveryTarget
INVARIANT ImageTestsRun
INVARIANT FormatsAgree
INVARIANT CoreTestsRunOnce
