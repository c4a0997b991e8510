\* Three registrations: an engine attach and its rollback beside subscribers
\* that fill a channel, or a slot reused twice; two runs, so that a restart meets
\* the dispatcher of a run whose stop timed out.
CONSTANTS
  Channels = {"turn", "brake"}
  Slots = {1, 2}
  RuleSignals <- MCRuleSignals
  EngineCapacity = 3
  Threads = {"main"}
  Configs = {c1, c2}
  MaxGeneration = 3
  MaxRegistrations = 3
  MaxRuns = 2
SPECIFICATION Spec
SYMMETRY MCSymmetry
CHECK_DEADLOCK FALSE
INVARIANTS
    FacadeQuiescent
    BookkeepingAgrees
PROPERTIES
    RegistryStableInDispatch
