SPECIFICATION Spec
CONSTANTS
  Undefined = Undefined
  Frames <- MCFrames
  Watched <- MCWatched
  Freshness <- MCFreshness
  SilenceTimeout = 2
  Heartbeat = 2
  MaxDelay = 1
  MaxFrames = 2
  MaxTime = 4
CHECK_DEADLOCK FALSE
INVARIANTS
    ChannelsFollowState
    SinkHasEvidence
PROPERTIES
    NoSilentGap
