\* mid: actionable, between the release and the activation threshold, so it
\* keeps the sampled rule on but never turns it on; high: condition true;
\* unverified: available, not actionable. Two slots as in the code; three
\* publications, so that a loss and a recovery can be merged, and three reads.
CONSTANTS
    mid = mid
    high = high
    NumSlots = 2
    Readings = {none, mid, high, unverified}
    Available = {mid, high, unverified}
    NoReading = none
    Actionable = {mid, high}
    Holds = {high}
    Keeps = {mid, high}
    LevelOf <- MCLevelOf
    MaxGeneration = 2
    MaxRegistrations = 3
    MaxPublications = 4
    MaxInputs = 4
SPECIFICATION EngineSpec
INVARIANTS
    LatestStateReachesSubscriber
    PendingNoticeTruthful
    NoSlotStarves
    LevelsFollowInputs
    TriggerSpansNoGap
