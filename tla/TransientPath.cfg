\* One binding triggered twice; a clock past two durations, so that a start can
\* wait in the queue beyond its life; an off order racing a stall and its
\* resume, or a driver fault between them.
CONSTANTS
    Ids = {t1}
    Duration = 1
    MaxTime = 2
    MaxEpoch = 2
    MaxSequence = 2
    MaxFaults = 1
SPECIFICATION Spec
INVARIANTS
    AcceptedStartReachesRenderer
    ActiveOnlyInItsEpoch
PROPERTIES
    OneShotsPlayOnce
