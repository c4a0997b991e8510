SPECIFICATION Spec
CHECK_DEADLOCK FALSE
CONSTANTS
  MaxPayload = 1
  Captures <- MCCaptures
  Buses = {0}
  Schedules <- MCSchedules
  MaxEvents = 7
  Faults <- MCFaults
  Requests <- MCRequests
  Scripts <- MCScripts
  MaxText = 2
  MaxControl = 1
  MaxClients = 1
  MaxWall = 2
INVARIANTS
    ReplayIsTheSchedule
    ConsumersSeeOneReplay
PROPERTIES
    PlayerFaithful
    HostAndWorkerApart
    HostEnds
