SPECIFICATION FairSpec
CONSTANTS
  call = call
  stream = stream
  probe = probe
  None = None
  Requests <- MCRequests
  Kind <- MCKind
  DrainDelay = 1
  ShutdownTimeout = 2
  MinuteTicks = 1
  HourTicks = 2
  MaxSignals = 2
  MaxStart = 2
  MaxTime = 5
CHECK_DEADLOCK FALSE
INVARIANTS
  PoolOutlivesItsUsers
  StopKeepsItsWaits
  HoursAreServed
PROPERTY StoppingEnds
