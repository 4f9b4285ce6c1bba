SPECIFICATION MCSpec
CONSTANTS
  Streams = {s1, s2}
  Platforms = {p1}
  MaxClients = 1
  SendBuffer = 1
  MaxActions = 1
  None = None
  Unset = Unset
  u1 = u1
  u2 = u2
  Users = {u1, u2}
  Clearances = {0, 1, 20, 50}
  Requests <- MCRequests
  DefaultTimeout = 9
  Backoffs <- MCBackoffs
  Half = 4
  MaxDigits = 18
  Delays = {1}
  MaxChanges = 1
  MinBackoff = 1
  MaxBackoff = 3
  MaxFaults = 3
CHECK_DEADLOCK FALSE
INVARIANTS
  PushMeetsOpenChannels
  RegistryIsExact
  ActsOnceAndCleared
PROPERTIES
  StreamsEnd
  StreamComesBack
