SPECIFICATION FairSpec
CONSTANTS
  Reminders = {r1}
  Clients = {c1}
  None = None
  StaleClaimGrace = 1
  MaxDeliveryAttempts = 2
  SendBuffer = 1
  Horizon = 1
  MaxTime = 3
  MaxEdits = 1
PROPERTIES
  DueIsClaimed
  ClaimIsClosed
