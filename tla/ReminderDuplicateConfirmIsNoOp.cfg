SPECIFICATION Spec
CONSTANTS
  Reminders = {r1}
  Clients = {c1, c2}
  None = None
  StaleClaimGrace = 1
  MaxDeliveryAttempts = 2
  SendBuffer = 1
  Horizon = 1
  MaxTime = 2
  MaxEdits = 1
PROPERTY DuplicateConfirmIsNoOp
