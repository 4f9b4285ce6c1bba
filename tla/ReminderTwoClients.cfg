SPECIFICATION MCSpec
CONSTANTS
  Reminders = {r1}
  Clients = {c1, c2}
  None = None
  StaleClaimGrace = 1
  MaxDeliveryAttempts = 2
  SendBuffer = 1
  Horizon = 1
  MaxTime = 2
  MaxEdits = 1
  Second = 2
  HalfRange = 12
  MaxAdvanceSteps = 3
  MinIntervalPublic = 6
  MinIntervalDM = 3
  SampleBase = 0
  Never = Never
  Instants <- MCInstants
  Delays <- MCDelays
  Calendars <- MCCalendars
  Unit <- MCUnit
  IntRange = 2048
  ThisYear = 2026
  Texts <- MCTexts
SYMMETRY Symmetry
INVARIANTS
  ClaimBudget
  RepeatsKeepPhase
  WhatIsReadWasWritten

  
