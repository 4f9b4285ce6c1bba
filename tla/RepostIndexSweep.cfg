SPECIFICATION FairSpec
CONSTANTS
  i1 = i1
  i2 = i2
  i3 = i3
  b1 = b1
  b2 = b2
  b3 = b3
  u2 = u2
  p1 = p1
  p2 = p2
  Messages = {m1, m2}
  u1 = u1
  Instances = {i1, i2, i3}
  Posts <- MCTwoGuilds
  Excluded = {p2}
  PHash <- MCPHash
  None = None
  MaxChecks = 1
  Tolerance = 1
  Claims <- MCClaims
  RetentionDays <- MCRetentionDays
  BatchLimit = 1
  MaxEdits = 1
  MaxTime = 1
  ChunkCount = 3
  Width = 1
  TierIdentical = 0
  TierHigh = 0
  TierProbable = 7
PROPERTIES
  SweptOnlyWhenPast
  PastEntriesGo
