SPECIFICATION MCSpec
CONSTANTS
  i1 = i1
  i2 = i2
  i3 = i3
  p1 = p1
  p2 = p2
  b1 = b1
  b2 = b2
  b3 = b3
  Messages = {m1, m2, m3}
  u1 = u1
  u2 = u2
  Instances = {i1, i2}
  Posts <- MCPosts
  Excluded = {p2}
  PHash <- MCPHash
  None = None
  MaxChecks = 2
  Tolerance = 1
  Claims <- MCHonest
  RetentionDays <- MCKeepAll
  BatchLimit = 1
  MaxEdits = 1
  MaxTime = 0
  ChunkCount = 3
  Width = 1
  TierIdentical = 0
  TierHigh = 0
  TierProbable = 7
  Pages <- MCPages
  Forms <- MCForms
  Unindexed <- MCUnindexed
  ExcludedHosts <- MCExcludedHosts
  MaxCandidates = 2
  MaxAttachments = 1
SYMMETRY Symmetry
INVARIANTS
  FlaggedIffIndexed
  OneIdentity
