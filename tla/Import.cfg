SPECIFICATION MCSpec
CONSTANTS
  c1 = c1  c2 = c2  g1 = g1  u1 = u1  p1 = p1  i1 = i1
  L1 = L1  F1 = F1  F2 = F2  T1 = T1  T2 = T2  R1 = R1  S1 = S1
  h = h  ph = ph
  None = None
  Nobody = Nobody
  Import = Import
  Creates <- MCCreates
  Imports <- MCImports
  Owners <- MCOwners
  Registrations <- MCRegistrations
  Visits <- MCCreates
  Uid <- MCUid
  Origin <- MCOrigin
  Target <- MCTarget
  Imported <- MCImported
  Work <- MCWork
  Late <- MCLate
  Guild <- MCGuild
  Hash <- MCHash
  Uploaded = {}
  MaxKnown = 1
  EvictDivisor = 4
  MaxActive = 1
  MaxMoves = 1
  MaxRuns = 2
  Asks = {a1}
  PageLimit = 1
SYMMETRY Symmetry
INVARIANTS
  CreatesWithinCap
  CreatesNeverCollide
  CacheIsTrue
  
  NumberMeansWhatWasShown
  BlobsFollowFiles
CHECK_DEADLOCK FALSE
