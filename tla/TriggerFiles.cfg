SPECIFICATION FairSpec
CONSTANTS
  Files = {f1, f2}
  Hashes = {k1, k2}
  Triggers = {t1}
  Handlers = {h1, h2}
  None = None
  Grace = 1
  BatchLimit = 1
  Patience = 1
  MaxTime = 2
INVARIANTS
  GraceProtects
  BlobsFollowRows
PROPERTY AbandonedIsCollected
