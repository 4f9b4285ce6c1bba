SPECIFICATION Spec
CONSTANTS
  Files = {f1, f2, f3}
  Hashes = {k1}
  Triggers = {t1, t2}
  Handlers = {h1, h2}
  None = None
  Grace = 1
  BatchLimit = 1
  Patience = 1
  MaxTime = 3
SYMMETRY Symmetry
INVARIANT DedupedFileHasBlob
