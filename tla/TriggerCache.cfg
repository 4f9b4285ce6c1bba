SPECIFICATION FairSpec
CONSTANTS
  Instances = {i1}
  Triggers = {1}
  Callers = {c1, c2}
  Writers = {w1, w2}
  None = None
  MaxCandidates = 1
  MaxVersion = 1
INVARIANTS
  Coherent
  LookupIsCurrent
PROPERTY NobodyWaitsForEver
