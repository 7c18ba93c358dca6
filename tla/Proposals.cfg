CONSTANTS
  p1 = p1  p2 = p2  p3 = p3
  a1 = a1  a2 = a2
  b1 = b1  b2 = b2
  None = None
  Ids <- MCIds
  Artifacts = {a1, a2}
  Removable = {a1}
  Batches = {b1, b2}
  Target <- MCTarget
  BatchOf <- MCBatchOf
  MaxClock = 3
  MaxMishaps = 2
SPECIFICATION Spec
INVARIANTS CanonReadable AcceptedIsTruth DecisionsExplained
