SPECIFICATION FairSpec
CONSTANTS
  r1 = r1  r2 = r2  r3 = r3  s1 = s1  s2 = s2  s3 = s3  c1 = c1  c2 = c2
  Request = {r1, r2, r3}
  Scope = {s1, s2}
  ScopeOf <- TwoScopes
  LateMark <- NoPreparations
  Client = {c1, c2}
  NoSnapshot = NoSnapshot
  NoId = NoId
  NoRequest = NoRequest
  MaxOperations = 1
  MaxId = 2
  MaxRestarts = 1
CHECK_DEADLOCK FALSE
INVARIANTS OneOperationPerRequest BoundaryIsWrittenAhead RetentionHolds
PROPERTIES TerminalIsFinal LifecycleSpec EveryOperationEnds
