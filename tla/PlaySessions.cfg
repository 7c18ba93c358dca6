\* Commands and moves one after the other on three sessions and two branches, updates
\* of detached sessions included; the host may die at any point.
CONSTANTS
  s1 = s1
  s2 = s2
  s3 = s3
  b1 = b1
  b2 = b2
  command = command
  player = player
  Session = {s1, s2, s3}
  Branch = {b1, b2}
  BranchOf <- TwoBranches
  Worker = {command}
  KindsOf <- AllKinds
  NoSession = NoSession
  CrashesAllowed = TRUE
SPECIFICATION Spec
INVARIANTS PointerAgrees GoneBranchUnplayable
PROPERTIES ArchivedUntilRestored BookSpec
