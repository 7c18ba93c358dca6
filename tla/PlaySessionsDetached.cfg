\* Updates of detached sessions, which the API accepts, make them playable.
CONSTANTS
  s1 = s1
  s2 = s2
  s3 = s3
  b1 = b1
  b2 = b2
  command = command
  player = player
  Session = {s1, s2, s3}
  Branch = {b1, b2}
  BranchOf <- TwoBranches
  Worker = {command}
  KindsOf <- AllKinds
  NoSession = NoSession
  CrashesAllowed = FALSE
SPECIFICATION Spec
CHECK_DEADLOCK FALSE
INVARIANT GoneForGood
