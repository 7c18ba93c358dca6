\* A move of one session beside commands that create and activate.
CONSTANTS
  s1 = s1
  s2 = s2
  s3 = s3
  b1 = b1
  b2 = b2
  command = command
  player = player
  Session = {s1, s2, s3}
  Branch = {b1, b2}
  BranchOf <- TwoBranches
  Worker = {command, player}
  KindsOf <- CommandsAndMoves
  NoSession = NoSession
  CrashesAllowed = FALSE
SPECIFICATION Spec
CHECK_DEADLOCK FALSE
INVARIANT OneActiveSession
