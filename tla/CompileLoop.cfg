SPECIFICATION Spec
CONSTANTS
  Supervisors = {s1, s2}
  Keys = {k1}
  Patches = {p1, p2}
  MaxGeneration = 1
  RepairsPerIncident = 1
  MaxCommands = 10
  MaxRequests = 3
  MaxResolutions = 1
  MaxCrashes = 1
  None = None
SYMMETRY Symmetry
CHECK_DEADLOCK FALSE
INVARIANTS OneWorker AllowanceHeld
PROPERTY SettledStands
