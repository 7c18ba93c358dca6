\* Three processes on one host, one on another, each process id used twice.
SPECIFICATION LockSpec
CONSTANTS
  p1 = p1  p2 = p2  p3 = p3  p4 = p4  h1 = h1  h2 = h2
  Process = {p1, p2, p3, p4}
  Host = {h1, h2}
  HostOf <- TwoHosts
  NoOwner = NoOwner
  NoProcess = NoProcess
  MaxRuns = 1
SYMMETRY SameHost
CHECK_DEADLOCK FALSE
INVARIANTS MutualExclusion
PROPERTY ArchivesDeadOwner
