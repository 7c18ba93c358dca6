SPECIFICATION MoveSpec
CONSTANTS
  Store = {h1, h2}
  Run = {m1, m2}
  NoRun = NoRun
  NoManifest = NoManifest
  NoLog = NoLog
  NoStore = NoStore
  NoAudit = NoAudit
  MaxDeaths = 1
  MaxCommits = 2
  LastBegin = 0
SYMMETRY Symmetry
CHECK_DEADLOCK FALSE
INVARIANT InterruptedMeansDead
