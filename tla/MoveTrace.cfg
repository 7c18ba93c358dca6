SPECIFICATION FairMoveSpec
CONSTANTS
  Store = {h1}
  Run = {m1, m2}
  NoRun = NoRun
  NoManifest = NoManifest
  NoLog = NoLog
  NoStore = NoStore
  NoAudit = NoAudit
  MaxDeaths = 2
  MaxCommits = 2
  LastBegin = 0
CHECK_DEADLOCK FALSE
INVARIANTS LogsReadable TraceTellsTruth
PROPERTIES ShownOutcomeStands EveryRunAccounted
