\* Two handlers, two keys, two fingerprints, three commands, two restarts.
CONSTANTS
  Key = {k1, k2}
  Fingerprint = {p1, p2}
  Call = {c1, c2}
  NoRecord = NoRecord
  NoKey = NoKey
  NoFingerprint = NoFingerprint
  MaxCalls = 3
  MaxRestarts = 2
SPECIFICATION FairSpec
CHECK_DEADLOCK FALSE
INVARIANTS AtMostOnce NothingUnrecorded SuccessIsReal RunningIsAtWork
PROPERTIES VerdictsStand EveryCallAnswered
