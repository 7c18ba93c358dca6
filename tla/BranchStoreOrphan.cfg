SPECIFICATION Spec
CONSTANTS
  w1 = w1  w2 = w2  b1 = b1  b2 = b2  e1 = e1  none = none  root = root
  Worker = {w1, w2}
  Branch = {b1, b2}
  Proposal = {e1}
  NoWorker = none
  NoBranch = root
  MaxHistory = 1
INVARIANTS NoOrphans
