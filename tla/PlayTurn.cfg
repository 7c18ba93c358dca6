CONSTANTS
  Worker = {w1, w2}
  Move = {m1, m2}
  Request = {r1, r2}
  Possibility = {p1, p2}
  NoRequest = NoRequest
  NoOutcome = NoOutcome
  NoMove = NoMove
  NoPossibility = NoPossibility
  MaxSlots = 1
  MaxActors = 1
  MaxDirect = 1
  MaxLog = 3
SPECIFICATION Spec
SYMMETRY Symmetry
INVARIANTS MoveHappensOnce PossibilityOnce BudgetHeld OutcomeAccounts AnswersAgree
